------------------------------ MODULE KayaState ------------------------------
(***************************************************************************)
(* The state shared by the parts of the Kaya nucleus (phase2): the globals *)
(* of initial.c, the pcb fields of types.h that the nucleus reads, and the *)
(* hardware the handlers see.  Process queues are the FIFO sequences that  *)
(* the circular lists of pcb.c stand for, and the ASL of asl.c is one such *)
(* queue per semaphore.                                                    *)
(*                                                                         *)
(* Handlers run with interrupts masked, so each handler is one step; only  *)
(* the recursion of SYS2 and the idle path of the scheduler, which runs    *)
(* with interrupts on, are cut into several.                               *)
(***************************************************************************)
EXTENDS Integers, FiniteSets, SequencesExt

CONSTANTS
    Proc,       \* the pcbs of procTable (MAXPROC of them)
    NULL,       \* the null pointer
    UserSem,    \* semaphores the processes declare in their own memory
    NUNIT,      \* device registers on lines 3..7, numbered by priority
    NTERM,      \* how many of them, the last ones, are terminals
    NCTX,       \* processor contexts (program points) are 0..NCTX-1
    Entry,      \* the contexts where new processes and SYS5 handlers start
    MaxSem,     \* bound: no V or interrupt raises a semaphore beyond it
    MaxSoft,    \* bound: no SYS7 or SYS8 raises softBlockCount beyond it,
                \* or lowers a device's semaphore below its negative
    IoDevs,     \* the (sub)devices the processes of this instance use
    Calls       \* what the processes of this instance do

DEVICECOUNT == NUNIT + NTERM    \* a terminal has a transmit and a receive part
ITSEMINDEX  == DEVICECOUNT      \* the pseudo-clock, last of semaphoreArray

Unit    == 0 .. NUNIT - 1
DevSem  == 0 .. DEVICECOUNT - 1 \* indices of semaphoreArray but the last one
SoftSem == 0 .. DEVICECOUNT     \* all of semaphoreArray
Sem     == UserSem \cup SoftSem
Ctx     == 0 .. NCTX - 1

TLBEXCEPTION         == 0
PROGRAMTRAPEXCEPTION == 1
SYSCALLEXCEPTION     == 2
ExcType              == 0 .. 2

Call == {"CREATEPROCESS", "TERMINATEPROCESS", "VERHOGEN", "PASSEREN",
         "EXCEPTIONSTATEVEC", "WAITFORCLOCK", "COMMAND", "WAITFORIO",
         "IOREQUEST", "SYSCALL9", "TRAP", "INSTRUCTION", "TIMER"}

ASSUME NucleusAssumption ==
    /\ IsFiniteSet(Proc)
    /\ NUNIT \in Nat /\ NTERM \in 0 .. NUNIT
    /\ NCTX \in Nat \ {0} /\ Entry \subseteq Ctx
    /\ MaxSem \in Nat /\ MaxSoft \in Nat
    /\ UserSem \cap SoftSem = {}
    /\ NULL \notin Proc /\ NULL \notin Sem /\ NULL \notin Ctx
    /\ IoDevs \subseteq DevSem
    /\ Calls \subseteq Call

VARIABLES
    (* pcb.c and asl.c *)
    pcbFree,        \* the pcbs on the pcbFree list
    procQ,          \* the process queue of each semaphore on the ASL
    p_prnt,         \* parent of each pcb
    p_child,        \* children of each pcb (their order left out)
    p_semAdd,       \* semaphore a pcb was last put on, or NULL
    p_s,            \* saved processor state of each pcb
    newAreas,       \* SYS5 vectors: context of the handler, or NULL
    (* initial.c *)
    readyQ, processCount, softBlockCount, currentProcess,
    semaphore,      \* semaphoreArray and the user semaphores
    (* control *)
    mode,           \* what the processor is doing
    killing,        \* call stack of HoneyIKilledTheKids, the root first
    (* hardware *)
    cpu,            \* context of the program the processor executes
    dev,            \* state of each (sub)device
    itPending, pltPending   \* interrupt requests of the two timers

treeVars  == <<p_prnt, p_child>>
queueVars == <<procQ, p_semAdd>>
countVars == <<processCount, softBlockCount>>
devVars   == <<dev, itPending>>
procVars  == <<p_s, newAreas>>
schedVars == <<readyQ, currentProcess, cpu, mode, pltPending>>

vars == <<pcbFree, procQ, p_prnt, p_child, p_semAdd, p_s, newAreas, readyQ,
          processCount, softBlockCount, currentProcess, semaphore, mode,
          killing, cpu, dev, itPending, pltPending>>

(***************************************************************************)
(* "run": currentProcess executes.  "kill": inside HoneyIKilledTheKids.    *)
(* "unmask", "nulled", "wait": the scheduler's idle path, after setSTATUS, *)
(* after currentProcess = NULL and at WAIT().  "halt" and "panic": the     *)
(* machine stopped.  "fault": the nucleus dereferenced NULL.  "corrupt": a *)
(* pcb became a member of two circular lists at once, after which the      *)
(* queues no longer are queues.                                            *)
(***************************************************************************)
Idle    == {"unmask", "nulled", "wait"}
Stopped == {"halt", "panic", "fault", "corrupt"}
Mode    == {"run", "kill"} \cup Idle \cup Stopped

DevStatus == {"ready", "busy", "done"}  \* "done": an interrupt is pending

Live == Proc \ pcbFree

(* The running process is about to do something this instance includes.    *)
Running(call) == mode = "run" /\ call \in Calls

(* The context after one more instruction.                                 *)
Succ(c) == (c + 1) % NCTX

-----------------------------------------------------------------------------
(* No pcb is on the queue q twice.                                         *)
Distinct(q) == \A i, j \in 1 .. Len(q) : q[i] = q[j] => i = j

(* The lists.  insertProcQ puts a pcb at the tail; outProcQ takes one out  *)
(* wherever it is, and leaves q alone when p is not on it.                 *)
InsertAtHead(q, p) == <<p>> \o q   \* mutant: the tail pointer not moved

insertProcQ(q, p) == Append(q, p)
outProcQ(q, p)    == RemoveFirst(q, p)

(* n times removeBlocked(s) followed by insertProcQ(&readyQ, p): the ready *)
(* queue and the semaphores' queues then.  removeBlocked leaves p_semAdd   *)
(* of the pcb as it is.                                                    *)
WokenUnchecked(s, n) ==     \* mutant: removeBlocked's NULL goes on the queue
    IF procQ[s] = <<>> THEN Append(readyQ, NULL)
                       ELSE readyQ \o SubSeq(procQ[s], 1, n)
HeadBlocked(s, n) == procQ  \* mutant: headBlocked instead of removeBlocked

Woken(s, n)     == readyQ \o SubSeq(procQ[s], 1, n)
Remaining(s, n) == [procQ EXCEPT ![s] = SubSeq(@, n + 1, Len(@))]

(* The number of pcbs one call removeBlocked(s) finds.                     *)
Waiting(s) == IF procQ[s] = <<>> THEN 0 ELSE 1

(* main(): everything is zeroed, one process is allocated and dispatched;  *)
(* a program initialises its own semaphores as it likes.                   *)
Init ==
    \E p \in Proc :
       /\ pcbFree = Proc \ {p}
       /\ procQ = [s \in Sem |-> <<>>]
       /\ p_prnt = [q \in Proc |-> NULL]
       /\ p_child = [q \in Proc |-> {}]
       /\ p_semAdd = [q \in Proc |-> NULL]
       /\ p_s = [q \in Proc |-> 0]
       /\ newAreas = [q \in Proc |-> [t \in ExcType |-> NULL]]
       /\ readyQ = <<>>
       /\ processCount = 1
       /\ softBlockCount = 0
       /\ currentProcess = p
       /\ semaphore \in [Sem -> 0 .. MaxSem]
       /\ \A s \in SoftSem : semaphore[s] = 0
       /\ mode = "run"
       /\ killing = <<>>
       /\ cpu = 0
       /\ dev = [d \in DevSem |-> "ready"]
       /\ itPending = FALSE
       /\ pltPending = FALSE
=============================================================================
