--------------------------- MODULE KayaExceptions ---------------------------
(***************************************************************************)
(* exceptions.c: the system calls SYS1..SYS8 of the running process, and   *)
(* what happens to it on any other exception (pass up or die).             *)
(***************************************************************************)
EXTENDS KayaScheduler

(* LoadState(syscallOld): the caller goes on behind its SYSCALL.           *)
LoadCaller ==
    /\ cpu' = Succ(cpu)
    /\ UNCHANGED <<currentProcess, mode, pltPending>>

-----------------------------------------------------------------------------
(* SYS1.  allocPcb clears every field of the pcb it hands out; the new     *)
(* process is a child of the caller and goes to the end of the ready queue.*)
CreateFailsCounted ==       \* mutant: counted before the test for NULL
    /\ Running("CREATEPROCESS")
    /\ pcbFree = {}
    /\ processCount' = processCount + 1
    /\ LoadCaller
    /\ UNCHANGED <<pcbFree, treeVars, queueVars, softBlockCount, procVars,
                   readyQ, semaphore, killing, devVars>>

CreateFails ==
    /\ Running("CREATEPROCESS")
    /\ pcbFree = {}
    /\ LoadCaller
    /\ UNCHANGED <<pcbFree, treeVars, queueVars, countVars, procVars, readyQ,
                   semaphore, killing, devVars>>

CreateProcess(p, c) ==
    /\ Running("CREATEPROCESS")
    /\ p \in pcbFree
    /\ pcbFree' = pcbFree \ {p}
    /\ p_prnt' = [p_prnt EXCEPT ![p] = currentProcess]
    /\ p_child' = [p_child EXCEPT ![p] = {}, ![currentProcess] = @ \cup {p}]
    /\ p_semAdd' = [p_semAdd EXCEPT ![p] = NULL]
    /\ newAreas' = [newAreas EXCEPT ![p] = [t \in ExcType |-> NULL]]
    /\ p_s' = [p_s EXCEPT ![p] = c]
    /\ readyQ' = insertProcQ(readyQ, p)
    /\ processCount' = processCount + 1
    /\ LoadCaller
    /\ UNCHANGED <<procQ, softBlockCount, semaphore, killing, devVars>>

-----------------------------------------------------------------------------
(* SYS2, up to the first call of HoneyIKilledTheKids.  The other calls     *)
(* that end in TerminateProcess are an SYS5 for a vector already set, an   *)
(* SYS8 that would not block, and an exception nobody passes up.           *)
StartKill ==
    /\ mode' = "kill"
    /\ killing' = <<currentProcess>>
    /\ UNCHANGED <<readyQ, currentProcess, cpu, pltPending>>

TerminateProcess ==
    /\ Running("TERMINATEPROCESS")
    /\ StartKill
    /\ UNCHANGED <<pcbFree, treeVars, queueVars, countVars, procVars,
                   semaphore, devVars>>

(* The pcb p of the innermost HoneyIKilledTheKids(syscallOld, p).          *)
Victim == Last(killing)

(* while(!emptyChild(p)) HoneyIKilledTheKids(removeChild(p)): the child    *)
(* leaves the list of children, its own p_prnt stays.                      *)
KillChild(c) ==
    /\ mode = "kill"
    /\ c \in p_child[Victim]
    /\ p_child' = [p_child EXCEPT ![Victim] = @ \ {c}]
    /\ killing' = Append(killing, c)
    /\ UNCHANGED <<pcbFree, p_prnt, queueVars, countVars, procVars, schedVars,
                   semaphore, devVars>>

(* processCount--, freePcb(p), return: to the caller's loop, or from the   *)
(* outermost call to TerminateProcess, which calls the scheduler.  q is    *)
(* the ready queue by then; freePcb links p into the free list even if p   *)
(* is still linked into q.                                                 *)
FreeVictim(q) ==
    /\ processCount' = processCount - 1
    /\ pcbFree' = pcbFree \cup {Victim}
    /\ killing' = Front(killing)
    /\ \/ /\ Contains(q, Victim)
          /\ mode' = "corrupt"
          /\ readyQ' = q
          /\ UNCHANGED <<currentProcess, cpu, pltPending>>
       \/ /\ ~Contains(q, Victim)
          /\ Len(killing) > 1
          /\ readyQ' = q
          /\ UNCHANGED <<currentProcess, cpu, mode, pltPending>>
       \/ /\ ~Contains(q, Victim)
          /\ Len(killing) = 1
          /\ Scheduler(q, currentProcess)

(* outChild(p): p leaves the child list of its parent, if it has one.      *)
KeepChild(p) == p_child     \* mutant: outChild not called
outChild(p)  == [q \in Proc |-> IF q = p_prnt[p] THEN p_child[q] \ {p}
                                                ELSE p_child[q]]

KillCurrent ==
    /\ mode = "kill"
    /\ p_child[Victim] = {}
    /\ Victim = currentProcess
    /\ p_child' = outChild(Victim)
    /\ UNCHANGED <<p_prnt, queueVars, softBlockCount, procVars, semaphore,
                   devVars>>
    /\ FreeVictim(readyQ)

KillReady ==
    /\ mode = "kill"
    /\ p_child[Victim] = {}
    /\ Victim # currentProcess
    /\ p_semAdd[Victim] = NULL
    /\ UNCHANGED <<treeVars, queueVars, softBlockCount, procVars, semaphore,
                   devVars>>
    /\ FreeVictim(outProcQ(readyQ, Victim))

(* firstDevice <= semaddr && semaddr <= lastDevice: the pseudo-clock,      *)
(* which is the last of semaphoreArray, is not in this range.              *)
WholeArray(s)  == s \in SoftSem    \* mutant: SEMCOUNT - 1 for SEMCOUNT - 2
NoRangeTest(s) == TRUE             \* mutant: every waiter taken for a device's
IsDeviceSem(s) == s \in DevSem

(* A pcb whose p_semAdd is set counts as blocked; removeBlocked never      *)
(* resets it, so this is also the branch of a ready process that was       *)
(* blocked before, which outBlocked then does not find.                    *)
KillBlocked ==
    /\ mode = "kill"
    /\ p_child[Victim] = {}
    /\ Victim # currentProcess
    /\ \E s \in Sem :
          /\ s = p_semAdd[Victim]
          /\ procQ' = [procQ EXCEPT ![s] = outProcQ(@, Victim)]
          /\ IF IsDeviceSem(s)
             THEN /\ softBlockCount' = softBlockCount - 1
                  /\ UNCHANGED semaphore
             ELSE /\ semaphore' = [semaphore EXCEPT ![s] = @ + 1]
                  /\ UNCHANGED softBlockCount
    /\ UNCHANGED <<treeVars, p_semAdd, procVars, devVars>>
    /\ FreeVictim(readyQ)

-----------------------------------------------------------------------------
(* SYS3: with waiters the head of the semaphore's queue becomes ready.     *)
(* Its p_semAdd keeps the semaphore's address.                             *)
Verhogen(s) ==
    /\ Running("VERHOGEN")
    /\ semaphore[s] < MaxSem
    /\ semaphore' = [semaphore EXCEPT ![s] = @ + 1]
    /\ LET n == IF semaphore[s] + 1 <= 0 THEN Waiting(s) ELSE 0
       IN  readyQ' = Woken(s, n) /\ procQ' = Remaining(s, n)
    /\ LoadCaller
    /\ UNCHANGED <<pcbFree, treeVars, p_semAdd, countVars, procVars, killing,
                   devVars>>

(* Save the caller behind its SYSCALL, put it on the semaphore's queue.    *)
BlockUnsaved(s) ==          \* mutant: no CopyState
    /\ procQ' = [procQ EXCEPT ![s] = insertProcQ(@, currentProcess)]
    /\ p_semAdd' = [p_semAdd EXCEPT ![currentProcess] = s]
    /\ UNCHANGED p_s
    /\ Scheduler(readyQ, NULL)

BlockHelperFunction(s) ==
    /\ p_s' = [p_s EXCEPT ![currentProcess] = Succ(cpu)]
    /\ procQ' = [procQ EXCEPT ![s] = insertProcQ(@, currentProcess)]
    /\ p_semAdd' = [p_semAdd EXCEPT ![currentProcess] = s]
    /\ Scheduler(readyQ, NULL)

(* SYS4, also the tail of SYS7.                                            *)
P(s) ==
    /\ semaphore' = [semaphore EXCEPT ![s] = @ - 1]
    /\ IF semaphore[s] - 1 < 0
       THEN BlockHelperFunction(s)
       ELSE LoadCaller /\ UNCHANGED <<p_s, procQ, p_semAdd, readyQ>>

Passeren(s) ==
    /\ Running("PASSEREN")
    /\ UNCHANGED <<pcbFree, treeVars, countVars, newAreas, killing, devVars>>
    /\ P(s)

(* SYS7 *)
WaitForClock ==
    /\ Running("WAITFORCLOCK")
    /\ softBlockCount < MaxSoft
    /\ softBlockCount' = softBlockCount + 1
    /\ UNCHANGED <<pcbFree, treeVars, processCount, newAreas, killing,
                   devVars>>
    /\ P(ITSEMINDEX)

(* SYS8 on (sub)device d; the device's state is st when it is issued.      *)
IoWait(d, st) ==
    /\ softBlockCount < MaxSoft /\ semaphore[d] > -MaxSoft
    /\ semaphore' = [semaphore EXCEPT ![d] = @ - 1]
    /\ dev' = st
    /\ UNCHANGED <<pcbFree, treeVars, processCount, newAreas, itPending>>
    /\ IF semaphore[d] - 1 < 0
       THEN /\ softBlockCount' = softBlockCount + 1
            /\ UNCHANGED killing
            /\ BlockHelperFunction(d)
       ELSE /\ UNCHANGED <<softBlockCount, p_s, queueVars>>
            /\ StartKill

WaitForIo(d) == Running("WAITFORIO") /\ IoWait(d, dev)

(* A process writes a command register, interrupts unmasked (p2test.c).    *)
Command(d) ==
    /\ Running("COMMAND")
    /\ dev[d] = "ready"
    /\ dev' = [dev EXCEPT ![d] = "busy"]
    /\ cpu' = Succ(cpu)
    /\ UNCHANGED <<pcbFree, treeVars, queueVars, countVars, procVars, readyQ,
                   currentProcess, mode, pltPending, semaphore, killing,
                   itPending>>

(* The phase 3 way: command and SYS8 between allowInterrupts(FALSE) and    *)
(* allowInterrupts(TRUE), so nothing comes between them.                   *)
IoRequest(d) ==
    /\ Running("IOREQUEST")
    /\ dev[d] = "ready"
    /\ IoWait(d, [dev EXCEPT ![d] = "busy"])

-----------------------------------------------------------------------------
(* SYS5 for exception type t, c being where the caller's handler starts.   *)
ExceptionStateVec(t, c) ==
    /\ Running("EXCEPTIONSTATEVEC")
    /\ UNCHANGED <<pcbFree, treeVars, queueVars, countVars, p_s, semaphore,
                   devVars>>
    /\ IF newAreas[currentProcess][t] = NULL
       THEN /\ newAreas' = [newAreas EXCEPT ![currentProcess][t] = c]
            /\ LoadCaller
            /\ UNCHANGED <<readyQ, killing>>
       ELSE /\ UNCHANGED newAreas
            /\ StartKill

(* The old area it fills is memory of the process and not modelled.        *)
PassUpOrDie(t) ==
    /\ UNCHANGED <<pcbFree, treeVars, queueVars, countVars, newAreas,
                   semaphore, devVars>>
    /\ IF newAreas[currentProcess][t] = NULL
       THEN /\ UNCHANGED p_s
            /\ StartKill
       ELSE /\ p_s' = [p_s EXCEPT ![currentProcess] =
                                      newAreas[currentProcess][t]]
            /\ cpu' = newAreas[currentProcess][t]
            /\ UNCHANGED <<readyQ, currentProcess, mode, pltPending, killing>>

(* SYS9 and above.                                                         *)
SyscallPassUp == Running("SYSCALL9") /\ PassUpOrDie(SYSCALLEXCEPTION)

(* A program trap (also SYS1..SYS8 in user mode) or a TLB exception.       *)
ProgramTrapHandler   == Running("TRAP") /\ PassUpOrDie(PROGRAMTRAPEXCEPTION)
TLBManagementHandler == Running("TRAP") /\ PassUpOrDie(TLBEXCEPTION)

(* The process computes; no exception (SYS6 only reads the clock).         *)
Instruction ==
    /\ Running("INSTRUCTION")
    /\ cpu' = Succ(cpu)
    /\ UNCHANGED <<pcbFree, treeVars, queueVars, countVars, procVars, readyQ,
                   currentProcess, mode, pltPending, semaphore, killing,
                   devVars>>
=============================================================================
