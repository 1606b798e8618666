------------------------------ MODULE CpuTime ------------------------------
(***************************************************************************)
(* Processor time accounting, which is spread over scheduler.c (the start  *)
(* of a turn), exceptions.c and interrupts.c (its end, SYS6) and pcb.c     *)
(* (the start of a life).  Of scheduling only what moves a process between *)
(* these is kept: queues are sets, and any blocked process may be woken.   *)
(***************************************************************************)
EXTENDS Integers

CONSTANTS
    Pcb, NULL,
    HALF,       \* cpu_t is a signed integer in -HALF .. HALF - 1
    SCALE,      \* the time scale register: clock ticks per microsecond
    MaxTime     \* bound on the time a behaviour takes, for TLC

ASSUME ClockAssumption ==
    /\ HALF \in Nat \ {0} /\ SCALE \in Nat \ {0} /\ MaxTime \in Nat
    /\ NULL \notin Pcb

VARIABLES
    now,                \* ticks since power on
    place,              \* where each pcb is
    currentProcess, processStartTime, p_totalTime,
    inTurn,             \* currentProcess is between its dispatch and its end
    broken,             \* the nucleus used NULL or queued a free pcb
    used,               \* history: ticks each process had the processor for
    seen                \* history: the last SYS6 of each process

vars == <<now, place, currentProcess, processStartTime, p_totalTime, inTurn,
          broken, used, seen>>

Place == {"free", "ready", "blocked", "processor"}
Never == [value |-> 0, at |-> -1]

-----------------------------------------------------------------------------
(* Assignment to a cpu_t keeps the low bits.                               *)
Unsigned(x) == x % (2 * HALF)     \* mutant: cpu_t is unsigned
Wrap(x) == ((x + HALF) % (2 * HALF)) - HALF

(* C's quotient, which rounds towards 0.                                   *)
Quotient(x, d) == IF x >= 0 THEN x \div d ELSE -((-x) \div d)

(* The macro of const.h: the low word of the clock, read as a signed       *)
(* number, over the time scale.                                            *)
STCK == Quotient(Wrap(now), SCALE)

(* What IncrementProcessTime adds to the process's total, and SYS6 too.    *)
TotalTime == Wrap(p_totalTime[currentProcess] + (STCK - processStartTime))

-----------------------------------------------------------------------------
(* nucleus initialization: the one process is ready.                       *)
Init ==
    /\ now = 0
    /\ \E p \in Pcb : place = [q \in Pcb |-> IF q = p THEN "ready" ELSE "free"]
    /\ currentProcess = NULL
    /\ processStartTime = 0
    /\ p_totalTime = [p \in Pcb |-> 0]
    /\ inTurn = FALSE
    /\ broken = FALSE
    /\ used = [p \in Pcb |-> 0]
    /\ seen = [p \in Pcb |-> Never]

(* Time goes on in programs and in handlers alike.                         *)
Tick ==
    /\ now < MaxTime
    /\ now' = now + 1
    /\ used' = IF inTurn THEN [used EXCEPT ![currentProcess] = @ + 1] ELSE used
    /\ UNCHANGED <<place, currentProcess, processStartTime, p_totalTime,
                   inTurn, broken, seen>>

(* Scheduler, with a ready process.                                        *)
NoSTCK(p) ==     \* mutant: the start of the turn is not stored
    /\ ~inTurn /\ place[p] = "ready"
    /\ currentProcess' = p
    /\ inTurn' = TRUE
    /\ place' = [place EXCEPT ![p] = "processor"]
    /\ UNCHANGED <<now, processStartTime, p_totalTime, broken, used, seen>>

Dispatch(p) ==
    /\ ~inTurn /\ place[p] = "ready"
    /\ currentProcess' = p
    /\ processStartTime' = STCK
    /\ inTurn' = TRUE
    /\ place' = [place EXCEPT ![p] = "processor"]
    /\ UNCHANGED <<now, p_totalTime, broken, used, seen>>

IncrementProcessTime ==
    p_totalTime' = [p_totalTime EXCEPT ![currentProcess] = TotalTime]

(* BlockHelperFunction, of SYS4, SYS7 and SYS8.                            *)
Block ==
    /\ inTurn
    /\ IncrementProcessTime
    /\ place' = [place EXCEPT ![currentProcess] = "blocked"]
    /\ currentProcess' = NULL
    /\ inTurn' = FALSE
    /\ UNCHANGED <<now, processStartTime, broken, used, seen>>

(* PLTInterruptHandler; currentProcess stays until the next dispatch.      *)
Preempt ==
    /\ inTurn
    /\ IncrementProcessTime
    /\ place' = [place EXCEPT ![currentProcess] = "ready"]
    /\ inTurn' = FALSE
    /\ UNCHANGED <<now, currentProcess, processStartTime, broken, used, seen>>

(* The scheduler found nobody ready, and waits for an interrupt ...        *)
Idle ==
    /\ ~inTurn
    /\ \A p \in Pcb : place[p] # "ready"
    /\ \E p \in Pcb : place[p] = "blocked"

(* ... that of the local timer among them, if a quantum ended before the   *)
(* timer was set anew: NULL, or the pcb that terminated last, is charged   *)
(* and put on the ready queue.                                             *)
PreemptIdle ==
    /\ Idle
    /\ IF currentProcess = NULL THEN UNCHANGED p_totalTime
                                ELSE IncrementProcessTime
    /\ broken' = TRUE
    /\ UNCHANGED <<now, place, currentProcess, processStartTime, inTurn, used,
                   seen>>

(* What the idle path does after it enabled interrupts.                    *)
SchedulerNull ==
    /\ Idle
    /\ currentProcess' = NULL
    /\ UNCHANGED <<now, place, processStartTime, p_totalTime, inTurn, broken,
                   used, seen>>

(* SYS3 or an interrupt, which come while a process runs or when the       *)
(* scheduler waits.  The interrupted turn goes on.                         *)
Wake(p) ==
    /\ place[p] = "blocked"
    /\ inTurn \/ Idle
    /\ place' = [place EXCEPT ![p] = "ready"]
    /\ UNCHANGED <<now, currentProcess, processStartTime, p_totalTime, inTurn,
                   broken, used, seen>>

(* SYS1: allocPcb clears the total.                                        *)
NotCleared(p) ==     \* mutant: the total of the pcb's last process remains
    /\ inTurn /\ place[p] = "free"
    /\ place' = [place EXCEPT ![p] = "ready"]
    /\ used' = [used EXCEPT ![p] = 0]
    /\ seen' = [seen EXCEPT ![p] = Never]
    /\ UNCHANGED <<now, currentProcess, processStartTime, p_totalTime, inTurn,
                   broken>>

CreateProcess(p) ==
    /\ inTurn /\ place[p] = "free"
    /\ place' = [place EXCEPT ![p] = "ready"]
    /\ p_totalTime' = [p_totalTime EXCEPT ![p] = 0]
    /\ used' = [used EXCEPT ![p] = 0]
    /\ seen' = [seen EXCEPT ![p] = Never]
    /\ UNCHANGED <<now, currentProcess, processStartTime, inTurn, broken>>

(* SYS2, or an exception nobody handles: the process and its progeny, some *)
(* of the others.  currentProcess still points to its pcb.                 *)
TerminateProcess ==
    /\ inTurn
    /\ \E progeny \in SUBSET (Pcb \ {currentProcess}) :
           place' = [p \in Pcb |-> IF p \in progeny \cup {currentProcess}
                                   THEN "free" ELSE place[p]]
    /\ inTurn' = FALSE
    /\ UNCHANGED <<now, currentProcess, processStartTime, p_totalTime, broken,
                   used, seen>>

(* SYS6.                                                                   *)
GetCpuTime ==
    /\ inTurn
    /\ seen' = [seen EXCEPT ![currentProcess] =
                               [value |-> TotalTime, at |-> now]]
    /\ UNCHANGED <<now, place, currentProcess, processStartTime, p_totalTime,
                   inTurn, broken, used>>

(* Everything has terminated, or time is up, or what a broken nucleus does *)
(* next is not described.                                                  *)
Rest ==
    /\ now = MaxTime \/ broken \/ \A p \in Pcb : place[p] = "free"
    /\ UNCHANGED vars

Step ==
    \/ Tick \/ Block \/ Preempt \/ PreemptIdle \/ SchedulerNull
    \/ TerminateProcess \/ GetCpuTime
    \/ \E p \in Pcb : Dispatch(p) \/ Wake(p) \/ CreateProcess(p)

Next == (~broken /\ Step) \/ Rest

Spec == Init /\ [][Next]_vars

-----------------------------------------------------------------------------
cpu_t == -HALF .. HALF - 1

TypeOK ==
    /\ now \in Nat
    /\ place \in [Pcb -> Place]
    /\ currentProcess \in Pcb \cup {NULL}
    /\ processStartTime \in cpu_t
    /\ p_totalTime \in [Pcb -> cpu_t]
    /\ inTurn \in BOOLEAN /\ broken \in BOOLEAN
    /\ inTurn => currentProcess \in Pcb
    /\ used \in [Pcb -> Nat]
    /\ seen \in [Pcb -> [value : cpu_t, at : Nat \cup {-1}]]

(* The time a process is accounted for, the turn it has included, is the   *)
(* time it had the processor for since its pcb was allocated, up to        *)
(* multiples of the range of cpu_t: no turn is left out or counted twice,  *)
(* no process pays for another or for the idle processor, and the clock's  *)
(* low word may wrap within a turn.                                        *)
Accounted(p) ==
    p_totalTime[p] + (IF inTurn /\ currentProcess = p
                      THEN STCK - processStartTime ELSE 0)

TimeAccounted ==
    \A p \in Pcb : place[p] # "free" =>
        (Accounted(p) - used[p]) % (2 * HALF) = 0

(* What p2test asserts of two SYS6 of a process: between them its time     *)
(* grows, and by no more than the time of day does, for as long as a cpu_t *)
(* can hold the difference.                                                *)
NoMoreThanRealTime ==
    [][\A p \in Pcb :
          LET elapsed == seen'[p].at - seen[p].at
          IN  seen[p] # Never /\ seen'[p] # Never /\ elapsed < HALF =>
                  Wrap(seen'[p].value - seen[p].value) \in 0 .. elapsed]_vars
=============================================================================
