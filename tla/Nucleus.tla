------------------------------- MODULE Nucleus -------------------------------
(***************************************************************************)
(* The Kaya nucleus: processes, their exceptions, interrupts and the       *)
(* scheduler together, and what must be true of them.                      *)
(***************************************************************************)
EXTENDS KayaExceptions, KayaInterrupts

Syscall ==
    \/ CreateFails
    \/ \E p \in Proc, c \in Entry : CreateProcess(p, c)
    \/ TerminateProcess
    \/ \E s \in UserSem : Verhogen(s) \/ Passeren(s)
    \/ \E t \in ExcType, c \in Entry : ExceptionStateVec(t, c)
    \/ WaitForClock
    \/ \E d \in IoDevs : Command(d) \/ WaitForIo(d) \/ IoRequest(d)
    \/ SyscallPassUp

Exception == Syscall \/ ProgramTrapHandler \/ TLBManagementHandler

Kill ==
    \/ \E c \in Proc : KillChild(c)
    \/ KillCurrent
    \/ KillReady
    \/ KillBlocked

Interrupt ==
    \/ PLTPreempt
    \/ PLTIdle
    \/ ITInterruptHandler
    \/ \E u \in Unit : DeviceInterrupt(u)

Hardware ==
    \/ \E d \in DevSem : DeviceCompletes(d)
    \/ IntervalExpires
    \/ QuantumExpires

(* HALT and PANIC loop for ever, and what a broken nucleus does next is    *)
(* not described.                                                          *)
Halted == mode \in Stopped /\ UNCHANGED vars

Next ==
    \/ Exception
    \/ Instruction
    \/ Kill
    \/ SchedulerNull
    \/ SchedulerWait
    \/ Interrupt
    \/ Hardware
    \/ Halted

Spec == Init /\ [][Next]_vars

(***************************************************************************)
(* The processor executes the nucleus's code to its end, both timers run   *)
(* out again and again, and devices complete what they are told.  A        *)
(* request that stays pending is taken: those below the local timer's line *)
(* also when they are pending again and again, since the hardware takes    *)
(* them as soon as no higher line is.  No process owes anybody anything.   *)
(***************************************************************************)
Fairness ==
    /\ WF_vars(Kill)
    /\ WF_vars(SchedulerNull)
    /\ WF_vars(SchedulerWait)
    /\ WF_vars(PLTInterruptHandler)
    /\ SF_vars(ITInterruptHandler)
    /\ \A u \in Unit : SF_vars(DeviceInterrupt(u))
    /\ \A d \in DevSem : WF_vars(DeviceCompletes(d))
    /\ WF_vars(IntervalExpires)
    /\ WF_vars(QuantumExpires)

FairSpec == Spec /\ Fairness

-----------------------------------------------------------------------------
TypeOK ==
    /\ pcbFree \subseteq Proc
    /\ procQ \in [Sem -> Seq(Proc)]
    /\ p_prnt \in [Proc -> Proc \cup {NULL}]
    /\ p_child \in [Proc -> SUBSET Proc]
    /\ p_semAdd \in [Proc -> Sem \cup {NULL}]
    /\ p_s \in [Proc -> Ctx]
    /\ newAreas \in [Proc -> [ExcType -> Ctx \cup {NULL}]]
    /\ readyQ \in Seq(Proc)
    /\ processCount \in Int
    /\ softBlockCount \in Int
    /\ currentProcess \in Proc \cup {NULL}
    /\ semaphore \in [Sem -> Int]
    /\ mode \in Mode
    /\ killing \in Seq(Proc)
    /\ cpu \in Ctx
    /\ dev \in [DevSem -> DevStatus]
    /\ itPending \in BOOLEAN
    /\ pltPending \in BOOLEAN

-----------------------------------------------------------------------------
(* Where a pcb is.                                                         *)
OnReady(p)      == Contains(readyQ, p)
Blocked(p, s)   == Contains(procQ[s], p)

(* Every pcb not in free is either cur, or on the queue rq, or on exactly  *)
(* one queue of pq, the one its entry of sa names; the free ones are on    *)
(* none.                                                                   *)
Placed(rq, cur, pq, sa, free) ==
    /\ Distinct(rq)
    /\ \A s \in Sem : Distinct(pq[s])
    /\ \A p \in Proc, s \in Sem : Contains(pq[s], p) => sa[p] = s
    /\ \A p \in Proc, s \in Sem : ~(Contains(rq, p) /\ Contains(pq[s], p))
    /\ \A p \in free : ~Contains(rq, p) /\ \A s \in Sem : ~Contains(pq[s], p)
    /\ \A p \in Proc \ free :
          p = cur \/ Contains(rq, p) \/ \E s \in Sem : Contains(pq[s], p)
    /\ cur \in Proc \ free =>
          ~Contains(rq, cur) /\ \A s \in Sem : ~Contains(pq[s], cur)

(* No process is lost and none is in two places: every pcb in use is       *)
(* either the current process, or on the ready queue, or on the queue of   *)
(* exactly one semaphore, the one its p_semAdd names; every free pcb is on *)
(* none.  This is what every handler of exceptions.c and interrupts.c has  *)
(* to keep while it moves pcbs between the lists of pcb.c and asl.c.       *)
OnePlace ==
    mode # "corrupt" =>
       Placed(readyQ, currentProcess, procQ, p_semAdd, pcbFree)

(* processCount is the number of pcbs in use, so that the scheduler halts  *)
(* the machine exactly when the last process is gone (scheduler.c:52).     *)
CountIsLive ==
    /\ processCount = Cardinality(Live)
    /\ mode = "halt" => Live = {}

(* A semaphore tells how many wait on it: -k with k processes queued and   *)
(* none queued at 0 or above.  So no V is lost and no P passes while       *)
(* another process is kept waiting, in any order of SYS3, SYS4, SYS7,      *)
(* clock interrupts and killed waiters (exceptions.c:300).  The semaphore  *)
(* of a device is not given back by a killed waiter, so it may be lower,   *)
(* but a queued process always is one the next interrupt will find.        *)
Deficit(s) == IF semaphore[s] < 0 THEN -semaphore[s] ELSE 0

SemaphoreCountsWaiters ==
    mode # "corrupt" =>
       /\ \A s \in UserSem \cup {ITSEMINDEX} : Len(procQ[s]) = Deficit(s)
       /\ \A d \in DevSem : Len(procQ[d]) <= Deficit(d)

(* The scheduler's PANIC (scheduler.c:59) is a deadlock of the processes:  *)
(* softBlockCount never is below the number of those that wait for a       *)
(* device or the clock, whatever completes or is killed in between, so     *)
(* nobody that hardware would wake is given up.                            *)
PanicIsDeadlock ==
    mode = "panic" => \A p \in Live : \E s \in UserSem : Blocked(p, s)

(* Taken from its parent by removeChild and about to be freed.             *)
Orphaned(p) == Contains(killing, p) /\ p # killing[1]

(* Killing leaves no orphan: a process whose parent was killed is killed   *)
(* too, before its parent's pcb is free and can be allocated again         *)
(* (HoneyIKilledTheKids, outChild); and every child list holds just the    *)
(* children in use that are not being killed right now.                    *)
NoOrphan ==
    /\ \A p \in Live : p_prnt[p] # NULL => p_prnt[p] \in Live
    /\ \A p \in Live, c \in Proc :
          c \in p_child[p] <=> c \in Live /\ p_prnt[c] = p /\ ~Orphaned(c)
-----------------------------------------------------------------------------
(* Device I/O.  These hold when the request to a device and the SYS8 that  *)
(* waits for it come in one piece, which is what the callers' masking of   *)
(* interrupts is for (allowInterrupts in phase 3).                         *)

(* A device has an unfinished or unacknowledged request exactly when its   *)
(* semaphore is at -1, so the interrupt always finds the semaphore at 0 or *)
(* below afterwards and acknowledges (interrupts.c:113-163); also when the *)
(* process that waited was killed meanwhile.                               *)
RequestsBalance ==
    mode # "corrupt" =>
       \A d \in DevSem : semaphore[d] = IF dev[d] = "ready" THEN 0 ELSE -1

(* Nobody is woken from a device's queue by anything but the completion of *)
(* that very device (interrupts.c:94-141): "a process which has requested  *)
(* I/O from this device is unblocked" (interrupts.c:29).  It holds for     *)
(* terminals of which one half at a time is used; with both at work a     *)
(* receive is taken for a transmit and wakes the sender (interrupts.c:101).*)
OnlyCompletionWakes ==
    [][\A d \in DevSem : \A p \in Proc :
          Blocked(p, d) /\ OnReady(p)' => dev[d] = "done"]_vars

(* A clock interrupt makes ready all that wait for the clock, the queue of *)
(* SYS7 callers ahead of nobody already ready (interrupts.c:265-271).      *)
ClockReleasesAll ==
    [][itPending /\ ~itPending' =>
          /\ procQ'[ITSEMINDEX] = <<>>
          /\ \/ readyQ' = readyQ \o procQ[ITSEMINDEX]
             \/ <<currentProcess'>> \o readyQ' = readyQ \o procQ[ITSEMINDEX]
      ]_vars

-----------------------------------------------------------------------------
(* The processor state of a process survives everything that happens while *)
(* others run: it is saved when the process loses the processor, untouched *)
(* until it is dispatched again, and loaded then.                          *)
ContextKept ==
    [][\A p \in Live : p \notin pcbFree' =>
          /\ p # currentProcess => p_s'[p] = p_s[p]
          /\ p # currentProcess /\ p = currentProcess' => cpu' = p_s[p]
          /\ p = currentProcess /\ p # currentProcess' =>
                p_s'[p] \in {cpu, Succ(cpu)}]_vars

-----------------------------------------------------------------------------
(* What comments of the source say of it and the code does not do.         *)

(* exceptions.c:259-260: termination covers "the currentProcess, ones on   *)
(* the ready queue, or those blocked on a semaphore" - a freed pcb is on   *)
(* no other list.                                                          *)
FreedIsUnlinked == \A p \in pcbFree : ~OnReady(p)

(* scheduler.c:40-41: it waits only if some process will be unblocked by   *)
(* an interrupt, and panics otherwise.                                     *)
WaitIsForSomebody ==
    mode = "wait" /\ readyQ = <<>> =>
       \E p \in Live, s \in SoftSem : Blocked(p, s)

(* scheduler.c:41: "wait: there are no ready processes".                   *)
WaitHasNoneReady == mode = "wait" => readyQ = <<>>

(* interrupts.c:59-60: "The scheduler is invoked if there was no process   *)
(* running immediately before the interrupt occurred" - the idle path goes *)
(* on, or somebody is dispatched, but the nucleus does not use NULL.       *)
SchedulerInvoked ==
    [][currentProcess = NULL /\ mode \in Idle => mode' # "fault"]_vars

-----------------------------------------------------------------------------
(* Every ready process gets a turn: "guaranteeing that ready processes     *)
(* will all be given a turn to run, i.e. no starvation" (scheduler.c:14).  *)
NoStarvation ==
    \A p \in Proc : OnReady(p) ~> (currentProcess = p \/ p \in pcbFree)

(* A process that waits for the clock or a device waits no longer one day, *)
(* unless the machine was lost to a quantum that ended just before nobody  *)
(* was left to run (see SchedulerInvoked): no other fault, no panic and no *)
(* wake-up that goes to somebody else keeps it waiting.                    *)
LostWhileIdle == mode = "fault" /\ currentProcess = NULL /\ pltPending

WaitEnds ==
    \A p \in Proc : \A s \in SoftSem :
       Blocked(p, s) ~> (~Blocked(p, s) \/ LostWhileIdle)
=============================================================================
