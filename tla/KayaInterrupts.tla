--------------------------- MODULE KayaInterrupts ---------------------------
(***************************************************************************)
(* interrupts.c, and the hardware that raises the interrupts.  Interrupts  *)
(* are taken while a process runs and on the scheduler's idle path.  The   *)
(* model takes them at any such moment: a process may also have some of    *)
(* them masked.                                                            *)
(***************************************************************************)
EXTENDS KayaScheduler

Interruptible == mode = "run" \/ mode \in Idle

(* With no process interrupted the scheduler is called, otherwise          *)
(* LDST(interruptOld) resumes the interrupted code exactly where it was.   *)
ExitInterruptHandler(q) ==
    IF currentProcess = NULL
    THEN Scheduler(q, NULL)
    ELSE readyQ' = q /\ UNCHANGED <<currentProcess, cpu, mode, pltPending>>

-----------------------------------------------------------------------------
(* The preempted process goes to the end of the ready queue.  What the     *)
(* processor was executing, cpu, is not copied to its p_s.                 *)
PLTPreempt ==
    /\ Interruptible /\ pltPending
    /\ currentProcess \in Live
    /\ UNCHANGED <<pcbFree, treeVars, queueVars, countVars, procVars,
                   semaphore, killing, devVars>>
    /\ Scheduler(insertProcQ(readyQ, currentProcess), currentProcess)

(* The same handler on the idle path: IncrementProcessTime(NULL), or       *)
(* insertProcQ of a pcb that already is on the free list.                  *)
PLTIdle ==
    /\ Interruptible /\ pltPending
    /\ currentProcess \notin Live
    /\ IF currentProcess = NULL
       THEN mode' = "fault" /\ UNCHANGED readyQ
       ELSE mode' = "corrupt" /\ readyQ' = insertProcQ(readyQ, currentProcess)
    /\ UNCHANGED <<pcbFree, treeVars, queueVars, countVars, procVars,
                   semaphore, killing, devVars, currentProcess, cpu,
                   pltPending>>

PLTInterruptHandler == PLTPreempt \/ PLTIdle

-----------------------------------------------------------------------------
(* While sema4 is below 0: one V, one removeBlocked each time, the pcb    *)
(* goes to the ready queue; LDIT withdraws the request.                    *)
DueOne      == IF semaphore[ITSEMINDEX] < 0 THEN 1 ELSE 0  \* mutant: if, not while
DueBelowOne == IF semaphore[ITSEMINDEX] < -1                \* mutant: while < -1
               THEN -semaphore[ITSEMINDEX] ELSE 0

Due == IF semaphore[ITSEMINDEX] < 0 THEN -semaphore[ITSEMINDEX] ELSE 0

ITInterruptHandler ==
    /\ Interruptible /\ itPending /\ ~pltPending
    /\ UNCHANGED <<pcbFree, treeVars, p_semAdd, processCount, procVars,
                   killing, dev>>
    /\ IF Due <= Len(procQ[ITSEMINDEX])
       THEN /\ procQ' = Remaining(ITSEMINDEX, Due)
            /\ semaphore' = [semaphore EXCEPT ![ITSEMINDEX] = 0]
            /\ softBlockCount' = softBlockCount - Due
            /\ itPending' = FALSE
            /\ ExitInterruptHandler(Woken(ITSEMINDEX, Due))
       ELSE /\ mode' = "fault"           \* insertProcQ(&readyQ, NULL)
            /\ UNCHANGED <<procQ, semaphore, softBlockCount, itPending,
                           readyQ, currentProcess, cpu, pltPending>>

-----------------------------------------------------------------------------
IsTerminal(u) == u >= NUNIT - NTERM
Receiver(u)   == u + NTERM

Pending(u) == dev[u] = "done" \/ (IsTerminal(u) /\ dev[Receiver(u)] = "done")

(* DetermineLine, DetermineDevice: the lowest line, then the lowest device.*)
Interrupting(u) == Pending(u) /\ \A v \in Unit : Pending(v) => u <= v

(* A terminal's interrupt counts as a receive when its transmitter is idle.*)
NoLineOffset(u) == 0        \* mutant: the line left out of the index
SubDevice(u) == IF IsTerminal(u) /\ dev[u] = "ready" THEN Receiver(u) ELSE u

(* The ACK command ends a request; a device that is busy ignores it.       *)
NotAcked(d) == dev          \* mutant: no ACK
Acked(d) == IF dev[d] = "done" THEN [dev EXCEPT ![d] = "ready"] ELSE dev

(* V the device's semaphore.  A waiter gets the status and becomes ready;  *)
(* the ACK is inside the same test as the search for a waiter.             *)
ServeDevice(d) ==
    /\ semaphore[d] < MaxSem
    /\ semaphore' = [semaphore EXCEPT ![d] = @ + 1]
    /\ UNCHANGED <<pcbFree, treeVars, p_semAdd, processCount, procVars,
                   killing, itPending>>
    /\ IF semaphore[d] + 1 <= 0
       THEN /\ procQ' = Remaining(d, Waiting(d))
            /\ softBlockCount' = softBlockCount - Waiting(d)
            /\ dev' = Acked(d)
            /\ ExitInterruptHandler(Woken(d, Waiting(d)))
       ELSE /\ UNCHANGED <<procQ, softBlockCount, dev>>
            /\ ExitInterruptHandler(readyQ)

DeviceInterrupt(u) ==
    /\ Interruptible /\ ~itPending /\ ~pltPending
    /\ Interrupting(u)
    /\ ServeDevice(SubDevice(u))

-----------------------------------------------------------------------------
(* Hardware.  A device finishes, the interval timer runs out, and the      *)
(* quantum does (an expiry inside a handler is one just before it).        *)
hwFrame == <<pcbFree, treeVars, queueVars, countVars, procVars, semaphore,
             killing, readyQ, currentProcess, cpu, mode>>

DeviceCompletes(d) ==
    /\ mode \notin Stopped
    /\ dev[d] = "busy"
    /\ dev' = [dev EXCEPT ![d] = "done"]
    /\ UNCHANGED <<hwFrame, itPending, pltPending>>

IntervalExpires ==
    /\ mode \notin Stopped
    /\ ~itPending
    /\ itPending' = TRUE
    /\ UNCHANGED <<hwFrame, dev, pltPending>>

QuantumExpires ==
    /\ Running("TIMER")
    /\ ~pltPending
    /\ pltPending' = TRUE
    /\ UNCHANGED <<hwFrame, devVars>>
=============================================================================
