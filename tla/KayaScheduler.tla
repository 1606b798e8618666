---------------------------- MODULE KayaScheduler ----------------------------
(***************************************************************************)
(* scheduler.c.  Scheduler(q, cur) is the call Scheduler() made at the end *)
(* of a handler, q being the ready queue and cur the value currentProcess  *)
(* has by then; the calling action has set p_s', processCount' and         *)
(* softBlockCount' before.                                                 *)
(***************************************************************************)
EXTENDS KayaState

(* The ready process at the head gets the processor and a new quantum;     *)
(* writing the local timer also withdraws its interrupt request.           *)
Dispatch(q) ==
    /\ q # <<>>
    /\ currentProcess' = Head(q)
    /\ readyQ' = Tail(q)
    /\ cpu' = p_s'[Head(q)]
    /\ pltPending' = FALSE
    /\ mode' = "run"

(* No ready process: HALT, PANIC, or unmask interrupts to wait.            *)
NoReady(q, cur) ==
    /\ q = <<>>
    /\ readyQ' = q
    /\ \/ processCount' = 0  /\ mode' = "halt"  /\ currentProcess' = NULL
       \/ processCount' # 0  /\ softBlockCount' = 0
          /\ mode' = "panic" /\ currentProcess' = NULL
       \/ processCount' # 0  /\ softBlockCount' # 0
          /\ mode' = "unmask" /\ currentProcess' = cur
    /\ UNCHANGED <<cpu, pltPending>>

Scheduler(q, cur) == Dispatch(q) \/ NoReady(q, cur)

idleFrame == <<pcbFree, treeVars, queueVars, countVars, procVars, semaphore,
               killing, devVars, readyQ, cpu>>

(* The idle path goes on with interrupts enabled: currentProcess = NULL    *)
SchedulerNull ==
    /\ mode = "unmask"
    /\ mode' = "nulled"
    /\ currentProcess' = NULL
    /\ UNCHANGED <<idleFrame, pltPending>>

(* ... then setTIMER(SUSPENDTIME) and WAIT().                              *)
SchedulerWait ==
    /\ mode = "nulled"
    /\ mode' = "wait"
    /\ pltPending' = FALSE
    /\ UNCHANGED <<idleFrame, currentProcess>>
=============================================================================
