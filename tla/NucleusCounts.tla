---------------------------- MODULE NucleusCounts ----------------------------
(***************************************************************************)
(* The counters of the nucleus: processCount, softBlockCount and the       *)
(* semaphores tell the truth about the processes, for any number of them.  *)
(* Then who makes a waiting process ready, and with which processor state  *)
(* it goes on: the devices, the clock and the contexts.  The inductive     *)
(* invariant of NucleusProofs is assumed of every step.                    *)
(***************************************************************************)
EXTENDS NucleusProofs

(* The processes that hardware is to wake.                                 *)
SoftBlocked == {p \in Proc : \E s \in SoftSem : Contains(procQ[s], p)}

(* softBlockCount is not below their number.  It may be above, since SYS2  *)
(* does not count down for a process that waits for the clock.             *)
SoftCover == mode # "corrupt" => Cardinality(SoftBlocked) <= softBlockCount

(* What the scheduler has found when it panics.                            *)
PanicFacts ==
    mode = "panic" =>
       softBlockCount = 0 /\ readyQ = <<>> /\ currentProcess = NULL

CountInv ==
    /\ CountIsLive
    /\ SemaphoreCountsWaiters
    /\ SoftCover
    /\ PanicFacts

-----------------------------------------------------------------------------
(* A queue without duplicates has as many members as it is long.           *)
LEMMA QueueCardinality ==
    ASSUME NEW q \in Seq(Proc), Distinct(q)
    PROVE  /\ IsFiniteSet({p \in Proc : Contains(q, p)})
           /\ Cardinality({p \in Proc : Contains(q, p)}) = Len(q)
<1> DEFINE S == {p \in Proc : Contains(q, p)}
           f == [i \in 1 .. Len(q) |-> q[i]]
<1>1. Len(q) \in Nat /\ \A i \in 1 .. Len(q) : q[i] \in Proc
  BY LenProperties, ElementOfSeq
<1>2. f \in Surjection(1 .. Len(q), S)
  BY <1>1 DEF Surjection, Contains
<1>3. f \in Injection(1 .. Len(q), S)
  BY <1>1 DEF Injection, IsInjective, Distinct, Contains
<1>4. IsFiniteSet(1 .. Len(q)) /\ Cardinality(1 .. Len(q)) = Len(q)
  <2>1. /\ 1 \in Int /\ Len(q) \in Int
        /\ (IF 1 > Len(q) THEN 0 ELSE Len(q) - 1 + 1) = Len(q)
    BY <1>1
  <2> QED
    BY <2>1, FS_Interval
<1> HIDE DEF S, f
<1>5. IsFiniteSet(S) /\ Cardinality(S) = Len(q)
  BY <1>2, <1>3, <1>4, FS_Surjection
<1> QED
  BY <1>5 DEF S

(* Proc and all that is made of it is finite.                              *)
LEMMA FiniteFacts ==
    /\ IsFiniteSet(Proc)
    /\ \A S \in SUBSET Proc : IsFiniteSet(S) /\ Cardinality(S) \in Nat
<1>1. IsFiniteSet(Proc)
  BY NucleusAssumption
<1>2. \A S \in SUBSET Proc : IsFiniteSet(S)
  BY <1>1, FS_Subset
<1> QED
  BY <1>1, <1>2, FS_CardinalityType

(* n waiters of a semaphore of semaphoreArray become ready.                *)
LEMMA SoftWake ==
    ASSUME TypeOK, NEW s \in SoftSem, NEW n \in 0 .. Len(procQ[s]),
           Placed(readyQ, currentProcess, procQ, p_semAdd, pcbFree),
           procQ' = Remaining(s, n)
    PROVE  Cardinality(SoftBlocked') = Cardinality(SoftBlocked) - n
<1> DEFINE a == SubSeq(procQ[s], 1, n)
           b == SubSeq(procQ[s], n + 1, Len(procQ[s]))
           A == {p \in Proc : Contains(a, p)}
<1>1. s \in Sem /\ procQ \in [Sem -> Seq(Proc)] /\ procQ[s] \in Seq(Proc)
  BY ConstantFacts DEF TypeOK
<1>2. /\ a \in Seq(Proc) /\ Len(a) = n /\ b \in Seq(Proc)
      /\ \A x : Contains(procQ[s], x) <=> Contains(a, x) \/ Contains(b, x)
      /\ Distinct(a) /\ \A x : ~(Contains(a, x) /\ Contains(b, x))
  BY <1>1, QueueSplit DEF Placed
<1>3. procQ' = [procQ EXCEPT ![s] = b]
  BY DEF Remaining
<1> HIDE DEF a, b
<1>4. procQ'[s] = b /\ \A t \in Sem : t # s => procQ'[t] = procQ[t]
  BY <1>1, <1>3
<1>5. \A p \in Proc, t \in Sem : Contains(procQ[t], p) => p_semAdd[p] = t
  BY DEF Placed
<1>6. SoftBlocked = SoftBlocked' \cup A /\ SoftBlocked' \cap A = {}
  <2>1. \A p \in Proc : \A t \in SoftSem :
           Contains(procQ[t], p) <=>
              Contains(procQ'[t], p) \/ (t = s /\ Contains(a, p))
    BY <1>2, <1>4, ConstantFacts
  <2>2. \A p \in Proc : \A t \in SoftSem :
           ~(Contains(procQ'[t], p) /\ Contains(a, p))
    BY <1>2, <1>4, <1>5, ConstantFacts
  <2> QED
    BY <2>1, <2>2 DEF SoftBlocked
<1>7. Cardinality(A) = n
  BY <1>2, QueueCardinality
<1>8. A \in SUBSET Proc /\ SoftBlocked' \in SUBSET Proc
      /\ SoftBlocked \in SUBSET Proc
  BY DEF SoftBlocked
<1> HIDE DEF A
<1>9. Cardinality(SoftBlocked' \cup A) =
         Cardinality(SoftBlocked') + Cardinality(A)
            - Cardinality(SoftBlocked' \cap A)
  BY <1>8, FiniteFacts, FS_Union
<1>10. Cardinality(SoftBlocked' \cap A) = 0
  BY <1>6, FS_EmptySet
<1> QED
  BY <1>6, <1>7, <1>8, <1>9, <1>10, FiniteFacts

-----------------------------------------------------------------------------
(* What a step does to the queues and the counters.                        *)
(* A step that touches no semaphore, queue or softBlockCount.              *)
LEMMA WaitsUnchanged ==
    ASSUME SemaphoreCountsWaiters, SoftCover, mode # "corrupt",
           UNCHANGED <<procQ, semaphore, softBlockCount>>
    PROVE  SemaphoreCountsWaiters' /\ SoftCover'
<1>1. SemaphoreCountsWaiters'
  BY DEF SemaphoreCountsWaiters, Deficit
<1>2. SoftBlocked' = SoftBlocked
  BY DEF SoftBlocked
<1> QED
  BY <1>1, <1>2 DEF SoftCover

(* The current process is put on the queue of s by a P.                    *)
LEMMA BlockWaits ==
    ASSUME NucleusInv, SemaphoreCountsWaiters, SoftCover, mode = "run",
           NEW s \in Sem, semaphore[s] - 1 < 0,
           semaphore' = [semaphore EXCEPT ![s] = @ - 1],
           BlockHelperFunction(s),
           softBlockCount' = IF s \in SoftSem THEN softBlockCount + 1
                                              ELSE softBlockCount
    PROVE  SemaphoreCountsWaiters' /\ SoftCover'
<1>1. /\ TypeOK /\ currentProcess \in Live /\ currentProcess \in Proc
      /\ Placed(readyQ, currentProcess, procQ, p_semAdd, pcbFree)
  BY DEF NucleusInv, OnePlace, ModeOK, Live
<1>2. procQ' = [procQ EXCEPT ![s] = insertProcQ(@, currentProcess)]
  BY DEF BlockHelperFunction
<1>3. /\ semaphore \in [Sem -> Int] /\ softBlockCount \in Int
      /\ procQ \in [Sem -> Seq(Proc)] /\ procQ[s] \in Seq(Proc)
      /\ \A t \in Sem : Len(procQ[t]) \in Nat
  BY <1>1, QueueNonEmpty DEF TypeOK
<1>4. /\ Len(procQ'[s]) = Len(procQ[s]) + 1
      /\ \A t \in Sem : t # s => procQ'[t] = procQ[t]
      /\ \A x : Contains(procQ'[s], x) <=>
                   Contains(procQ[s], x) \/ x = currentProcess
  BY <1>1, <1>2, <1>3, QueueInsert
<1>5. /\ semaphore'[s] = semaphore[s] - 1
      /\ \A t \in Sem : t # s => semaphore'[t] = semaphore[t]
  BY <1>3
<1>6. /\ \A t \in UserSem \cup {ITSEMINDEX} : Len(procQ[t]) = Deficit(t)
      /\ \A d \in DevSem : Len(procQ[d]) <= Deficit(d)
  BY DEF SemaphoreCountsWaiters
<1>7. SemaphoreCountsWaiters'
  <2>1. \A t \in Sem : t # s => Deficit(t)' = Deficit(t)
    BY <1>5 DEF Deficit
  <2>2. Deficit(s)' = Deficit(s) + 1
    BY <1>3, <1>5 DEF Deficit
  <2>3. Deficit(s) \in Nat
    BY <1>3 DEF Deficit
  <2>4. \A t \in UserSem \cup {ITSEMINDEX} : Len(procQ'[t]) = Deficit(t)'
    BY <1>4, <1>6, <2>1, <2>2, ConstantFacts
  <2>5. \A d \in DevSem : Len(procQ'[d]) <= Deficit(d)'
    BY <1>3, <1>4, <1>6, <2>1, <2>2, <2>3, ConstantFacts
  <2> QED
    BY <2>4, <2>5 DEF SemaphoreCountsWaiters
<1>8. SoftCover'
  <2>1. SoftBlocked' = IF s \in SoftSem
                       THEN SoftBlocked \cup {currentProcess} ELSE SoftBlocked
    BY <1>1, <1>4, ConstantFacts DEF SoftBlocked
  <2>2. SoftBlocked \in SUBSET Proc
    BY DEF SoftBlocked
  <2>3. /\ Cardinality(SoftBlocked) \in Nat
        /\ Cardinality(SoftBlocked \cup {currentProcess}) <=
              Cardinality(SoftBlocked) + 1
    BY <2>2, FiniteFacts, FS_AddElement
  <2>4. Cardinality(SoftBlocked) <= softBlockCount
    BY DEF SoftCover
  <2>5. Cardinality(SoftBlocked \cup {currentProcess}) \in Nat
    BY <1>1, <2>2, FiniteFacts
  <2> QED
    BY <1>3, <2>1, <2>3, <2>4, <2>5 DEF SoftCover
<1> QED
  BY <1>7, <1>8

(* n waiters of s leave its queue while its value becomes v.               *)
LEMMA WakeWaits ==
    ASSUME NucleusInv, SemaphoreCountsWaiters, SoftCover, mode # "corrupt",
           NEW s \in Sem, NEW n \in 0 .. Len(procQ[s]), NEW v \in Int,
           procQ' = Remaining(s, n),
           semaphore' = [semaphore EXCEPT ![s] = v],
           softBlockCount' = IF s \in SoftSem THEN softBlockCount - n
                                              ELSE softBlockCount,
           s \in UserSem \cup {ITSEMINDEX} =>
              Len(procQ[s]) - n = IF v < 0 THEN -v ELSE 0,
           s \in DevSem => Len(procQ[s]) - n <= IF v < 0 THEN -v ELSE 0
    PROVE  SemaphoreCountsWaiters' /\ SoftCover'
<1>1. /\ TypeOK /\ semaphore \in [Sem -> Int] /\ softBlockCount \in Int
      /\ Placed(readyQ, currentProcess, procQ, p_semAdd, pcbFree)
  BY DEF NucleusInv, OnePlace, TypeOK
<1>2. /\ Len(procQ'[s]) = Len(procQ[s]) - n
      /\ \A t \in Sem : t # s => procQ'[t] = procQ[t]
  BY <1>1, WakeStep
<1>3. semaphore'[s] = v /\ \A t \in Sem : t # s => semaphore'[t] = semaphore[t]
  BY <1>1
<1>4. SemaphoreCountsWaiters'
  <2>1. \A t \in Sem : t # s => Deficit(t)' = Deficit(t)
    BY <1>3 DEF Deficit
  <2>2. Deficit(s)' = IF v < 0 THEN -v ELSE 0
    BY <1>3 DEF Deficit
  <2>3. /\ \A t \in UserSem \cup {ITSEMINDEX} : Len(procQ[t]) = Deficit(t)
        /\ \A d \in DevSem : Len(procQ[d]) <= Deficit(d)
    BY DEF SemaphoreCountsWaiters
  <2>4. \A t \in UserSem \cup {ITSEMINDEX} : Len(procQ'[t]) = Deficit(t)'
    BY <1>2, <2>1, <2>2, <2>3, ConstantFacts
  <2>5. \A d \in DevSem : Len(procQ'[d]) <= Deficit(d)'
    BY <1>2, <2>1, <2>2, <2>3, ConstantFacts
  <2> QED
    BY <2>4, <2>5 DEF SemaphoreCountsWaiters
<1>5. SoftCover'
  <2>1. Cardinality(SoftBlocked) <= softBlockCount
    BY DEF SoftCover
  <2>2. CASE s \in SoftSem
    <3>1. Cardinality(SoftBlocked') = Cardinality(SoftBlocked) - n
      BY <1>1, <2>2, SoftWake
    <3>2. Cardinality(SoftBlocked) \in Nat /\ n \in Int
      BY FiniteFacts DEF SoftBlocked
    <3> QED
      BY <1>1, <2>1, <2>2, <3>1, <3>2 DEF SoftCover
  <2>3. CASE s \notin SoftSem
    <3>1. SoftBlocked' = SoftBlocked
      BY <1>2, <2>3, ConstantFacts DEF SoftBlocked
    <3> QED
      BY <2>1, <2>3, <3>1 DEF SoftCover
  <2> QED
    BY <2>2, <2>3
<1> QED
  BY <1>4, <1>5

(* A blocked process is killed.                                            *)
LEMMA KillBlockedWaits ==
    ASSUME NucleusInv, SemaphoreCountsWaiters, SoftCover, KillBlocked
    PROVE  SemaphoreCountsWaiters' /\ SoftCover'
<1>1. /\ mode = "kill" /\ Victim # currentProcess /\ FreeVictim(readyQ)
  BY DEF KillBlocked
<1>2. PICK s \in Sem :
         /\ s = p_semAdd[Victim]
         /\ procQ' = [procQ EXCEPT ![s] = outProcQ(@, Victim)]
         /\ IF IsDeviceSem(s)
            THEN /\ softBlockCount' = softBlockCount - 1
                 /\ UNCHANGED semaphore
            ELSE /\ semaphore' = [semaphore EXCEPT ![s] = @ + 1]
                 /\ UNCHANGED softBlockCount
  BY DEF KillBlocked
<1>3. CASE Contains(readyQ, Victim)
  <2>1. mode' = "corrupt"
    BY <1>1, <1>3 DEF FreeVictim
  <2> QED
    BY <2>1 DEF SemaphoreCountsWaiters, SoftCover
<1>4. CASE ~Contains(readyQ, Victim)
  <2>1. /\ TypeOK /\ Victim \in Live /\ Victim \in Proc
        /\ Placed(readyQ, currentProcess, procQ, p_semAdd, pcbFree)
        /\ procQ \in [Sem -> Seq(Proc)] /\ procQ[s] \in Seq(Proc)
        /\ semaphore \in [Sem -> Int] /\ softBlockCount \in Int
    BY <1>1, KillFacts DEF NucleusInv, OnePlace, TypeOK
  <2>2. /\ Contains(procQ[s], Victim) /\ Distinct(procQ[s])
        /\ \A t \in Sem : t # s => ~Contains(procQ[t], Victim)
    BY <1>1, <1>2, <1>4, <2>1 DEF Placed, Live
  <2>3. /\ procQ'[s] = outProcQ(procQ[s], Victim)
        /\ \A t \in Sem : t # s => procQ'[t] = procQ[t]
        /\ Len(procQ'[s]) = Len(procQ[s]) - 1
        /\ Len(procQ[s]) \in Nat
        /\ \A x : Contains(procQ'[s], x) <=> Contains(procQ[s], x) /\ x # Victim
    BY <1>2, <2>1, <2>2, QueueOut, QueueNonEmpty
  <2>4. /\ \A t \in UserSem \cup {ITSEMINDEX} : Len(procQ[t]) = Deficit(t)
        /\ \A d \in DevSem : Len(procQ[d]) <= Deficit(d)
    BY <1>1 DEF SemaphoreCountsWaiters
  <2>5. /\ SoftBlocked' = SoftBlocked \ {Victim}
        /\ s \in SoftSem <=> Victim \in SoftBlocked
    <3>1. \A p \in Proc : \A t \in SoftSem :
             Contains(procQ'[t], p) <=> Contains(procQ[t], p) /\ p # Victim
      BY <2>2, <2>3, ConstantFacts
    <3>2. s \in SoftSem <=> Victim \in SoftBlocked
      BY <2>1, <2>2, ConstantFacts DEF SoftBlocked
    <3> QED
      BY <3>1, <3>2 DEF SoftBlocked
  <2>6. /\ Cardinality(SoftBlocked) \in Nat
        /\ Cardinality(SoftBlocked') = IF s \in SoftSem
                                       THEN Cardinality(SoftBlocked) - 1
                                       ELSE Cardinality(SoftBlocked)
    <3>1. SoftBlocked \in SUBSET Proc
      BY DEF SoftBlocked
    <3> QED
      BY <2>5, <3>1, FiniteFacts, FS_RemoveElement
  <2>7. Cardinality(SoftBlocked) <= softBlockCount
    BY <1>1 DEF SoftCover
  <2>8. CASE s \in DevSem
    <3>1. softBlockCount' = softBlockCount - 1 /\ UNCHANGED semaphore
      BY <1>2, <2>8 DEF IsDeviceSem
    <3>2. SoftCover'
      BY <2>1, <2>6, <2>7, <2>8, <3>1, ConstantFacts DEF SoftCover
    <3>3. \A t : Deficit(t)' = Deficit(t)
      BY <3>1 DEF Deficit
    <3>4. Deficit(s) \in Nat
      BY <2>1 DEF Deficit
    <3>5. \A t \in UserSem \cup {ITSEMINDEX} : t # s
      BY <2>8, ConstantFacts
    <3>6. SemaphoreCountsWaiters'
      BY <2>3, <2>4, <2>8, <3>3, <3>4, <3>5, ConstantFacts
         DEF SemaphoreCountsWaiters
    <3> QED
      BY <3>2, <3>6
  <2>9. CASE s \notin DevSem
    <3>1. /\ semaphore' = [semaphore EXCEPT ![s] = @ + 1]
          /\ softBlockCount' = softBlockCount
      BY <1>2, <2>9 DEF IsDeviceSem
    <3>2. SoftCover'
      BY <2>1, <2>6, <2>7, <3>1 DEF SoftCover
    <3>3. s \in UserSem \cup {ITSEMINDEX}
      <4>1. \A t \in SoftSem : t = ITSEMINDEX \/ t \in DevSem
        BY NucleusAssumption DEF SoftSem, DevSem, ITSEMINDEX, DEVICECOUNT
      <4> QED
        BY <2>9, <4>1 DEF Sem
    <3>4. /\ semaphore'[s] = semaphore[s] + 1
          /\ \A t \in Sem : t # s => semaphore'[t] = semaphore[t]
      BY <2>1, <3>1
    <3>5. \A t \in Sem : t # s => Deficit(t)' = Deficit(t)
      BY <3>4 DEF Deficit
    <3>6. Deficit(s)' = Deficit(s) - 1
      <4>1. Len(procQ[s]) = Deficit(s) /\ Len(procQ[s]) > 0
        BY <2>1, <2>2, <2>3, <2>4, <3>3, QueueNonEmpty
      <4> QED
        BY <2>1, <3>4, <4>1 DEF Deficit
    <3>7. SemaphoreCountsWaiters'
      BY <2>3, <2>4, <2>9, <3>3, <3>5, <3>6, ConstantFacts
         DEF SemaphoreCountsWaiters
    <3> QED
      BY <3>2, <3>7
  <2> QED
    BY <2>8, <2>9
<1> QED
  BY <1>3, <1>4

-----------------------------------------------------------------------------
(* Every step, one action at a time.                                       *)
(* System calls and the other exceptions keep the counts of waiters.       *)
LEMMA ExceptionWaits ==
    ASSUME NucleusInv, SemaphoreCountsWaiters, SoftCover, Exception
    PROVE  SemaphoreCountsWaiters' /\ SoftCover'
<1>1. mode = "run"
  BY DEF Exception, Syscall, CreateFails, CreateProcess, TerminateProcess,
     Verhogen, Passeren, ExceptionStateVec, WaitForClock, Command, WaitForIo,
     IoRequest, SyscallPassUp, ProgramTrapHandler, TLBManagementHandler, Running
<1>2. /\ TypeOK /\ semaphore \in [Sem -> Int] /\ softBlockCount \in Int
      /\ \A t \in Sem : procQ[t] \in Seq(Proc) /\ Len(procQ[t]) \in Nat
      /\ \A t \in UserSem \cup {ITSEMINDEX} : Len(procQ[t]) = Deficit(t)
      /\ \A d \in DevSem : Len(procQ[d]) <= Deficit(d)
  BY <1>1, QueueNonEmpty DEF NucleusInv, TypeOK, SemaphoreCountsWaiters
<1>3. CASE \/ CreateFails \/ TerminateProcess \/ SyscallPassUp
           \/ ProgramTrapHandler \/ TLBManagementHandler
           \/ \E p \in Proc, c \in Entry : CreateProcess(p, c)
           \/ \E t \in ExcType, c \in Entry : ExceptionStateVec(t, c)
           \/ \E d \in IoDevs : Command(d)
  <2>1. UNCHANGED <<procQ, semaphore, softBlockCount>>
    BY <1>3 DEF CreateFails, TerminateProcess, SyscallPassUp, PassUpOrDie,
       ProgramTrapHandler, TLBManagementHandler, CreateProcess,
       ExceptionStateVec, Command, queueVars, countVars
  <2> QED
    BY <1>1, <2>1, WaitsUnchanged
<1>4. ASSUME NEW s \in UserSem, Verhogen(s)
      PROVE  SemaphoreCountsWaiters' /\ SoftCover'
  <2> DEFINE n == IF semaphore[s] + 1 <= 0 THEN Waiting(s) ELSE 0
             v == semaphore[s] + 1
  <2>1. /\ s \in Sem /\ s \notin SoftSem /\ s \notin DevSem
        /\ semaphore' = [semaphore EXCEPT ![s] = @ + 1]
        /\ procQ' = Remaining(s, n) /\ softBlockCount' = softBlockCount
    BY <1>4, ConstantFacts DEF Verhogen, countVars
  <2>2. /\ v \in Int /\ semaphore' = [semaphore EXCEPT ![s] = v]
        /\ Len(procQ[s]) = IF semaphore[s] < 0 THEN -semaphore[s] ELSE 0
    BY <1>2, <2>1 DEF Deficit
  <2>3. procQ[s] = <<>> <=> Len(procQ[s]) = 0
    BY <1>2, <2>1, QueueNonEmpty
  <2>4. /\ n \in 0 .. Len(procQ[s])
        /\ Len(procQ[s]) - n = IF v < 0 THEN -v ELSE 0
    BY <1>2, <2>1, <2>2, <2>3 DEF Waiting
  <2> HIDE DEF n, v
  <2> QED
    BY <1>1, <2>1, <2>2, <2>4, WakeWaits
<1>5. ASSUME NEW s \in UserSem, Passeren(s)
      PROVE  SemaphoreCountsWaiters' /\ SoftCover'
  <2>1. s \in Sem /\ s \notin SoftSem /\ softBlockCount' = softBlockCount /\ P(s)
    BY <1>5, ConstantFacts DEF Passeren, countVars
  <2>2. CASE semaphore[s] - 1 < 0
    BY <1>1, <2>1, <2>2, BlockWaits DEF P
  <2>3. CASE ~(semaphore[s] - 1 < 0)
    <3>1. procQ' = procQ /\ semaphore' = [semaphore EXCEPT ![s] = @ - 1]
      BY <2>1, <2>3 DEF P
    <3>2. \A t \in Sem : Deficit(t)' = Deficit(t)
      BY <1>2, <2>1, <2>3, <3>1 DEF Deficit
    <3>3. SemaphoreCountsWaiters'
      BY <1>2, <3>1, <3>2, ConstantFacts DEF SemaphoreCountsWaiters
    <3>4. SoftBlocked' = SoftBlocked
      BY <3>1 DEF SoftBlocked
    <3> QED
      BY <1>1, <2>1, <3>3, <3>4 DEF SoftCover
  <2> QED
    BY <2>2, <2>3
<1>6. CASE WaitForClock
  <2>1. /\ ITSEMINDEX \in Sem /\ ITSEMINDEX \in SoftSem /\ P(ITSEMINDEX)
        /\ softBlockCount' = softBlockCount + 1
    BY <1>6, ConstantFacts DEF WaitForClock
  <2>2. CASE semaphore[ITSEMINDEX] - 1 < 0
    BY <1>1, <2>1, <2>2, BlockWaits DEF P
  <2>3. CASE ~(semaphore[ITSEMINDEX] - 1 < 0)
    <3>1. /\ procQ' = procQ
          /\ semaphore' = [semaphore EXCEPT ![ITSEMINDEX] = @ - 1]
      BY <2>1, <2>3 DEF P
    <3>2. \A t \in Sem : Deficit(t)' = Deficit(t)
      BY <1>2, <2>1, <2>3, <3>1 DEF Deficit
    <3>3. SemaphoreCountsWaiters'
      BY <1>2, <3>1, <3>2, ConstantFacts DEF SemaphoreCountsWaiters
    <3>4. SoftBlocked' = SoftBlocked /\ Cardinality(SoftBlocked) \in Nat
      BY <3>1, FiniteFacts DEF SoftBlocked
    <3> QED
      BY <1>1, <1>2, <2>1, <3>3, <3>4 DEF SoftCover
  <2> QED
    BY <2>2, <2>3
<1>7. ASSUME NEW d \in IoDevs, WaitForIo(d) \/ IoRequest(d)
      PROVE  SemaphoreCountsWaiters' /\ SoftCover'
  <2>1. /\ d \in DevSem /\ d \in SoftSem /\ d \in Sem
        /\ semaphore' = [semaphore EXCEPT ![d] = @ - 1]
        /\ IF semaphore[d] - 1 < 0
           THEN /\ softBlockCount' = softBlockCount + 1
                /\ BlockHelperFunction(d)
           ELSE UNCHANGED <<softBlockCount, procQ>>
    BY <1>7, ConstantFacts DEF WaitForIo, IoRequest, IoWait, queueVars
  <2>2. CASE semaphore[d] - 1 < 0
    BY <1>1, <2>1, <2>2, BlockWaits
  <2>3. CASE ~(semaphore[d] - 1 < 0)
    <3>1. \A t \in Sem : Deficit(t)' = Deficit(t)
      BY <1>2, <2>1, <2>3 DEF Deficit
    <3>2. SemaphoreCountsWaiters'
      BY <1>2, <2>1, <2>3, <3>1, ConstantFacts DEF SemaphoreCountsWaiters
    <3>3. SoftBlocked' = SoftBlocked
      BY <2>1, <2>3 DEF SoftBlocked
    <3> QED
      BY <1>1, <2>1, <2>3, <3>2, <3>3 DEF SoftCover
  <2> QED
    BY <2>2, <2>3
<1> QED
  BY <1>3, <1>4, <1>5, <1>6, <1>7 DEF Exception, Syscall

(* Interrupts keep the counts of waiters.                                  *)
LEMMA InterruptWaits ==
    ASSUME NucleusInv, SemaphoreCountsWaiters, SoftCover, Interrupt
    PROVE  SemaphoreCountsWaiters' /\ SoftCover'
<1>1. mode # "corrupt"
  BY DEF Interrupt, PLTPreempt, PLTIdle, ITInterruptHandler, DeviceInterrupt,
     Interruptible, Idle
<1>2. /\ TypeOK /\ semaphore \in [Sem -> Int] /\ softBlockCount \in Int
      /\ \A t \in Sem : procQ[t] \in Seq(Proc) /\ Len(procQ[t]) \in Nat
      /\ \A t \in UserSem \cup {ITSEMINDEX} : Len(procQ[t]) = Deficit(t)
      /\ \A d \in DevSem : Len(procQ[d]) <= Deficit(d)
  BY <1>1, QueueNonEmpty DEF NucleusInv, TypeOK, SemaphoreCountsWaiters
<1>3. CASE PLTPreempt \/ PLTIdle
  <2>1. UNCHANGED <<procQ, semaphore, softBlockCount>>
    BY <1>3 DEF PLTPreempt, PLTIdle, queueVars, countVars
  <2> QED
    BY <1>1, <2>1, WaitsUnchanged
<1>4. CASE ITInterruptHandler
  <2>1. /\ ITSEMINDEX \in Sem /\ ITSEMINDEX \in SoftSem /\ ITSEMINDEX \notin DevSem
        /\ Due = Len(procQ[ITSEMINDEX]) /\ Due \in 0 .. Len(procQ[ITSEMINDEX])
    BY <1>2, ConstantFacts DEF Due, Deficit
  <2>2. /\ procQ' = Remaining(ITSEMINDEX, Due)
        /\ semaphore' = [semaphore EXCEPT ![ITSEMINDEX] = 0]
        /\ softBlockCount' = softBlockCount - Due
    BY <1>2, <1>4, <2>1 DEF ITInterruptHandler
  <2> DEFINE v == 0
  <2>3. /\ v \in Int /\ semaphore' = [semaphore EXCEPT ![ITSEMINDEX] = v]
        /\ Len(procQ[ITSEMINDEX]) - Due = IF v < 0 THEN -v ELSE 0
    BY <1>2, <2>1, <2>2
  <2> HIDE DEF v
  <2> QED
    BY <1>1, <2>1, <2>2, <2>3, WakeWaits
<1>5. ASSUME NEW u \in Unit, DeviceInterrupt(u)
      PROVE  SemaphoreCountsWaiters' /\ SoftCover'
  <2> DEFINE d == SubDevice(u)
             v == semaphore[d] + 1
  <2>1. /\ d \in DevSem /\ d \in SoftSem /\ d \in Sem
        /\ d \notin UserSem \cup {ITSEMINDEX}
    <3>1. NUNIT \in Nat /\ NTERM \in 0 .. NUNIT /\ u \in 0 .. NUNIT - 1
      BY NucleusAssumption DEF Unit
    <3>2. d \in DevSem
      BY <3>1 DEF SubDevice, IsTerminal, Receiver, DevSem, DEVICECOUNT
    <3> QED
      BY <3>2, ConstantFacts
  <2>2. /\ semaphore' = [semaphore EXCEPT ![d] = @ + 1]
        /\ IF semaphore[d] + 1 <= 0
           THEN /\ procQ' = Remaining(d, Waiting(d))
                /\ softBlockCount' = softBlockCount - Waiting(d)
           ELSE UNCHANGED <<procQ, softBlockCount>>
    BY <1>5 DEF DeviceInterrupt, ServeDevice
  <2> HIDE DEF d
  <2>3. /\ v \in Int /\ semaphore' = [semaphore EXCEPT ![d] = v]
        /\ Len(procQ[d]) <= IF semaphore[d] < 0 THEN -semaphore[d] ELSE 0
    BY <1>2, <2>1, <2>2 DEF Deficit
  <2>4. procQ[d] = <<>> <=> Len(procQ[d]) = 0
    BY <1>2, <2>1, QueueNonEmpty
  <2>5. CASE semaphore[d] + 1 <= 0
    <3>1. /\ Waiting(d) \in 0 .. Len(procQ[d])
          /\ Len(procQ[d]) - Waiting(d) <= IF v < 0 THEN -v ELSE 0
      <4>1. semaphore[d] \in Int /\ Len(procQ[d]) \in Nat
        BY <1>2, <2>1
      <4>2. Len(procQ[d]) <= -semaphore[d]
        BY <2>3, <2>5, <4>1
      <4>3. /\ Len(procQ[d]) = 0 => Waiting(d) = 0
            /\ Len(procQ[d]) # 0 => Waiting(d) = 1
        BY <2>4 DEF Waiting
      <4>4. /\ v \in Int /\ Len(procQ[d]) - 1 <= -v /\ 0 <= -v
        BY <2>5, <4>1, <4>2
      <4> HIDE DEF v
      <4>5. CASE Len(procQ[d]) = 0
        BY <4>1, <4>3, <4>4, <4>5
      <4>6. CASE Len(procQ[d]) # 0
        BY <4>1, <4>3, <4>4, <4>6
      <4> QED
        BY <4>5, <4>6
    <3> HIDE DEF v
    <3> QED
      BY <1>1, <2>1, <2>2, <2>3, <2>5, <3>1, WakeWaits
  <2>6. CASE ~(semaphore[d] + 1 <= 0)
    <3>1. \A t \in Sem : Deficit(t)' = Deficit(t)
      BY <1>2, <2>1, <2>2, <2>6 DEF Deficit
    <3>2. SemaphoreCountsWaiters'
      BY <1>2, <2>2, <2>6, <3>1, ConstantFacts DEF SemaphoreCountsWaiters
    <3>3. SoftBlocked' = SoftBlocked
      BY <2>2, <2>6 DEF SoftBlocked
    <3> QED
      BY <1>1, <2>2, <2>6, <3>2, <3>3 DEF SoftCover
  <2> QED
    BY <2>5, <2>6
<1> QED
  BY <1>3, <1>4, <1>5 DEF Interrupt

(* Every step keeps the counts of waiters.                                 *)
LEMMA WaitsStep ==
    ASSUME NucleusInv, SemaphoreCountsWaiters, SoftCover, [Next]_vars
    PROVE  SemaphoreCountsWaiters' /\ SoftCover'
<1>1. CASE Exception
  BY <1>1, ExceptionWaits
<1>2. CASE Interrupt
  BY <1>2, InterruptWaits
<1>3. CASE KillBlocked
  BY <1>3, KillBlockedWaits
<1>4. CASE \/ Instruction \/ SchedulerNull \/ SchedulerWait \/ Hardware
           \/ KillCurrent \/ KillReady \/ \E c \in Proc : KillChild(c)
  <2>1. UNCHANGED <<procQ, semaphore, softBlockCount>> /\ mode # "corrupt"
    BY <1>4 DEF Instruction, SchedulerNull, SchedulerWait, Hardware,
       DeviceCompletes, IntervalExpires, QuantumExpires, KillCurrent, KillReady,
       KillChild, queueVars, countVars, idleFrame, hwFrame, Running, Stopped
  <2> QED
    BY <2>1, WaitsUnchanged
<1>5. CASE UNCHANGED vars
  <2>1. UNCHANGED <<procQ, semaphore, softBlockCount, mode>>
    BY <1>5 DEF vars
  <2> QED
    BY <2>1, WaitsUnchanged DEF SemaphoreCountsWaiters, SoftCover
<1> QED
  BY <1>1, <1>2, <1>3, <1>4, <1>5 DEF Next, Kill, Halted

-----------------------------------------------------------------------------
(* The scheduler halts with no process left and panics with none soft      *)
(* blocked; nothing else ends in these modes.                              *)
LEMMA SchedulerStops ==
    ASSUME NEW q, NEW cur, Scheduler(q, cur)
    PROVE  /\ mode' = "halt" => processCount' = 0
           /\ mode' = "panic" => /\ softBlockCount' = 0 /\ readyQ' = <<>>
                                 /\ currentProcess' = NULL
BY DEF Scheduler, Dispatch, NoReady

(* A step that ends in HALT or PANIC found the counters that say so.       *)
LEMMA StopStep ==
    ASSUME NucleusInv, [Next]_vars, PanicFacts
    PROVE  /\ mode' = "halt" => processCount' = 0 \/ (mode = "halt" /\ UNCHANGED vars)
           /\ PanicFacts'
<1> DEFINE G == /\ mode' = "halt" => processCount' = 0
                /\ mode' = "panic" => /\ softBlockCount' = 0 /\ readyQ' = <<>>
                                      /\ currentProcess' = NULL
<1>1. ASSUME mode' \in {"run", "kill", "nulled", "wait", "fault", "corrupt"}
      PROVE  G
  BY <1>1
<1>2. ASSUME Exception PROVE G
  <2>1. mode = "run"
    BY <1>2 DEF Exception, Syscall, CreateFails, CreateProcess,
       TerminateProcess, Verhogen, Passeren, ExceptionStateVec, WaitForClock,
       Command, WaitForIo, IoRequest, SyscallPassUp, ProgramTrapHandler,
       TLBManagementHandler, Running
  <2>2. CASE \/ CreateFails \/ TerminateProcess \/ SyscallPassUp
             \/ ProgramTrapHandler \/ TLBManagementHandler
             \/ \E p \in Proc, c \in Entry : CreateProcess(p, c)
             \/ \E t \in ExcType, c \in Entry : ExceptionStateVec(t, c)
             \/ \E d \in IoDevs : Command(d)
             \/ \E s \in UserSem : Verhogen(s)
    BY <1>1, <2>1, <2>2 DEF CreateFails, TerminateProcess, SyscallPassUp,
       PassUpOrDie, ProgramTrapHandler, TLBManagementHandler, CreateProcess,
       ExceptionStateVec, Command, Verhogen, LoadCaller, StartKill
  <2>3. ASSUME NEW s, P(s) PROVE G
    BY <1>1, <2>1, <2>3, SchedulerStops DEF P, BlockHelperFunction, LoadCaller
  <2>4. ASSUME NEW d, WaitForIo(d) \/ IoRequest(d) PROVE G
    BY <1>1, <2>4, SchedulerStops DEF WaitForIo, IoRequest, IoWait,
       BlockHelperFunction, StartKill
  <2>5. CASE WaitForClock \/ \E s \in UserSem : Passeren(s)
    BY <2>3, <2>5 DEF WaitForClock, Passeren
  <2> HIDE DEF G
  <2> QED
    BY <1>2, <2>2, <2>4, <2>5 DEF Exception, Syscall
<1>3. ASSUME Kill PROVE G
  <2>1. ASSUME NEW q, FreeVictim(q), mode = "kill" PROVE G
    BY <1>1, <2>1, SchedulerStops DEF FreeVictim
  <2>2. CASE \E c \in Proc : KillChild(c)
    BY <1>1, <2>2 DEF KillChild, schedVars
  <2>3. CASE KillCurrent \/ KillReady \/ KillBlocked
    BY <2>1, <2>3 DEF KillCurrent, KillReady, KillBlocked
  <2> HIDE DEF G
  <2> QED
    BY <1>3, <2>2, <2>3 DEF Kill
<1>4. ASSUME Interrupt PROVE G
  <2>1. mode = "run" \/ mode \in {"unmask", "nulled", "wait"}
    BY <1>4 DEF Interrupt, PLTPreempt, PLTIdle, ITInterruptHandler,
       DeviceInterrupt, Interruptible, Idle
  <2>2. ASSUME NEW q, ExitInterruptHandler(q) PROVE G
    BY <2>1, <2>2, SchedulerStops DEF ExitInterruptHandler
  <2>3. CASE PLTPreempt \/ PLTIdle
    BY <2>3, SchedulerStops DEF PLTPreempt, PLTIdle
  <2>4. CASE ITInterruptHandler
    BY <1>1, <2>2, <2>4 DEF ITInterruptHandler
  <2>5. CASE \E u \in Unit : DeviceInterrupt(u)
    BY <2>2, <2>5 DEF DeviceInterrupt, ServeDevice
  <2> HIDE DEF G
  <2> QED
    BY <1>4, <2>3, <2>4, <2>5 DEF Interrupt
<1>5. ASSUME SchedulerNull \/ SchedulerWait \/ Instruction PROVE G
  BY <1>1, <1>5 DEF SchedulerNull, SchedulerWait, Instruction, Running
<1>6. ASSUME Hardware PROVE G
  BY <1>6 DEF Hardware, DeviceCompletes, IntervalExpires, QuantumExpires,
     hwFrame, Stopped, Running
<1>7. CASE UNCHANGED vars
  BY <1>7 DEF vars, PanicFacts
<1>8. G => /\ mode' = "halt" => processCount' = 0
           /\ PanicFacts'
  BY DEF PanicFacts
<1> HIDE DEF G
<1> QED
  BY <1>2, <1>3, <1>4, <1>5, <1>6, <1>7, <1>8 DEF Next, Halted

(* processCount follows the pcbs in use.                                   *)
LEMMA LiveStep ==
    ASSUME NucleusInv, [Next]_vars, processCount = Cardinality(Live)
    PROVE  processCount' = Cardinality(Live')
<1>1. CASE pcbFree' = pcbFree /\ processCount' = processCount
  BY <1>1 DEF Live
<1>2. pcbFree \subseteq Proc /\ IsFiniteSet(Live) /\ Cardinality(Live) \in Nat
  BY FiniteFacts DEF NucleusInv, TypeOK, Live
<1>3. ASSUME NEW p \in Proc, NEW c \in Entry, CreateProcess(p, c)
      PROVE  processCount' = Cardinality(Live')
  <2>1. Live' = Live \cup {p} /\ p \notin Live /\ processCount' = processCount + 1
    BY <1>3 DEF CreateProcess, Live
  <2> QED
    BY <1>2, <2>1, FS_AddElement
<1>4. ASSUME NEW q, FreeVictim(q), mode = "kill"
      PROVE  processCount' = Cardinality(Live')
  <2>1. /\ Live' = Live \ {Victim} /\ Victim \in Live
        /\ processCount' = processCount - 1
    BY <1>4, KillFacts DEF FreeVictim, Live
  <2> QED
    BY <1>2, <2>1, FS_RemoveElement
<1>5. CASE KillCurrent \/ KillReady \/ KillBlocked
  BY <1>4, <1>5 DEF KillCurrent, KillReady, KillBlocked
<1>6. CASE Exception /\ ~(\E p \in Proc, c \in Entry : CreateProcess(p, c))
  BY <1>1, <1>6 DEF Exception, Syscall, CreateFails, TerminateProcess, Verhogen,
     Passeren, ExceptionStateVec, WaitForClock, Command, WaitForIo, IoRequest,
     IoWait, SyscallPassUp, ProgramTrapHandler, TLBManagementHandler,
     PassUpOrDie, countVars
<1>7. CASE Interrupt
  BY <1>1, <1>7 DEF Interrupt, PLTPreempt, PLTIdle, ITInterruptHandler,
     DeviceInterrupt, ServeDevice, countVars
<1>8. CASE \/ SchedulerNull \/ SchedulerWait \/ Instruction \/ Hardware
           \/ \E c \in Proc : KillChild(c)
  BY <1>1, <1>8 DEF SchedulerNull, SchedulerWait, Instruction, KillChild,
     Hardware, DeviceCompletes, IntervalExpires, QuantumExpires, hwFrame,
     idleFrame, countVars
<1>9. CASE UNCHANGED vars
  BY <1>1, <1>9 DEF vars
<1> QED
  BY <1>3, <1>5, <1>6, <1>7, <1>8, <1>9 DEF Next, Kill, Halted, Exception,
     Syscall

-----------------------------------------------------------------------------
(* In the initial states nobody waits and one process is counted.          *)
LEMMA InitCounts == Init => CountInv
<1> SUFFICES ASSUME Init PROVE CountInv
  OBVIOUS
<1>1. PICK p \in Proc :
         /\ pcbFree = Proc \ {p} /\ processCount = 1 /\ softBlockCount = 0
         /\ procQ = [s \in Sem |-> <<>>] /\ mode = "run"
         /\ semaphore \in [Sem -> 0 .. MaxSem]
  BY DEF Init
<1>2. CountIsLive
  <2>1. Live = {p}
    BY <1>1 DEF Live
  <2> QED
    BY <1>1, <2>1, FS_Singleton DEF CountIsLive
<1>3. SemaphoreCountsWaiters
  <2>1. \A s \in Sem : Len(procQ[s]) = 0
    BY <1>1
  <2>2. \A s \in Sem : Deficit(s) = 0
    BY <1>1, NucleusAssumption DEF Deficit
  <2> QED
    BY <2>1, <2>2, ConstantFacts DEF SemaphoreCountsWaiters
<1>4. SoftCover
  <2>1. SoftBlocked = {}
    BY <1>1, QueueEmpty, ConstantFacts DEF SoftBlocked
  <2> QED
    BY <1>1, <2>1, FS_EmptySet DEF SoftCover
<1>5. PanicFacts
  BY <1>1 DEF PanicFacts
<1> QED
  BY <1>2, <1>3, <1>4, <1>5 DEF CountInv

(* CountInv is inductive, given NucleusInv before and after the step.      *)
LEMMA NextCounts == NucleusInv /\ NucleusInv' /\ CountInv /\ [Next]_vars => CountInv'
<1> SUFFICES ASSUME NucleusInv, NucleusInv', CountInv, [Next]_vars
             PROVE  CountInv'
  OBVIOUS
<1>1. SemaphoreCountsWaiters' /\ SoftCover'
  BY WaitsStep DEF CountInv
<1>2. /\ processCount' = Cardinality(Live')
      /\ mode' = "halt" => processCount' = 0 \/ (mode = "halt" /\ UNCHANGED vars)
      /\ PanicFacts'
  BY LiveStep, StopStep DEF CountInv, CountIsLive
<1>3. CountIsLive'
  <2>1. ASSUME processCount' = 0 PROVE Live' = {}
    <3>1. Live' \in SUBSET Proc
      BY DEF Live
    <3> QED
      BY <1>2, <2>1, <3>1, FiniteFacts, FS_EmptySet
  <2>2. mode = "halt" /\ UNCHANGED vars => Live' = {}
    BY DEF CountInv, CountIsLive, vars, Live
  <2> QED
    BY <1>2, <2>1, <2>2 DEF CountIsLive
<1> QED
  BY <1>1, <1>2, <1>3 DEF CountInv

(* The counters always agree with the queues: processCount with the pcbs   *)
(* in use, each semaphore with its waiters, softBlockCount with those that *)
(* hardware will wake.                                                     *)
THEOREM CountInvariance == Spec => []CountInv
BY InitCounts, NextCounts, Invariance, PTL DEF Spec

(* processCount is the number of processes, and HALT comes with the last   *)
(* of them.                                                                *)
THEOREM CountsEveryProcess == Spec => []CountIsLive
<1>1. CountInv => CountIsLive
  BY DEF CountInv
<1> QED
  BY <1>1, CountInvariance, PTL

(* A negative semaphore is the number of its waiters: no V is lost, and no *)
(* P passes one that waits.                                                *)
THEOREM SemaphoresCountTheirWaiters == Spec => []SemaphoreCountsWaiters
<1>1. CountInv => SemaphoreCountsWaiters
  BY DEF CountInv
<1> QED
  BY <1>1, CountInvariance, PTL

(* PANIC is only for processes that all wait for each other.               *)
THEOREM PanicsOnlyInDeadlock == Spec => []PanicIsDeadlock
<1>1. ASSUME NucleusInv, CountInv, mode = "panic", NEW p \in Live
      PROVE  \E s \in UserSem : Blocked(p, s)
  <2>1. /\ softBlockCount = 0 /\ readyQ = <<>> /\ currentProcess = NULL
        /\ Cardinality(SoftBlocked) <= softBlockCount
    BY <1>1 DEF CountInv, PanicFacts, SoftCover
  <2>2. SoftBlocked = {}
    <3>1. SoftBlocked \in SUBSET Proc
      BY DEF SoftBlocked
    <3>2. IsFiniteSet(SoftBlocked) /\ Cardinality(SoftBlocked) = 0
      BY <2>1, <3>1, FiniteFacts
    <3> QED
      BY <3>2, FS_EmptySet
  <2>3. p \in Proc \ pcbFree /\ p # NULL /\ ~Contains(readyQ, p)
    BY <2>1, QueueEmpty, ConstantFacts DEF Live
  <2>4. PICK s \in Sem : Contains(procQ[s], p)
    BY <1>1, <2>1, <2>3 DEF NucleusInv, OnePlace, Placed
  <2>5. s \notin SoftSem
    BY <2>2, <2>3, <2>4 DEF SoftBlocked
  <2> QED
    BY <2>4, <2>5 DEF Sem, Blocked
<1>2. NucleusInv /\ CountInv => PanicIsDeadlock
  BY <1>1 DEF PanicIsDeadlock
<1> QED
  BY <1>2, Invariance, CountInvariance, PTL

-----------------------------------------------------------------------------
(* A command and the SYS8 that waits for it come in one piece.             *)
OneRequest == {"COMMAND", "WAITFORIO"} \cap Calls = {}

(* Of each terminal the processes use the transmitter or the receiver.     *)
OneHalf == \A u \in Unit : IsTerminal(u) =>
               ~(u \in IoDevs /\ Receiver(u) \in IoDevs)

(* A device nobody uses stays ready.                                       *)
OnlyUsed == \A d \in DevSem : dev[d] # "ready" => d \in IoDevs

RequestInv == RequestsBalance /\ OnlyUsed

-----------------------------------------------------------------------------
(* No step but a command and a SYS8 in one piece makes a device busy.      *)
LEMMA UsedStep ==
    ASSUME TypeOK, OnlyUsed, [Next]_vars
    PROVE  OnlyUsed'
<1> USE DEF OnlyUsed
<1>1. dev \in [DevSem -> DevStatus] /\ IoDevs \subseteq DevSem
  BY ConstantFacts DEF TypeOK
<1>2. CASE UNCHANGED dev
  BY <1>2
<1>3. ASSUME NEW d \in IoDevs, Command(d) \/ IoRequest(d) \/ WaitForIo(d)
      PROVE  OnlyUsed'
  <2>1. UNCHANGED dev \/ dev' = [dev EXCEPT ![d] = "busy"]
    BY <1>3 DEF Command, IoRequest, WaitForIo, IoWait
  <2> QED
    BY <1>1, <1>2, <2>1
<1>4. ASSUME NEW d \in DevSem, DeviceCompletes(d)
      PROVE  OnlyUsed'
  <2>1. dev[d] = "busy" /\ dev' = [dev EXCEPT ![d] = "done"]
    BY <1>4 DEF DeviceCompletes
  <2> QED
    BY <1>1, <2>1
<1>5. ASSUME NEW u \in Unit, DeviceInterrupt(u)
      PROVE  OnlyUsed'
  <2>1. \/ UNCHANGED dev
        \/ \E d \in DevSem : dev' = [dev EXCEPT ![d] = "ready"]
        \/ \E d : d \notin DevSem /\ dev' = [dev EXCEPT ![d] = "ready"]
    BY <1>5 DEF DeviceInterrupt, ServeDevice, Acked
  <2> QED
    BY <1>1, <1>2, <2>1
<1>6. CASE Exception
  <2>1. CASE \E d \in IoDevs : Command(d) \/ WaitForIo(d) \/ IoRequest(d)
    BY <1>3, <2>1
  <2>2. CASE ~\E d \in IoDevs : Command(d) \/ WaitForIo(d) \/ IoRequest(d)
    BY <1>2, <1>6, <2>2 DEF Exception, Syscall, CreateFails, CreateProcess,
       TerminateProcess, Verhogen, Passeren, ExceptionStateVec, WaitForClock,
       SyscallPassUp, ProgramTrapHandler, TLBManagementHandler, PassUpOrDie,
       devVars
  <2> QED
    BY <2>1, <2>2
<1>7. CASE \/ Instruction \/ Kill \/ SchedulerNull \/ SchedulerWait
           \/ PLTPreempt \/ PLTIdle \/ ITInterruptHandler
           \/ IntervalExpires \/ QuantumExpires \/ UNCHANGED vars
  BY <1>2, <1>7 DEF Instruction, Kill, KillChild, KillCurrent, KillReady,
     KillBlocked, SchedulerNull, SchedulerWait, idleFrame, PLTPreempt, PLTIdle,
     ITInterruptHandler, IntervalExpires, QuantumExpires, devVars, vars
<1> QED
  BY <1>4, <1>5, <1>6, <1>7 DEF Next, Interrupt, Hardware, Halted

(* The interrupt of a unit serves a device that is done.                   *)
LEMMA ServedIsDone ==
    ASSUME OneHalf, OnlyUsed, NEW u \in Unit, Pending(u)
    PROVE  SubDevice(u) \in DevSem /\ dev[SubDevice(u)] = "done"
<1>1. NUNIT \in Nat /\ NTERM \in 0 .. NUNIT /\ u \in 0 .. NUNIT - 1
  BY NucleusAssumption DEF Unit
<1>2. u \in DevSem /\ (IsTerminal(u) => Receiver(u) \in DevSem)
  BY <1>1 DEF IsTerminal, Receiver, DevSem, DEVICECOUNT
<1>3. CASE dev[u] = "done"
  BY <1>2, <1>3 DEF SubDevice
<1>4. CASE dev[u] # "done"
  <2>1. IsTerminal(u) /\ dev[Receiver(u)] = "done"
    BY <1>4 DEF Pending
  <2>2. Receiver(u) \in IoDevs
    BY <1>2, <2>1 DEF OnlyUsed
  <2>3. dev[u] = "ready"
    BY <1>2, <2>1, <2>2 DEF OnlyUsed, OneHalf
  <2> QED
    BY <1>2, <2>1, <2>3 DEF SubDevice
<1> QED
  BY <1>3, <1>4

-----------------------------------------------------------------------------
(* The semaphores of the devices.                                          *)
LEMMA RequestStep ==
    ASSUME OneRequest, OneHalf, NucleusInv, RequestInv, [Next]_vars
    PROVE  RequestInv'
<1>1. /\ TypeOK /\ dev \in [DevSem -> DevStatus] /\ semaphore \in [Sem -> Int]
      /\ DevSem \subseteq Sem /\ IoDevs \subseteq DevSem
      /\ \A d \in DevSem : d \notin UserSem \cup {ITSEMINDEX}
  BY ConstantFacts DEF NucleusInv, TypeOK
<1>2. OnlyUsed'
  BY <1>1, UsedStep DEF RequestInv
<1>3. mode # "corrupt" =>
          \A d \in DevSem : semaphore[d] = IF dev[d] = "ready" THEN 0 ELSE -1
  BY DEF RequestInv, RequestsBalance
<1> SUFFICES ASSUME mode' # "corrupt"
             PROVE  \A d \in DevSem :
                        semaphore'[d] = IF dev'[d] = "ready" THEN 0 ELSE -1
  BY <1>2 DEF RequestInv, RequestsBalance
<1>4. ASSUME mode # "corrupt", UNCHANGED dev,
             \A d \in DevSem : semaphore'[d] = semaphore[d]
      PROVE  \A d \in DevSem :
                 semaphore'[d] = IF dev'[d] = "ready" THEN 0 ELSE -1
  BY <1>3, <1>4
<1>5. ASSUME NEW s \in Sem, NEW v, s \notin DevSem,
             semaphore' = [semaphore EXCEPT ![s] = v]
      PROVE  \A d \in DevSem : semaphore'[d] = semaphore[d]
  BY <1>1, <1>5
<1>6. CASE UNCHANGED vars
  BY <1>3, <1>6 DEF vars
<1>7. CASE Exception
  <2>1. mode = "run" /\ ~(\E d \in IoDevs : Command(d) \/ WaitForIo(d))
    BY <1>7 DEF Exception, Syscall, CreateFails, CreateProcess,
       TerminateProcess, Verhogen, Passeren, ExceptionStateVec, WaitForClock,
       Command, WaitForIo, IoRequest, SyscallPassUp, ProgramTrapHandler,
       TLBManagementHandler, Running, OneRequest
  <2>2. ASSUME NEW d \in IoDevs, IoRequest(d)
        PROVE  \A e \in DevSem :
                   semaphore'[e] = IF dev'[e] = "ready" THEN 0 ELSE -1
    <3>1. /\ dev[d] = "ready" /\ dev' = [dev EXCEPT ![d] = "busy"]
          /\ semaphore' = [semaphore EXCEPT ![d] = @ - 1]
      BY <2>2 DEF IoRequest, IoWait
    <3>2. semaphore[d] = 0
      BY <1>1, <1>3, <2>1, <3>1
    <3>3. semaphore'[d] = -1 /\ dev'[d] = "busy"
      BY <1>1, <3>1, <3>2
    <3>4. \A e \in DevSem : e # d =>
              semaphore'[e] = semaphore[e] /\ dev'[e] = dev[e]
      BY <1>1, <3>1
    <3> QED
      BY <1>3, <2>1, <3>3, <3>4
  <2>3. ASSUME NEW s \in UserSem, Verhogen(s) \/ Passeren(s)
        PROVE  \A d \in DevSem :
                   semaphore'[d] = IF dev'[d] = "ready" THEN 0 ELSE -1
    <3>1. \E v : semaphore' = [semaphore EXCEPT ![s] = v]
      BY <2>3 DEF Verhogen, Passeren, P
    <3>2. s \in Sem /\ s \notin DevSem /\ UNCHANGED dev
      BY <1>1, <2>3 DEF Sem, Verhogen, Passeren, devVars
    <3> QED
      BY <1>4, <1>5, <2>1, <3>1, <3>2
  <2>4. CASE WaitForClock
    <3>1. \E v : semaphore' = [semaphore EXCEPT ![ITSEMINDEX] = v]
      BY <2>4 DEF WaitForClock, P
    <3>2. ITSEMINDEX \in Sem /\ ITSEMINDEX \notin DevSem /\ UNCHANGED dev
      BY <2>4, ConstantFacts DEF WaitForClock, devVars
    <3> QED
      BY <1>4, <1>5, <2>1, <3>1, <3>2
  <2>5. CASE \/ CreateFails \/ TerminateProcess \/ SyscallPassUp
             \/ ProgramTrapHandler \/ TLBManagementHandler
             \/ \E p \in Proc, c \in Entry : CreateProcess(p, c)
             \/ \E t \in ExcType, c \in Entry : ExceptionStateVec(t, c)
    <3>1. UNCHANGED <<semaphore, dev>>
      BY <2>5 DEF CreateFails, TerminateProcess, SyscallPassUp, PassUpOrDie,
         ProgramTrapHandler, TLBManagementHandler, CreateProcess,
         ExceptionStateVec, devVars
    <3> QED
      BY <1>4, <2>1, <3>1
  <2> QED
    BY <1>7, <2>1, <2>2, <2>3, <2>4, <2>5 DEF Exception, Syscall
<1>8. CASE KillBlocked
  <2>1. mode = "kill" /\ UNCHANGED dev
    BY <1>8 DEF KillBlocked, devVars
  <2>2. UNCHANGED semaphore
        \/ \E s \in Sem : \E v : /\ s \notin DevSem
                                  /\ semaphore' = [semaphore EXCEPT ![s] = v]
    BY <1>8 DEF KillBlocked, IsDeviceSem
  <2>3. \A d \in DevSem : semaphore'[d] = semaphore[d]
    BY <1>5, <2>2
  <2> QED
    BY <1>4, <2>1, <2>3
<1>9. CASE ITInterruptHandler
  <2>1. mode # "corrupt" /\ UNCHANGED dev
    BY <1>9 DEF ITInterruptHandler, Interruptible, Idle
  <2>2. UNCHANGED semaphore
        \/ semaphore' = [semaphore EXCEPT ![ITSEMINDEX] = 0]
    BY <1>9 DEF ITInterruptHandler
  <2>3. ITSEMINDEX \in Sem /\ ITSEMINDEX \notin DevSem
    BY ConstantFacts
  <2>4. \A d \in DevSem : semaphore'[d] = semaphore[d]
    BY <1>5, <2>2, <2>3
  <2> QED
    BY <1>4, <2>1, <2>4
<1>10. ASSUME NEW u \in Unit, DeviceInterrupt(u)
       PROVE  \A d \in DevSem :
                  semaphore'[d] = IF dev'[d] = "ready" THEN 0 ELSE -1
  <2> DEFINE e == SubDevice(u)
  <2>1. mode # "corrupt" /\ Pending(u)
    BY <1>10 DEF DeviceInterrupt, Interruptible, Idle, Interrupting
  <2>2. e \in DevSem /\ dev[e] = "done"
    BY <2>1, ServedIsDone DEF RequestInv
  <2>3. semaphore[e] = -1
    BY <1>3, <2>1, <2>2
  <2>4. semaphore' = [semaphore EXCEPT ![e] = @ + 1]
        /\ (semaphore[e] + 1 <= 0 => dev' = Acked(e))
    BY <1>10 DEF DeviceInterrupt, ServeDevice
  <2> HIDE DEF e
  <2>5. dev' = [dev EXCEPT ![e] = "ready"]
    BY <2>2, <2>3, <2>4 DEF Acked
  <2>6. semaphore'[e] = 0 /\ dev'[e] = "ready"
    BY <1>1, <2>2, <2>3, <2>4, <2>5
  <2>7. \A d \in DevSem : d # e =>
            semaphore'[d] = semaphore[d] /\ dev'[d] = dev[d]
    BY <1>1, <2>4, <2>5
  <2> QED
    BY <1>3, <2>1, <2>6, <2>7
<1>11. ASSUME NEW e \in DevSem, DeviceCompletes(e)
       PROVE  \A d \in DevSem :
                  semaphore'[d] = IF dev'[d] = "ready" THEN 0 ELSE -1
  <2>1. /\ mode # "corrupt" /\ dev[e] = "busy" /\ UNCHANGED semaphore
        /\ dev' = [dev EXCEPT ![e] = "done"]
    BY <1>11 DEF DeviceCompletes, hwFrame, Stopped
  <2> QED
    BY <1>1, <1>3, <2>1
<1>12. CASE \/ Instruction \/ SchedulerNull \/ SchedulerWait
            \/ KillCurrent \/ KillReady \/ \E c \in Proc : KillChild(c)
            \/ PLTPreempt \/ PLTIdle \/ IntervalExpires \/ QuantumExpires
  <2>1. mode # "corrupt" /\ UNCHANGED <<semaphore, dev>>
    BY <1>12 DEF Instruction, KillChild, KillCurrent, KillReady, SchedulerNull,
       SchedulerWait, idleFrame, PLTPreempt, PLTIdle, IntervalExpires,
       QuantumExpires, devVars, hwFrame, Running, Interruptible, Idle, Stopped
  <2> QED
    BY <1>4, <2>1
<1> QED
  BY <1>6, <1>7, <1>8, <1>9, <1>10, <1>11, <1>12
     DEF Next, Kill, Interrupt, Hardware, Halted

LEMMA RequestInit == Init => RequestInv
<1> SUFFICES ASSUME Init PROVE RequestInv
  OBVIOUS
<1>1. dev = [d \in DevSem |-> "ready"] /\ \A s \in SoftSem : semaphore[s] = 0
  BY DEF Init
<1>2. \A d \in DevSem : dev[d] = "ready" /\ semaphore[d] = 0
  BY <1>1, ConstantFacts
<1> QED
  BY <1>2 DEF RequestInv, RequestsBalance, OnlyUsed

(* A device's semaphore is at -1 exactly while the device has a request    *)
(* that is not acknowledged, whoever is killed and whatever interrupts     *)
(* come between, when each command and its SYS8 come in one piece.         *)
THEOREM DeviceRequestsBalance ==
    ASSUME OneRequest, OneHalf
    PROVE  Spec => []RequestsBalance
<1>1. Init => RequestInv
  BY RequestInit
<1>2. NucleusInv /\ RequestInv /\ [Next]_vars => RequestInv'
  BY RequestStep
<1>3. RequestInv => RequestsBalance
  BY DEF RequestInv
<1> QED
  BY <1>1, <1>2, <1>3, Invariance, PTL DEF Spec

-----------------------------------------------------------------------------
(* What reaches the ready queue.                                           *)
LEMMA SchedulerTakes ==
    ASSUME NEW q \in Seq(Proc), NEW cur, Scheduler(q, cur), NEW p,
           Contains(readyQ', p)
    PROVE  Contains(q, p)
<1>1. CASE Dispatch(q)
  <2>1. q # <<>> /\ readyQ' = Tail(q)
    BY <1>1 DEF Dispatch
  <2> QED
    BY <2>1, QueueRemove
<1>2. CASE NoReady(q, cur)
  BY <1>2 DEF NoReady
<1> QED
  BY <1>1, <1>2 DEF Scheduler

LEMMA ExitTakes ==
    ASSUME NEW q \in Seq(Proc), ExitInterruptHandler(q), NEW p,
           Contains(readyQ', p)
    PROVE  Contains(q, p)
  BY SchedulerTakes DEF ExitInterruptHandler

LEMMA WokenFrom ==     \* the woken were on that queue
    ASSUME TypeOK, NEW s \in Sem, NEW n \in 0 .. Len(procQ[s]), NEW p,
           Contains(Woken(s, n), p)
    PROVE  Contains(readyQ, p) \/ Contains(procQ[s], p)
<1>1. readyQ \in Seq(Proc) /\ procQ[s] \in Seq(Proc)
  BY DEF TypeOK
<1>2. /\ SubSeq(procQ[s], 1, n) \in Seq(Proc)
      /\ Contains(SubSeq(procQ[s], 1, n), p) => Contains(procQ[s], p)
  BY <1>1, QueueSplit
<1> QED
  BY <1>1, <1>2, QueueConcat DEF Woken

LEMMA WaitingIs ==
    ASSUME TypeOK, NEW s \in Sem
    PROVE  Waiting(s) \in 0 .. Len(procQ[s]) /\ 0 \in 0 .. Len(procQ[s])
<1>1. Len(procQ[s]) \in Nat /\ (Len(procQ[s]) = 0 <=> procQ[s] = <<>>)
  BY QueueNonEmpty DEF TypeOK
<1> QED
  BY <1>1 DEF Waiting

(* Who leaves the queue of a device is served by that device's interrupt.  *)
LEMMA WokenByDevice ==
    ASSUME NucleusInv, mode # "corrupt", Next, NEW d \in DevSem, NEW p \in Proc,
           Blocked(p, d), OnReady(p)'
    PROVE  \E u \in Unit : DeviceInterrupt(u) /\ SubDevice(u) = d
<1>1. /\ TypeOK /\ d \in Sem /\ readyQ \in Seq(Proc)
      /\ \A s \in Sem : procQ[s] \in Seq(Proc)
  BY ConstantFacts DEF NucleusInv, TypeOK
<1>2. Placed(readyQ, currentProcess, procQ, p_semAdd, pcbFree)
  BY DEF NucleusInv, OnePlace
<1>3. /\ Contains(procQ[d], p) /\ Contains(readyQ', p)
      /\ ~Contains(readyQ, p) /\ p \in Live /\ p # currentProcess
      /\ \A s \in Sem : s # d => ~Contains(procQ[s], p)
  BY <1>1, <1>2 DEF Blocked, OnReady, Placed, Live
<1>4. ASSUME NEW s \in Sem, NEW n \in 0 .. Len(procQ[s]),
             Contains(Woken(s, n), p)
      PROVE  s = d
  BY <1>1, <1>3, <1>4, WokenFrom
<1>5. UNCHANGED readyQ => FALSE
  BY <1>3
<1>6. ASSUME NEW cur, Scheduler(readyQ, cur)  PROVE FALSE
  BY <1>1, <1>3, <1>6, SchedulerTakes
<1>7. ~Exception
  <2>1. ASSUME NEW s \in UserSem, Verhogen(s)  PROVE FALSE
    <3>1. \E n \in 0 .. Len(procQ[s]) : readyQ' = Woken(s, n)
      <4>1. s \in Sem
        BY ConstantFacts
      <4> QED
        BY <1>1, <2>1, <4>1, WaitingIs DEF Verhogen
    <3>2. s \in Sem /\ s # d
      BY ConstantFacts
    <3> QED
      BY <1>3, <1>4, <3>1, <3>2
  <2>2. ASSUME NEW q \in Proc, NEW c \in Entry, CreateProcess(q, c)
        PROVE  FALSE
    <3>1. q \in pcbFree /\ readyQ' = insertProcQ(readyQ, q)
      BY <2>2 DEF CreateProcess
    <3>2. Contains(readyQ, p) \/ p = q
      BY <1>1, <1>3, <3>1, QueueInsert
    <3> QED
      BY <1>3, <3>1, <3>2 DEF Live
  <2>3. ASSUME NEW s, P(s)  PROVE FALSE
    BY <1>5, <1>6, <2>3 DEF P, BlockHelperFunction
  <2>4. ASSUME NEW e, WaitForIo(e) \/ IoRequest(e)  PROVE FALSE
    BY <1>5, <1>6, <2>4 DEF WaitForIo, IoRequest, IoWait, BlockHelperFunction,
       StartKill
  <2>5. CASE \/ CreateFails \/ TerminateProcess \/ SyscallPassUp
             \/ ProgramTrapHandler \/ TLBManagementHandler
             \/ \E t \in ExcType, c \in Entry : ExceptionStateVec(t, c)
             \/ \E e \in IoDevs : Command(e)
    BY <1>5, <2>5 DEF CreateFails, TerminateProcess, SyscallPassUp,
       PassUpOrDie, ProgramTrapHandler, TLBManagementHandler,
       ExceptionStateVec, Command, StartKill
  <2>6. CASE WaitForClock \/ \E s \in UserSem : Passeren(s)
    BY <2>3, <2>6 DEF WaitForClock, Passeren
  <2> QED
    BY <2>1, <2>2, <2>4, <2>5, <2>6 DEF Exception, Syscall
<1>8. ~Kill
  <2>1. ASSUME NEW q \in Seq(Proc), FreeVictim(q), ~Contains(q, p)
        PROVE  FALSE
    BY <1>3, <2>1, SchedulerTakes DEF FreeVictim
  <2>2. CASE KillCurrent \/ KillBlocked
    BY <1>1, <1>3, <2>1, <2>2 DEF KillCurrent, KillBlocked
  <2>3. CASE KillReady
    <3>1. Distinct(readyQ) /\ FreeVictim(outProcQ(readyQ, Victim))
      BY <1>2, <2>3 DEF Placed, KillReady
    <3>2. /\ outProcQ(readyQ, Victim) \in Seq(Proc)
          /\ ~Contains(outProcQ(readyQ, Victim), p)
      BY <1>1, <1>3, <3>1, QueueOut
    <3> QED
      BY <2>1, <3>1, <3>2
  <2>4. CASE \E c \in Proc : KillChild(c)
    BY <1>5, <2>4 DEF KillChild, schedVars
  <2> QED
    BY <2>2, <2>3, <2>4 DEF Kill
<1>9. ~(PLTPreempt \/ PLTIdle)
  <2>1. ASSUME currentProcess \in Proc,
               Contains(insertProcQ(readyQ, currentProcess), p)
        PROVE  FALSE
    BY <1>1, <1>3, <2>1, QueueInsert
  <2>2. CASE PLTPreempt
    <3>1. /\ currentProcess \in Proc
          /\ Scheduler(insertProcQ(readyQ, currentProcess), currentProcess)
      BY <2>2 DEF PLTPreempt, Live
    <3>2. insertProcQ(readyQ, currentProcess) \in Seq(Proc)
      BY <1>1, <3>1, QueueInsert
    <3> QED
      BY <1>3, <2>1, <3>1, <3>2, SchedulerTakes
  <2>3. CASE PLTIdle
    <3>1. UNCHANGED readyQ
          \/ (currentProcess # NULL
              /\ readyQ' = insertProcQ(readyQ, currentProcess))
      BY <2>3 DEF PLTIdle
    <3>2. currentProcess # NULL => currentProcess \in Proc
      BY <1>1 DEF TypeOK
    <3> QED
      BY <1>3, <1>5, <2>1, <3>1, <3>2
  <2> QED
    BY <2>2, <2>3
<1>10. ~ITInterruptHandler
  <2> SUFFICES ASSUME ITInterruptHandler  PROVE FALSE
    OBVIOUS
  <2>1. ITSEMINDEX \in Sem /\ ITSEMINDEX # d
    BY ConstantFacts
  <2>2. Due <= Len(procQ[ITSEMINDEX])
        /\ ExitInterruptHandler(Woken(ITSEMINDEX, Due))
    BY <1>5 DEF ITInterruptHandler
  <2>3. Due \in 0 .. Len(procQ[ITSEMINDEX])
    <3>1. semaphore[ITSEMINDEX] \in Int /\ Len(procQ[ITSEMINDEX]) \in Nat
      BY <1>1, <2>1, QueueNonEmpty DEF TypeOK
    <3> QED
      BY <2>2, <3>1 DEF Due
  <2>4. Woken(ITSEMINDEX, Due) \in Seq(Proc)
    BY <1>1, <1>2, <2>1, <2>3, WakeStep
  <2>5. Contains(Woken(ITSEMINDEX, Due), p)
    BY <1>3, <2>2, <2>4, ExitTakes
  <2> QED
    BY <1>4, <2>1, <2>3, <2>5
<1>11. ASSUME NEW u \in Unit, DeviceInterrupt(u)
       PROVE  SubDevice(u) = d
  <2> DEFINE e == SubDevice(u)
  <2>1. e \in Sem
    <3>1. NUNIT \in Nat /\ NTERM \in 0 .. NUNIT /\ u \in 0 .. NUNIT - 1
      BY NucleusAssumption DEF Unit
    <3>2. e \in SoftSem
      BY <3>1 DEF SubDevice, IsTerminal, Receiver, SoftSem, DEVICECOUNT
    <3> QED
      BY <3>2, ConstantFacts
  <2>2. \/ ExitInterruptHandler(Woken(e, Waiting(e)))
        \/ ExitInterruptHandler(readyQ)
    BY <1>11 DEF DeviceInterrupt, ServeDevice
  <2> HIDE DEF e
  <2>3. Woken(e, Waiting(e)) \in Seq(Proc)
    BY <1>1, <1>2, <2>1, WaitingIs, WakeStep
  <2>4. Contains(Woken(e, Waiting(e)), p)
    BY <1>1, <1>3, <2>2, <2>3, ExitTakes
  <2>5. e = d
    BY <1>1, <1>4, <2>1, <2>4, WaitingIs
  <2> QED
    BY <2>5 DEF e
<1>12. ~(\/ Instruction \/ SchedulerNull \/ SchedulerWait \/ Hardware \/ Halted)
  BY <1>5 DEF Instruction, SchedulerNull, SchedulerWait, idleFrame, Hardware,
     DeviceCompletes, IntervalExpires, QuantumExpires, hwFrame, Halted, vars
<1> QED
  BY <1>7, <1>8, <1>9, <1>10, <1>11, <1>12 DEF Next, Interrupt

(* Who waits for a device becomes ready when that device is done, and not  *)
(* before: neither another interrupt nor a V, a kill or a preemption takes *)
(* it from the device's queue to the ready queue.                          *)
THEOREM OnlyCompletionMakesReady ==
    ASSUME OneHalf
    PROVE  Spec => OnlyCompletionWakes
<1> DEFINE Wakes == \A d \in DevSem : \A p \in Proc :
               Blocked(p, d) /\ OnReady(p)' => dev[d] = "done"
<1>1. Init => OnlyUsed
  BY RequestInit DEF RequestInv
<1>2. NucleusInv /\ OnlyUsed /\ [Next]_vars => OnlyUsed'
  BY UsedStep DEF NucleusInv
<1>3. NucleusInv /\ OnlyUsed /\ [Next]_vars => [Wakes]_vars
  <2> SUFFICES ASSUME NucleusInv, OnlyUsed, Next, ~UNCHANGED vars,
                      NEW d \in DevSem, NEW p \in Proc,
                      Blocked(p, d), OnReady(p)'
               PROVE  dev[d] = "done"
    OBVIOUS
  <2>1. mode # "corrupt"
    <3> SUFFICES ASSUME mode = "corrupt"  PROVE UNCHANGED vars
      OBVIOUS
    <3>1. ~Exception /\ ~Instruction
      BY DEF Exception, Syscall, CreateFails, CreateProcess,
         TerminateProcess, Verhogen, Passeren, ExceptionStateVec, WaitForClock,
         Command, WaitForIo, IoRequest, SyscallPassUp, ProgramTrapHandler,
         TLBManagementHandler, Running, Instruction
    <3>2. ~Kill /\ ~SchedulerNull /\ ~SchedulerWait
      BY DEF Kill, KillChild, KillCurrent, KillReady, KillBlocked,
         SchedulerNull, SchedulerWait
    <3>3. ~Interrupt /\ ~Hardware
      BY DEF Interrupt, PLTPreempt, PLTIdle, ITInterruptHandler,
         DeviceInterrupt, Interruptible, Idle, Hardware, DeviceCompletes,
         IntervalExpires, QuantumExpires, Running, Stopped
    <3> QED
      BY <3>1, <3>2, <3>3 DEF Next, Halted
  <2>2. PICK u \in Unit : DeviceInterrupt(u) /\ SubDevice(u) = d
    BY <2>1, WokenByDevice
  <2> QED
    BY <2>2, ServedIsDone DEF DeviceInterrupt, Interrupting
<1> QED
  BY <1>1, <1>2, <1>3, Invariance, PTL DEF Spec, OnlyCompletionWakes

-----------------------------------------------------------------------------
(* The clock.                                                              *)
LEMMA HeadAndTail ==
    ASSUME NEW q \in Seq(Proc), q # <<>>
    PROVE  q = <<Head(q)>> \o Tail(q)
<1>1. Len(q) \in Nat /\ Len(q) > 0 /\ Head(q) = q[1]
  BY EmptySeq, LenProperties
<1>2. SubSeq(q, 1, Len(q)) = <<q[1]>> \o SubSeq(q, 1 + 1, Len(q))
  <2>1. 1 \in 1 .. Len(q) /\ Len(q) \in 1 .. Len(q)
    BY <1>1
  <2> QED
    BY <2>1, SubSeqRecursiveFirst
<1>3. SubSeq(q, 1, Len(q)) = q /\ Tail(q) = SubSeq(q, 2, Len(q))
  BY SubSeqFull, TailIsSubSeq
<1>4. 1 + 1 = 2
  OBVIOUS
<1> QED
  BY <1>1, <1>2, <1>3, <1>4

LEMMA OnlyClockInterrupt ==     \* nothing else withdraws its request
    ASSUME [Next]_vars, itPending, ~itPending'
    PROVE  ITInterruptHandler
<1>1. ~Exception /\ ~Instruction
  BY DEF Exception, Syscall, CreateFails, CreateProcess, TerminateProcess,
     Verhogen, Passeren, ExceptionStateVec, WaitForClock, Command, WaitForIo,
     IoRequest, IoWait, SyscallPassUp, ProgramTrapHandler, PassUpOrDie,
     TLBManagementHandler, Instruction, devVars
<1>2. ~Kill /\ ~SchedulerNull /\ ~SchedulerWait
  BY DEF Kill, KillChild, KillCurrent, KillReady, KillBlocked, SchedulerNull,
     SchedulerWait, idleFrame, devVars
<1>3. ~Hardware /\ ~Halted /\ ~UNCHANGED vars
  BY DEF Hardware, DeviceCompletes, IntervalExpires, QuantumExpires, devVars,
     Halted, vars
<1>4. Interrupt => ITInterruptHandler
  BY DEF Interrupt, PLTPreempt, PLTIdle, DeviceInterrupt, ServeDevice, devVars
<1> QED
  BY <1>1, <1>2, <1>3, <1>4 DEF Next

(* The loop of the clock's interrupt ends with its queue empty, and those  *)
(* it wakes come behind those that were ready, in their order: the value   *)
(* of the semaphore, which the loop counts, is the length of the queue.    *)
THEOREM ClockWakesAll == Spec => ClockReleasesAll
<1> DEFINE Q == procQ[ITSEMINDEX]
           Released ==
               itPending /\ ~itPending' =>
                   /\ procQ'[ITSEMINDEX] = <<>>
                   /\ \/ readyQ' = readyQ \o Q
                      \/ <<currentProcess'>> \o readyQ' = readyQ \o Q
<1>1. NucleusInv /\ CountInv /\ [Next]_vars => Released
  <2> SUFFICES ASSUME NucleusInv, CountInv, [Next]_vars, itPending, ~itPending'
               PROVE  /\ procQ'[ITSEMINDEX] = <<>>
                      /\ \/ readyQ' = readyQ \o Q
                         \/ <<currentProcess'>> \o readyQ' = readyQ \o Q
    OBVIOUS
  <2>1. ITInterruptHandler
    BY OnlyClockInterrupt
  <2>2. /\ mode # "corrupt" /\ ITSEMINDEX \in Sem
        /\ procQ \in [Sem -> Seq(Proc)] /\ Q \in Seq(Proc)
        /\ readyQ \in Seq(Proc) /\ semaphore[ITSEMINDEX] \in Int
    BY <2>1, ConstantFacts DEF ITInterruptHandler, Interruptible, Idle,
       NucleusInv, TypeOK
  <2>3. Len(Q) \in Nat /\ Due = Len(Q)
    <3>1. Len(Q) = Deficit(ITSEMINDEX)
      BY <2>2 DEF CountInv, SemaphoreCountsWaiters
    <3> QED
      BY <2>2, <3>1 DEF Due, Deficit
  <2>4. /\ procQ' = Remaining(ITSEMINDEX, Due)
        /\ ExitInterruptHandler(Woken(ITSEMINDEX, Due))
    BY <2>1, <2>3 DEF ITInterruptHandler
  <2>5. procQ'[ITSEMINDEX] = <<>>
    <3>1. procQ'[ITSEMINDEX] = SubSeq(Q, Len(Q) + 1, Len(Q))
      BY <2>2, <2>3, <2>4 DEF Remaining
    <3>2. Len(Q) + 1 \in Int /\ Len(Q) \in Int /\ Len(Q) < Len(Q) + 1
      BY <2>3
    <3> QED
      BY <3>1, <3>2, SubSeqEmpty
  <2>6. Woken(ITSEMINDEX, Due) = readyQ \o Q
    BY <2>2, <2>3, SubSeqFull DEF Woken
  <2>7. readyQ \o Q \in Seq(Proc)
    BY <2>2, QueueConcat
  <2>8. ASSUME NEW q \in Seq(Proc), ExitInterruptHandler(q)
        PROVE  readyQ' = q \/ <<currentProcess'>> \o readyQ' = q
    <3>1. CASE Dispatch(q)
      <4>1. q # <<>> /\ currentProcess' = Head(q) /\ readyQ' = Tail(q)
        BY <3>1 DEF Dispatch
      <4> QED
        BY <4>1, HeadAndTail
    <3> QED
      BY <2>8, <3>1 DEF ExitInterruptHandler, Scheduler, NoReady
  <2> QED
    BY <2>4, <2>5, <2>6, <2>7, <2>8
<1> QED
  BY <1>1, Invariance, CountInvariance, PTL DEF Spec, ClockReleasesAll

-----------------------------------------------------------------------------
(* The processor states.                                                   *)
(* Without the local timer, no process is preempted.                       *)
NoPreemption == pltPending = FALSE

LEMMA NoPreemptionStep ==
    ASSUME "TIMER" \notin Calls, NoPreemption, [Next]_vars
    PROVE  NoPreemption'
<1> USE DEF NoPreemption
<1>1. ASSUME NEW q, NEW cur, Scheduler(q, cur)  PROVE pltPending' = FALSE
  BY <1>1 DEF Scheduler, Dispatch, NoReady
<1>2. ASSUME NEW s, BlockHelperFunction(s) \/ P(s) PROVE pltPending' = FALSE
  BY <1>1, <1>2 DEF P, BlockHelperFunction, LoadCaller
<1>3. ASSUME NEW q, FreeVictim(q) \/ ExitInterruptHandler(q)
      PROVE  pltPending' = FALSE
  BY <1>1, <1>3 DEF FreeVictim, ExitInterruptHandler
<1>4. CASE Exception
  BY <1>2, <1>4 DEF Exception, Syscall, CreateFails, CreateProcess,
     TerminateProcess, Verhogen, Passeren, ExceptionStateVec, WaitForClock,
     Command, WaitForIo, IoRequest, IoWait, SyscallPassUp, PassUpOrDie,
     ProgramTrapHandler, TLBManagementHandler, LoadCaller, StartKill
<1>5. CASE Kill
  BY <1>3, <1>5 DEF Kill, KillChild, KillCurrent, KillReady, KillBlocked,
     schedVars
<1>6. CASE Interrupt
  BY <1>3, <1>6 DEF Interrupt, PLTPreempt, PLTIdle, ITInterruptHandler,
     DeviceInterrupt, ServeDevice
<1>7. CASE \/ Instruction \/ SchedulerNull \/ SchedulerWait \/ Hardware
           \/ UNCHANGED vars
  BY <1>7 DEF Instruction, SchedulerNull, SchedulerWait, Hardware,
     DeviceCompletes, IntervalExpires, QuantumExpires, Running, vars
<1> QED
  BY <1>4, <1>5, <1>6, <1>7 DEF Next, Halted

(* The scheduler loads the saved state of the process it dispatches.       *)
LEMMA SchedulerLoads ==
    ASSUME NEW q \in Seq(Proc), NEW cur, Scheduler(q, cur)
    PROVE  \/ currentProcess' \in {cur, NULL}
           \/ /\ currentProcess' \in Proc /\ Contains(q, currentProcess')
              /\ cpu' = p_s'[currentProcess']
<1>1. CASE Dispatch(q)
  <2>1. q # <<>> /\ currentProcess' = Head(q) /\ cpu' = p_s'[Head(q)]
    BY <1>1 DEF Dispatch
  <2> QED
    BY <2>1, QueueRemove
<1>2. CASE NoReady(q, cur)
  BY <1>2 DEF NoReady
<1> QED
  BY <1>1, <1>2 DEF Scheduler

Keeps(p) ==     \* what ContextKept asks of a step
    /\ p # currentProcess => p_s'[p] = p_s[p]
    /\ p # currentProcess /\ p = currentProcess' => cpu' = p_s[p]
    /\ p = currentProcess /\ p # currentProcess' => p_s'[p] \in {cpu, Succ(cpu)}

LEMMA BlockKeeps ==
    ASSUME NucleusInv, mode = "run", NEW s \in Sem, BlockHelperFunction(s),
           NEW p \in Live
    PROVE  Keeps(p)
<1>1. /\ currentProcess \in Live /\ currentProcess \in Proc /\ p \in Proc
      /\ Placed(readyQ, currentProcess, procQ, p_semAdd, pcbFree)
      /\ p_s \in [Proc -> Ctx] /\ readyQ \in Seq(Proc) /\ NULL \notin Proc
  BY ConstantFacts DEF NucleusInv, ModeOK, OnePlace, TypeOK, Live
<1>2. ~Contains(readyQ, currentProcess)
  BY <1>1 DEF Placed, Live
<1>3. p_s' = [p_s EXCEPT ![currentProcess] = Succ(cpu)]
      /\ Scheduler(readyQ, NULL)
  BY DEF BlockHelperFunction
<1>4. \/ currentProcess' = NULL
      \/ /\ Contains(readyQ, currentProcess')
         /\ cpu' = p_s'[currentProcess']
  BY <1>1, <1>3, SchedulerLoads
<1>5. p_s'[currentProcess] = Succ(cpu)
      /\ (p # currentProcess => p_s'[p] = p_s[p])
  BY <1>1, <1>3
<1> QED
  BY <1>1, <1>2, <1>4, <1>5 DEF Keeps

LEMMA ExceptionKeeps ==
    ASSUME NucleusInv, Exception, NEW p \in Live
    PROVE  Keeps(p)
<1>1. mode = "run"
  BY DEF Exception, Syscall, CreateFails, CreateProcess, TerminateProcess,
     Verhogen, Passeren, ExceptionStateVec, WaitForClock, Command, WaitForIo,
     IoRequest, SyscallPassUp, ProgramTrapHandler, TLBManagementHandler, Running
<1>2. currentProcess \in Proc /\ p_s \in [Proc -> Ctx] /\ p \in Proc
  BY <1>1 DEF NucleusInv, ModeOK, TypeOK, Live
<1>3. ASSUME UNCHANGED currentProcess,
             \/ UNCHANGED p_s
             \/ \E q, c : (q = currentProcess \/ q \in pcbFree)
                          /\ p_s' = [p_s EXCEPT ![q] = c]
      PROVE  Keeps(p)
  <2>1. p # currentProcess => p_s'[p] = p_s[p]
    BY <1>2, <1>3 DEF Live
  <2> QED
    BY <1>3, <2>1 DEF Keeps
<1>4. ASSUME NEW s \in Sem, P(s)  PROVE Keeps(p)
  BY <1>1, <1>3, <1>4, BlockKeeps DEF P, LoadCaller
<1>5. ASSUME NEW d \in IoDevs, WaitForIo(d) \/ IoRequest(d)
      PROVE  Keeps(p)
  <2>1. d \in Sem
    BY ConstantFacts
  <2> QED
    BY <1>1, <1>3, <1>5, <2>1, BlockKeeps
       DEF WaitForIo, IoRequest, IoWait, StartKill
<1>6. CASE WaitForClock \/ \E s \in UserSem : Passeren(s)
  BY <1>4, <1>6, ConstantFacts DEF WaitForClock, Passeren
<1>7. CASE \/ CreateFails \/ TerminateProcess
           \/ \E s \in UserSem : Verhogen(s)
           \/ \E t \in ExcType, c \in Entry : ExceptionStateVec(t, c)
           \/ \E d \in IoDevs : Command(d)
  BY <1>3, <1>7 DEF CreateFails, TerminateProcess, Verhogen,
     ExceptionStateVec, Command, LoadCaller, StartKill, procVars
<1>8. ASSUME NEW q \in Proc, NEW c \in Entry, CreateProcess(q, c)
      PROVE  Keeps(p)
  BY <1>3, <1>8 DEF CreateProcess, LoadCaller
<1>9. ASSUME NEW t, PassUpOrDie(t)  PROVE Keeps(p)
  BY <1>3, <1>9 DEF PassUpOrDie, StartKill
<1> QED
  BY <1>5, <1>6, <1>7, <1>8, <1>9 DEF Exception, Syscall, SyscallPassUp,
     ProgramTrapHandler, TLBManagementHandler

LEMMA KillKeeps ==
    ASSUME NucleusInv, Kill, NEW p \in Live, p \notin pcbFree'
    PROVE  Keeps(p)
<1>1. /\ mode = "kill" /\ UNCHANGED p_s
  BY DEF Kill, KillChild, KillCurrent, KillReady, KillBlocked, procVars
<1>2. CASE UNCHANGED currentProcess
  BY <1>1, <1>2 DEF Keeps
<1>3. ASSUME NEW q \in Seq(Proc), FreeVictim(q)
      PROVE  Keeps(p)
  <2>1. CASE Len(killing) = 1 /\ Scheduler(q, currentProcess)
    <3>1. Victim = currentProcess
      <4>1. Last(killing) = killing[Len(killing)]
        BY DEF Last
      <4> QED
        BY <1>1, <2>1, <4>1 DEF NucleusInv, ModeOK, Victim
    <3>2. currentProcess \in pcbFree'
      BY <1>3, <3>1 DEF FreeVictim
    <3>3. p # currentProcess /\ p # NULL
      BY <3>2, ConstantFacts DEF Live
    <3> QED
      BY <1>1, <2>1, <3>3, SchedulerLoads DEF Keeps
  <2> QED
    BY <1>2, <1>3, <2>1 DEF FreeVictim
<1>4. readyQ \in Seq(Proc) /\ outProcQ(readyQ, Victim) \in Seq(Proc)
  <2>1. readyQ \in Seq(Proc) /\ Distinct(readyQ)
    BY <1>1 DEF NucleusInv, TypeOK, OnePlace, Placed
  <2> QED
    BY <2>1, QueueOut
<1> QED
  BY <1>2, <1>3, <1>4 DEF Kill, KillChild, KillCurrent, KillReady, KillBlocked,
     schedVars

LEMMA InterruptKeeps ==
    ASSUME NucleusInv, NoPreemption, Interrupt, NEW p \in Live
    PROVE  Keeps(p)
<1>1. /\ TypeOK /\ p \in Proc /\ p # NULL
      /\ Placed(readyQ, currentProcess, procQ, p_semAdd, pcbFree)
  <2>1. mode # "corrupt"
    BY DEF Interrupt, PLTPreempt, PLTIdle, ITInterruptHandler,
       DeviceInterrupt, Interruptible, Idle
  <2> QED
    BY <2>1, ConstantFacts DEF NucleusInv, OnePlace, Live
<1>2. UNCHANGED p_s /\ (ITInterruptHandler \/ \E u \in Unit : DeviceInterrupt(u))
  BY DEF Interrupt, PLTPreempt, PLTIdle, ITInterruptHandler, DeviceInterrupt,
     ServeDevice, procVars, NoPreemption
<1>3. CASE UNCHANGED currentProcess
  BY <1>2, <1>3 DEF Keeps
<1>4. ASSUME NEW q \in Seq(Proc), ExitInterruptHandler(q)
      PROVE  Keeps(p)
  <2>1. CASE currentProcess = NULL /\ Scheduler(q, NULL)
    BY <1>1, <1>2, <2>1, SchedulerLoads DEF Keeps
  <2> QED
    BY <1>3, <1>4, <2>1 DEF ExitInterruptHandler
<1>5. CASE ITInterruptHandler
  <2>1. CASE Due <= Len(procQ[ITSEMINDEX])
    <3>1. ITSEMINDEX \in Sem
      BY ConstantFacts
    <3>2. Due \in 0 .. Len(procQ[ITSEMINDEX])
      <4>1. semaphore[ITSEMINDEX] \in Int /\ Len(procQ[ITSEMINDEX]) \in Nat
        BY <1>1, <3>1, QueueNonEmpty DEF TypeOK
      <4> QED
        BY <2>1, <4>1 DEF Due
    <3>3. Woken(ITSEMINDEX, Due) \in Seq(Proc)
      BY <1>1, <3>1, <3>2, WakeStep
    <3> QED
      BY <1>4, <1>5, <2>1, <3>3 DEF ITInterruptHandler
  <2> QED
    BY <1>3, <1>5, <2>1 DEF ITInterruptHandler
<1>6. ASSUME NEW u \in Unit, DeviceInterrupt(u)  PROVE Keeps(p)
  <2> DEFINE e == SubDevice(u)
  <2>1. e \in Sem
    <3>1. NUNIT \in Nat /\ NTERM \in 0 .. NUNIT /\ u \in 0 .. NUNIT - 1
      BY NucleusAssumption DEF Unit
    <3>2. e \in SoftSem
      BY <3>1 DEF SubDevice, IsTerminal, Receiver, SoftSem, DEVICECOUNT
    <3> QED
      BY <3>2, ConstantFacts
  <2>2. \/ ExitInterruptHandler(Woken(e, Waiting(e)))
        \/ ExitInterruptHandler(readyQ)
    BY <1>6 DEF DeviceInterrupt, ServeDevice
  <2> HIDE DEF e
  <2>3. Woken(e, Waiting(e)) \in Seq(Proc) /\ readyQ \in Seq(Proc)
    BY <1>1, <2>1, WaitingIs, WakeStep DEF TypeOK
  <2> QED
    BY <1>4, <2>2, <2>3
<1> QED
  BY <1>2, <1>5, <1>6

(* The processor state of a process survives whatever happens while others *)
(* run, as long as the local timer preempts nobody: it is saved when the   *)
(* process blocks, untouched until it is dispatched, and loaded then.      *)
THEOREM ContextsAreKept ==
    ASSUME "TIMER" \notin Calls
    PROVE  Spec => ContextKept
<1> DEFINE Step == \A p \in Live : p \notin pcbFree' => Keeps(p)
<1>1. Init => NoPreemption
  BY DEF Init, NoPreemption
<1>2. NoPreemption /\ [Next]_vars => NoPreemption'
  BY NoPreemptionStep
<1>3. NucleusInv /\ NoPreemption /\ [Next]_vars => [Step]_vars
  <2> SUFFICES ASSUME NucleusInv, NoPreemption, Next,
                      NEW p \in Live, p \notin pcbFree', ~UNCHANGED vars
               PROVE  Keeps(p)
    OBVIOUS
  <2>1. CASE \/ Instruction \/ SchedulerNull \/ SchedulerWait \/ Hardware
    <3>1. UNCHANGED p_s
          /\ (UNCHANGED currentProcess
              \/ (mode \in Idle /\ currentProcess' = NULL))
      BY <2>1 DEF Instruction, SchedulerNull, SchedulerWait, idleFrame,
         procVars, Hardware, DeviceCompletes, IntervalExpires, QuantumExpires,
         hwFrame, Idle
    <3>2. p # NULL /\ (mode \in Idle => p # currentProcess)
      BY ConstantFacts DEF NucleusInv, ModeOK, Live
    <3> QED
      BY <3>1, <3>2 DEF Keeps
  <2> QED
    BY <2>1, ExceptionKeeps, KillKeeps, InterruptKeeps DEF Next, Halted
<1>4. [][Step]_vars => ContextKept
  <2>1. [Step]_vars =>
            [\A p \in Live : p \notin pcbFree' =>
                 /\ p # currentProcess => p_s'[p] = p_s[p]
                 /\ p # currentProcess /\ p = currentProcess' => cpu' = p_s[p]
                 /\ p = currentProcess /\ p # currentProcess' =>
                       p_s'[p] \in {cpu, Succ(cpu)}]_vars
    BY DEF Keeps
  <2> QED
    BY <2>1, PTL DEF ContextKept
<1> QED
  BY <1>1, <1>2, <1>3, <1>4, Invariance, PTL DEF Spec
=============================================================================
