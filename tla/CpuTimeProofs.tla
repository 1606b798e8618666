--------------------------- MODULE CpuTimeProofs ---------------------------
(***************************************************************************)
(* What CpuTime accounts for, proved for any number of processes, any      *)
(* width of cpu_t and any length of run, with a clock of one tick per      *)
(* microsecond.                                                            *)
(***************************************************************************)
EXTENDS CpuTime, TLAPS

M == 2 * HALF

-----------------------------------------------------------------------------
(* Division with remainder.                                                *)
LEMMA Remainder ==
    ASSUME NEW x \in Int, NEW m \in Nat \ {0}
    PROVE  /\ x % m \in 0 .. m - 1
           /\ x \div m \in Int
           /\ x = m * (x \div m) + (x % m)
  BY SMT

(* A number leaves no remainder just if it is a multiple.                  *)
LEMMA Multiple ==
    ASSUME NEW m \in Nat \ {0}, NEW z \in Int
    PROVE  z % m = 0 <=> \E k \in Int : z = m * k
<1>1. /\ z % m \in 0 .. m - 1
      /\ z \div m \in Int
      /\ z = m * (z \div m) + (z % m)
  BY Remainder
<1>2. ASSUME NEW k \in Int, z = m * k  PROVE z % m = 0
  <2> DEFINE d == k - z \div m
  <2>1. d \in Int /\ z % m = m * d
    BY <1>1, <1>2
  <2> HIDE DEF d
  <2>2. ~(d >= 1)
    BY <2>1, <1>1
  <2>3. ~(d <= -1)
    BY <2>1, <1>1
  <2>4. d = 0
    BY <2>1, <2>2, <2>3
  <2> QED
    BY <2>1, <2>4
<1>3. ASSUME z % m = 0  PROVE \E k \in Int : z = m * k
  <2>1. z = m * (z \div m)
    BY <1>1, <1>3
  <2> QED
    BY <2>1, <1>1
<1> QED
  BY <1>2, <1>3

(* Storing a number in a cpu_t changes it by a multiple of the range.      *)
LEMMA WrapSame ==
    ASSUME NEW x \in Int
    PROVE  /\ Wrap(x) \in cpu_t
           /\ \E k \in Int : Wrap(x) = x + M * k
<1>1. HALF \in Nat \ {0} /\ M \in Nat \ {0} /\ x + HALF \in Int
  BY ClockAssumption DEF M
<1>2. /\ (x + HALF) % M \in 0 .. M - 1
      /\ (x + HALF) \div M \in Int
      /\ x + HALF = M * ((x + HALF) \div M) + ((x + HALF) % M)
  BY <1>1, Remainder
<1>3. Wrap(x) = ((x + HALF) % M) - HALF
  BY DEF Wrap, M
<1>4. Wrap(x) \in cpu_t
  BY <1>1, <1>2, <1>3 DEF cpu_t, M
<1>5. /\ -((x + HALF) \div M) \in Int
      /\ Wrap(x) = x + M * (-((x + HALF) \div M))
  BY <1>1, <1>2, <1>3
<1> QED
  BY <1>4, <1>5

-----------------------------------------------------------------------------
(* The processor belongs to no free pcb, so no time goes to one; between   *)
(* two turns currentProcess is on the ready queue, or has terminated.      *)
Inv == /\ TypeOK
       /\ TimeAccounted
       /\ inTurn => place[currentProcess] = "processor"
       /\ ~inTurn /\ currentProcess # NULL =>
              place[currentProcess] \in {"free", "ready"}

(* A process whose debt changes by a multiple of the range stays accounted *)
(* for.                                                                    *)
LEMMA SameDebt ==
    ASSUME NEW x \in Int, NEW y \in Int, NEW k \in Int,
           x % (2 * HALF) = 0, y = x + M * k
    PROVE  y % (2 * HALF) = 0
<1>1. M \in Nat \ {0}
  BY ClockAssumption DEF M
<1>2. PICK j \in Int : x = M * j
  BY <1>1, Multiple DEF M
<1>3. y = M * (j + k) /\ j + k \in Int
  BY <1>1, <1>2
<1>4. y % M = 0
  BY <1>1, <1>3, Multiple
<1> QED
  BY <1>4 DEF M

(* What the clock shows, at one tick per microsecond.                      *)
LEMMA ClockReading ==
    ASSUME SCALE = 1, now \in Nat
    PROVE  /\ STCK = Wrap(now) /\ STCK \in cpu_t
           /\ \E k \in Int : STCK = now + M * k
<1>1. Wrap(now) \in cpu_t /\ \E k \in Int : Wrap(now) = now + M * k
  BY WrapSame
<1>2. Wrap(now) \in Int
  BY <1>1, ClockAssumption DEF cpu_t
<1>3. Quotient(Wrap(now), 1) = Wrap(now)
  BY <1>2 DEF Quotient
<1> QED
  BY <1>1, <1>3 DEF STCK

THEOREM InitInv == Init => Inv
<1> SUFFICES ASSUME Init PROVE Inv
  OBVIOUS
<1>1. HALF \in Nat \ {0} /\ 0 \in cpu_t
  BY ClockAssumption DEF cpu_t
<1>2. TypeOK
  BY <1>1 DEF Init, TypeOK, Place, Never
<1>3. TimeAccounted
  <2>1. 0 % M = 0
    BY <1>1, Multiple DEF M
  <2>2. ASSUME NEW p \in Pcb  PROVE Accounted(p) - used[p] = 0
    BY DEF Init, Accounted
  <2> QED
    BY <2>1, <2>2 DEF TimeAccounted, M
<1> QED
  BY <1>2, <1>3 DEF Inv, Init

(* The sum SYS6 returns, and IncrementProcessTime stores.                  *)
LEMMA TotalTimeSame ==
    ASSUME SCALE = 1, Inv, inTurn
    PROVE  /\ currentProcess \in Pcb
           /\ TotalTime \in cpu_t
           /\ Accounted(currentProcess) \in Int
           /\ \E k \in Int : TotalTime = Accounted(currentProcess) + M * k
<1>1. /\ currentProcess \in Pcb /\ p_totalTime[currentProcess] \in Int
      /\ processStartTime \in Int /\ STCK \in Int
  BY ClockReading, ClockAssumption DEF Inv, TypeOK, cpu_t
<1>2. /\ Accounted(currentProcess) =
            p_totalTime[currentProcess] + (STCK - processStartTime)
      /\ Accounted(currentProcess) \in Int
  BY <1>1 DEF Accounted
<1> QED
  BY <1>1, <1>2, WrapSame DEF TotalTime

(* The end of a turn leaves what its process is accounted for as it was,   *)
(* but for the range of cpu_t, and every other process alone.              *)
LEMMA EndOfTurn ==
    ASSUME SCALE = 1, Inv, inTurn, IncrementProcessTime, inTurn' = FALSE,
           used' = used,
           \A p \in Pcb : place'[p] # "free" => place[p] # "free"
    PROVE  /\ p_totalTime' \in [Pcb -> cpu_t]
           /\ TimeAccounted'
<1>1. /\ currentProcess \in Pcb /\ TotalTime \in cpu_t
      /\ p_totalTime \in [Pcb -> cpu_t] /\ used \in [Pcb -> Nat]
  BY TotalTimeSame DEF Inv, TypeOK
<1>2. p_totalTime' \in [Pcb -> cpu_t]
  BY <1>1 DEF IncrementProcessTime
<1>3. ASSUME NEW p \in Pcb, place'[p] # "free"
      PROVE  (Accounted(p)' - used'[p]) % (2 * HALF) = 0
  <2>1. (Accounted(p) - used[p]) % (2 * HALF) = 0
    BY <1>3 DEF Inv, TimeAccounted
  <2>2. CASE p = currentProcess
    <3>1. PICK k \in Int : TotalTime = Accounted(p) + M * k
      BY <2>2, TotalTimeSame
    <3>2. Accounted(p)' = TotalTime
      BY <1>1, <2>2, ClockAssumption DEF Accounted, IncrementProcessTime, cpu_t
    <3>3. Accounted(p) \in Int /\ used[p] \in Int /\ M \in Int
      BY <1>1, <2>2, TotalTimeSame, ClockAssumption DEF M
    <3>4. Accounted(p)' - used'[p] = (Accounted(p) - used[p]) + M * k
      BY <3>1, <3>2, <3>3
    <3>5. Accounted(p) - used[p] \in Int /\ Accounted(p)' - used'[p] \in Int
      BY <3>1, <3>2, <3>3
    <3> QED
      BY <2>1, <3>4, <3>5, SameDebt
  <2>3. CASE p # currentProcess
    <3>1. Accounted(p)' = Accounted(p)
      BY <1>1, <2>3 DEF Accounted, IncrementProcessTime
    <3> QED
      BY <2>1, <3>1
  <2> QED
    BY <2>2, <2>3
<1> QED
  BY <1>2, <1>3 DEF TimeAccounted

(* A step that changes no account and allocates no pcb.                    *)
LEMMA SameAccounts ==
    ASSUME TimeAccounted, used' = used,
           \A p \in Pcb : place'[p] # "free" =>
               place[p] # "free" /\ Accounted(p)' = Accounted(p)
    PROVE  TimeAccounted'
  BY DEF TimeAccounted

LEMMA TickInv == SCALE = 1 /\ Inv /\ Tick => Inv'
<1> SUFFICES ASSUME SCALE = 1, Inv, Tick PROVE Inv'
  OBVIOUS
<1>1. TypeOK'
  BY DEF Inv, TypeOK, Tick
<1>2. ASSUME NEW p \in Pcb, place'[p] # "free"
      PROVE  (Accounted(p)' - used'[p]) % (2 * HALF) = 0
  <2>1. (Accounted(p) - used[p]) % (2 * HALF) = 0
    BY <1>2 DEF Inv, TimeAccounted, Tick
  <2>2. CASE inTurn /\ currentProcess = p
    <3>1. PICK k \in Int : STCK = now + M * k
      BY ClockReading DEF Inv, TypeOK
    <3>2. PICK j \in Int : STCK' = now' + M * j
      <4>1. now' \in Nat
        BY <1>1 DEF TypeOK
      <4>2. STCK' = Quotient(Wrap(now'), SCALE)
        BY DEF STCK
      <4>3. /\ Wrap(now') \in cpu_t
            /\ \E i \in Int : Wrap(now') = now' + M * i
        BY <4>1, WrapSame
      <4>4. Wrap(now') \in Int
        BY <4>3, ClockAssumption DEF cpu_t
      <4>5. Quotient(Wrap(now'), 1) = Wrap(now')
        BY <4>4 DEF Quotient
      <4> QED
        BY <4>2, <4>3, <4>5
    <3>3. /\ p_totalTime[p] \in Int /\ processStartTime \in Int
          /\ used[p] \in Int /\ now \in Int /\ M \in Int
      BY ClockAssumption DEF Inv, TypeOK, cpu_t, M
    <3>4. /\ Accounted(p) = p_totalTime[p] + (STCK - processStartTime)
          /\ Accounted(p)' = p_totalTime[p] + (STCK' - processStartTime)
          /\ used'[p] = used[p] + 1 /\ now' = now + 1
      BY <2>2 DEF Accounted, Tick, Inv, TypeOK
    <3>5. Accounted(p)' - used'[p] = (Accounted(p) - used[p]) + M * (j - k)
      <4>1. M * j \in Int /\ M * k \in Int /\ M * (j - k) = M * j - M * k
        BY <3>1, <3>2, <3>3
      <4>2. STCK' - STCK = 1 + M * (j - k)
        BY <4>1, <3>1, <3>2, <3>3, <3>4
      <4>3. STCK \in Int /\ STCK' \in Int
        BY <4>1, <3>1, <3>2, <3>3, <3>4
      <4>4. ASSUME NEW d \in Int, STCK' - STCK = 1 + d
            PROVE  Accounted(p)' - used'[p] = (Accounted(p) - used[p]) + d
        <5>1. /\ p_totalTime[p] + (STCK' - processStartTime) =
                    p_totalTime[p] + (STCK - processStartTime) + 1 + d
          BY <4>3, <4>4, <3>3
        <5>2. Accounted(p)' = Accounted(p) + 1 + d /\ Accounted(p) \in Int
          BY <5>1, <4>3, <3>3, <3>4
        <5> QED
          BY <5>2, <3>3, <3>4
      <4>5. M * (j - k) \in Int
        BY <4>1
      <4> QED
        BY <4>2, <4>4, <4>5
    <3>6. /\ Accounted(p) - used[p] \in Int /\ Accounted(p)' - used'[p] \in Int
          /\ j - k \in Int
      BY <3>1, <3>2, <3>3, <3>4
    <3> QED
      BY <2>1, <3>5, <3>6, SameDebt
  <2>3. CASE ~(inTurn /\ currentProcess = p)
    <3>1. Accounted(p)' = Accounted(p) /\ used'[p] = used[p]
      BY <2>3 DEF Accounted, Tick, Inv, TypeOK
    <3> QED
      BY <2>1, <3>1
  <2> QED
    BY <2>2, <2>3
<1>3. /\ inTurn' => place'[currentProcess'] = "processor"
      /\ ~inTurn' /\ currentProcess' # NULL =>
             place'[currentProcess'] \in {"free", "ready"}
  BY DEF Inv, Tick
<1> QED
  BY <1>1, <1>2, <1>3 DEF Inv, TimeAccounted

LEMMA DispatchInv ==
    ASSUME SCALE = 1, Inv, NEW p \in Pcb, Dispatch(p)
    PROVE  Inv'
<1>1. STCK \in cpu_t /\ STCK \in Int
  BY ClockReading, ClockAssumption DEF Inv, TypeOK, cpu_t
<1>2. TypeOK'
  BY <1>1 DEF Inv, TypeOK, Dispatch, Place
<1>3. STCK' = STCK
  BY DEF STCK, Dispatch
<1>4. \A q \in Pcb : place'[q] # "free" =>
          place[q] # "free" /\ Accounted(q)' = Accounted(q)
  <2> SUFFICES ASSUME NEW q \in Pcb, place'[q] # "free"
               PROVE  place[q] # "free" /\ Accounted(q)' = Accounted(q)
    OBVIOUS
  <2>1. place[q] # "free"
    BY DEF Dispatch, Inv, TypeOK
  <2>2. Accounted(q) = p_totalTime[q] + 0
    BY DEF Accounted, Dispatch
  <2>3. Accounted(q)' = p_totalTime[q] + 0
    BY <1>1, <1>3 DEF Accounted, Dispatch
  <2> QED
    BY <2>1, <2>2, <2>3
<1>5. TimeAccounted'
  BY <1>4, SameAccounts DEF Inv, Dispatch
<1>6. inTurn' /\ place'[currentProcess'] = "processor"
  BY DEF Dispatch, Inv, TypeOK
<1> QED
  BY <1>2, <1>5, <1>6 DEF Inv

LEMMA BlockInv == SCALE = 1 /\ Inv /\ Block => Inv'
<1> SUFFICES ASSUME SCALE = 1, Inv, Block PROVE Inv'
  OBVIOUS
<1>1. \A p \in Pcb : place'[p] # "free" => place[p] # "free"
  BY DEF Block, Inv, TypeOK
<1>2. p_totalTime' \in [Pcb -> cpu_t] /\ TimeAccounted'
  BY <1>1, EndOfTurn DEF Block
<1>3. TypeOK'
  BY <1>2 DEF Inv, TypeOK, Block, Place
<1> QED
  BY <1>2, <1>3 DEF Inv, Block

LEMMA PreemptInv == SCALE = 1 /\ Inv /\ Preempt => Inv'
<1> SUFFICES ASSUME SCALE = 1, Inv, Preempt PROVE Inv'
  OBVIOUS
<1>1. \A p \in Pcb : place'[p] # "free" => place[p] # "free"
  BY DEF Preempt, Inv, TypeOK
<1>2. p_totalTime' \in [Pcb -> cpu_t] /\ TimeAccounted'
  BY <1>1, EndOfTurn DEF Preempt
<1>3. TypeOK'
  BY <1>2 DEF Inv, TypeOK, Preempt, Place
<1>4. ~inTurn' /\ place'[currentProcess'] = "ready"
  BY DEF Preempt, Inv, TypeOK
<1> QED
  BY <1>2, <1>3, <1>4 DEF Inv

(* What is charged on the idle path is charged to a pcb that is free.      *)
LEMMA PreemptIdleInv == SCALE = 1 /\ Inv /\ PreemptIdle => Inv'
<1> SUFFICES ASSUME SCALE = 1, Inv, PreemptIdle PROVE Inv'
  OBVIOUS
<1>1. currentProcess # NULL =>
          currentProcess \in Pcb /\ place[currentProcess] = "free"
  BY DEF PreemptIdle, Idle, Inv, TypeOK
<1>2. currentProcess # NULL => TotalTime \in cpu_t
  <2> SUFFICES ASSUME currentProcess \in Pcb PROVE TotalTime \in cpu_t
    BY <1>1
  <2>1. /\ p_totalTime[currentProcess] \in Int
        /\ STCK \in Int /\ processStartTime \in Int
    BY ClockReading, ClockAssumption DEF Inv, TypeOK, cpu_t
  <2> QED
    BY <2>1, WrapSame DEF TotalTime
<1>3. TypeOK'
  BY <1>1, <1>2 DEF Inv, TypeOK, PreemptIdle, IncrementProcessTime
<1>4. ~inTurn /\ ~inTurn' /\ UNCHANGED <<now, place, used>>
  BY DEF PreemptIdle, Idle
<1>5. \A q \in Pcb : place'[q] # "free" => Accounted(q)' = Accounted(q)
  <2> SUFFICES ASSUME NEW q \in Pcb, place[q] # "free"
               PROVE  Accounted(q)' = Accounted(q)
    BY <1>4
  <2>1. p_totalTime'[q] = p_totalTime[q]
    BY <1>1 DEF PreemptIdle, IncrementProcessTime, Inv, TypeOK
  <2> QED
    BY <1>4, <2>1 DEF Accounted
<1>6. TimeAccounted'
  BY <1>4, <1>5, SameAccounts DEF Inv
<1> QED
  BY <1>3, <1>4, <1>6 DEF Inv, PreemptIdle

LEMMA SchedulerNullInv == Inv /\ SchedulerNull => Inv'
<1> SUFFICES ASSUME Inv, SchedulerNull PROVE Inv'
  OBVIOUS
<1>1. TypeOK'
  BY DEF Inv, TypeOK, SchedulerNull, Idle
<1>2. ~inTurn /\ ~inTurn' /\ UNCHANGED <<now, place, p_totalTime, used>>
  BY DEF SchedulerNull, Idle
<1>3. TimeAccounted'
  BY <1>2, SameAccounts DEF Inv, Accounted
<1> QED
  BY <1>1, <1>2, <1>3 DEF Inv, SchedulerNull

LEMMA WakeInv ==
    ASSUME Inv, NEW p \in Pcb, Wake(p)
    PROVE  Inv'
<1>1. TypeOK'
  BY DEF Inv, TypeOK, Wake, Place
<1>2. \A q \in Pcb : place'[q] # "free" =>
          place[q] # "free" /\ Accounted(q)' = Accounted(q)
  BY DEF Wake, Inv, TypeOK, Accounted, STCK
<1>3. TimeAccounted'
  BY <1>2, SameAccounts DEF Inv, Wake
<1>4. /\ inTurn' => place'[currentProcess'] = "processor"
      /\ ~inTurn' /\ currentProcess' # NULL =>
             place'[currentProcess'] \in {"free", "ready"}
  BY DEF Wake, Inv, TypeOK
<1> QED
  BY <1>1, <1>3, <1>4 DEF Inv

LEMMA CreateInv ==
    ASSUME Inv, NEW p \in Pcb, CreateProcess(p)
    PROVE  Inv'
<1>1. 0 \in cpu_t /\ M \in Nat \ {0}
  BY ClockAssumption DEF cpu_t, M
<1>2. TypeOK'
  BY <1>1 DEF Inv, TypeOK, CreateProcess, Place, Never
<1>3. p # currentProcess
  BY DEF Inv, CreateProcess
<1>4. ASSUME NEW q \in Pcb, place'[q] # "free"
      PROVE  (Accounted(q)' - used'[q]) % (2 * HALF) = 0
  <2>1. CASE q = p
    <3>1. Accounted(q)' - used'[q] = 0
      BY <1>3, <2>1 DEF Accounted, CreateProcess, Inv, TypeOK
    <3>2. 0 % M = 0
      BY <1>1, Multiple
    <3> QED
      BY <3>1, <3>2 DEF M
  <2>2. CASE q # p
    <3>1. Accounted(q)' = Accounted(q) /\ used'[q] = used[q]
      BY <2>2 DEF Accounted, CreateProcess, Inv, TypeOK, STCK
    <3>2. place[q] # "free"
      BY <1>4, <2>2 DEF CreateProcess, Inv, TypeOK
    <3> QED
      BY <3>1, <3>2 DEF Inv, TimeAccounted
  <2> QED
    BY <2>1, <2>2
<1>5. inTurn' /\ place'[currentProcess'] = "processor"
  BY <1>3 DEF CreateProcess, Inv, TypeOK
<1> QED
  BY <1>2, <1>4, <1>5 DEF Inv, TimeAccounted

LEMMA TerminateInv == Inv /\ TerminateProcess => Inv'
<1> SUFFICES ASSUME Inv, TerminateProcess PROVE Inv'
  OBVIOUS
<1>1. TypeOK' /\ ~inTurn' /\ place'[currentProcess'] = "free"
  BY DEF Inv, TypeOK, TerminateProcess, Place
<1>2. \A q \in Pcb : place'[q] # "free" =>
          place[q] # "free" /\ Accounted(q)' = Accounted(q)
  BY DEF TerminateProcess, Inv, TypeOK, Accounted
<1>3. TimeAccounted'
  BY <1>2, SameAccounts DEF Inv, TerminateProcess
<1> QED
  BY <1>1, <1>3 DEF Inv

LEMMA GetCpuTimeInv == SCALE = 1 /\ Inv /\ GetCpuTime => Inv'
<1> SUFFICES ASSUME SCALE = 1, Inv, GetCpuTime PROVE Inv'
  OBVIOUS
<1>1. TotalTime \in cpu_t
  BY TotalTimeSame DEF GetCpuTime
<1>2. TypeOK'
  BY <1>1 DEF Inv, TypeOK, GetCpuTime
<1>3. \A q \in Pcb : place'[q] # "free" =>
          place[q] # "free" /\ Accounted(q)' = Accounted(q)
  BY DEF GetCpuTime, Accounted, STCK
<1>4. TimeAccounted'
  BY <1>3, SameAccounts DEF Inv, GetCpuTime
<1> QED
  BY <1>2, <1>4 DEF Inv, GetCpuTime

-----------------------------------------------------------------------------
THEOREM NextInv == SCALE = 1 /\ Inv /\ [Next]_vars => Inv'
<1> SUFFICES ASSUME SCALE = 1, Inv, [Next]_vars PROVE Inv'
  OBVIOUS
<1>1. CASE Tick
  BY <1>1, TickInv
<1>2. CASE Block
  BY <1>2, BlockInv
<1>3. CASE Preempt
  BY <1>3, PreemptInv
<1>4. CASE TerminateProcess
  BY <1>4, TerminateInv
<1>5. CASE GetCpuTime
  BY <1>5, GetCpuTimeInv
<1>6. ASSUME NEW p \in Pcb, Dispatch(p)  PROVE Inv'
  BY <1>6, DispatchInv
<1>7. ASSUME NEW p \in Pcb, Wake(p)  PROVE Inv'
  BY <1>7, WakeInv
<1>8. ASSUME NEW p \in Pcb, CreateProcess(p)  PROVE Inv'
  BY <1>8, CreateInv
<1>9. CASE UNCHANGED vars
  BY <1>9 DEF Inv, TypeOK, TimeAccounted, Accounted, STCK, vars
<1>10. CASE PreemptIdle \/ SchedulerNull
  BY <1>10, PreemptIdleInv, SchedulerNullInv
<1> QED
  BY <1>1, <1>2, <1>3, <1>4, <1>5, <1>6, <1>7, <1>8, <1>9, <1>10
     DEF Next, Step, Rest

(* With one clock tick per microsecond, for any width of cpu_t: what a     *)
(* process is accounted for is the time it had the processor for.          *)
THEOREM TimeIsAccounted ==
    ASSUME SCALE = 1
    PROVE  Spec => [](TypeOK /\ TimeAccounted)
<1>1. Init => Inv
  BY InitInv
<1>2. Inv /\ [Next]_vars => Inv'
  BY NextInv
<1>3. Inv => TypeOK /\ TimeAccounted
  BY DEF Inv
<1> QED
  BY <1>1, <1>2, <1>3, PTL DEF Spec
-----------------------------------------------------------------------------
(* Types, at any time scale.                                               *)

(* C's quotient is no farther from 0 than what is divided.                 *)
LEMMA QuotientBound ==
    ASSUME NEW x \in Nat, NEW d \in Nat \ {0}
    PROVE  x \div d \in 0 .. x
<1> DEFINE q == x \div d
<1>1. x % d \in 0 .. d - 1 /\ q \in Int /\ x = d * q + (x % d)
  BY Remainder
<1> HIDE DEF q
<1>2. ~(q <= -1)
  <2> SUFFICES ASSUME q <= -1 PROVE FALSE
    OBVIOUS
  <2>1. d * q <= -d
    BY <1>1
  <2> QED
    BY <2>1, <1>1
<1>3. q >= 0 => d * q >= q
  BY <1>1
<1>4. q <= x
  BY <1>1, <1>2, <1>3
<1>5. q \in 0 .. x
  BY <1>1, <1>2, <1>4
<1> QED
  BY <1>5 DEF q

LEMMA ClockType ==
    ASSUME now \in Nat
    PROVE  STCK \in cpu_t
<1>1. HALF \in Nat \ {0} /\ SCALE \in Nat \ {0}
  BY ClockAssumption
<1> DEFINE w == Wrap(now)
<1>2. w \in cpu_t
  BY WrapSame
<1> HIDE DEF w
<1>3. CASE w >= 0
  <2>1. w \in Nat /\ w \div SCALE \in 0 .. w
    BY <1>1, <1>2, <1>3, QuotientBound DEF cpu_t
  <2>2. Quotient(w, SCALE) \in cpu_t
    BY <2>1, <1>1, <1>2, <1>3 DEF Quotient, cpu_t
  <2> QED
    BY <2>2 DEF STCK, w
<1>4. CASE ~(w >= 0)
  <2>1. -w \in Nat /\ (-w) \div SCALE \in 0 .. -w
    BY <1>1, <1>2, <1>4, QuotientBound DEF cpu_t
  <2>2. Quotient(w, SCALE) \in cpu_t
    BY <2>1, <1>1, <1>2, <1>4 DEF Quotient, cpu_t
  <2> QED
    BY <2>2 DEF STCK, w
<1> QED
  BY <1>3, <1>4

LEMMA TotalType ==
    ASSUME TypeOK, currentProcess \in Pcb
    PROVE  TotalTime \in cpu_t
<1>1. /\ p_totalTime[currentProcess] \in Int
      /\ STCK \in Int /\ processStartTime \in Int
  BY ClockType, ClockAssumption DEF TypeOK, cpu_t
<1> QED
  BY <1>1, WrapSame DEF TotalTime

(* Types are kept whatever the time scale is.                              *)
LEMMA NextType == TypeOK /\ [Next]_vars => TypeOK'
<1> SUFFICES ASSUME TypeOK, [Next]_vars PROVE TypeOK'
  OBVIOUS
<1>1. STCK \in cpu_t /\ 0 \in cpu_t
  BY ClockType, ClockAssumption DEF TypeOK, cpu_t
<1>2. currentProcess \in Pcb => TotalTime \in cpu_t
  BY TotalType
<1>3. CASE Tick
  BY <1>3 DEF TypeOK, Tick
<1>4. CASE Block
  BY <1>2, <1>4 DEF TypeOK, Block, IncrementProcessTime, Place
<1>5. CASE Preempt
  BY <1>2, <1>5 DEF TypeOK, Preempt, IncrementProcessTime, Place
<1>6. CASE TerminateProcess
  BY <1>6 DEF TypeOK, TerminateProcess, Place
<1>7. CASE GetCpuTime
  BY <1>2, <1>7 DEF TypeOK, GetCpuTime
<1>8. ASSUME NEW p \in Pcb, Dispatch(p)  PROVE TypeOK'
  BY <1>1, <1>8 DEF TypeOK, Dispatch, Place
<1>9. ASSUME NEW p \in Pcb, Wake(p)  PROVE TypeOK'
  BY <1>9 DEF TypeOK, Wake, Place
<1>10. ASSUME NEW p \in Pcb, CreateProcess(p)  PROVE TypeOK'
  BY <1>1, <1>10 DEF TypeOK, CreateProcess, Place, Never
<1>11. CASE UNCHANGED vars
  BY <1>11 DEF TypeOK, vars
<1>12. CASE PreemptIdle
  BY <1>2, <1>12 DEF TypeOK, PreemptIdle, Idle, IncrementProcessTime
<1>13. CASE SchedulerNull
  BY <1>13 DEF TypeOK, SchedulerNull, Idle
<1> QED
  BY <1>3, <1>4, <1>5, <1>6, <1>7, <1>8, <1>9, <1>10, <1>11, <1>12,
     <1>13
     DEF Next, Step, Rest

(* Every clock reading and every total fits a cpu_t, at any time scale,    *)
(* and there is a process to account the turn to.                          *)
THEOREM CpuTimeTypes == Spec => []TypeOK
<1>1. Init => TypeOK
  BY InitInv DEF Inv
<1>2. TypeOK /\ [Next]_vars => TypeOK'
  BY NextType
<1> QED
  BY <1>1, <1>2, PTL DEF Spec

-----------------------------------------------------------------------------
(* Two SYS6 of a process.                                                  *)

(* The low bits of a number a cpu_t can hold are the number.               *)
LEMMA WrapExact ==
    ASSUME NEW d \in cpu_t, NEW k \in Int
    PROVE  Wrap(d + M * k) = d
<1>1. HALF \in Nat \ {0} /\ M \in Nat \ {0} /\ d \in Int /\ M = 2 * HALF
  BY ClockAssumption DEF M, cpu_t
<1>2. M * k \in Int /\ d + M * k \in Int
  BY <1>1
<1> DEFINE w == Wrap(d + M * k)
<1>3. w \in cpu_t /\ \E j \in Int : w = (d + M * k) + M * j
  BY <1>2, WrapSame
<1> HIDE DEF w
<1>4. PICK j \in Int : w = (d + M * k) + M * j
  BY <1>3
<1>5. w - d = M * (k + j) /\ k + j \in Int
  BY <1>1, <1>3, <1>4
<1>6. w - d < M /\ w - d > -M
  BY <1>1, <1>3 DEF cpu_t
<1> DEFINE i == k + j
<1>7. i \in Int /\ w - d = M * i
  BY <1>5
<1> HIDE DEF i
<1>8. ~(i >= 1)
  <2>1. i >= 1 => M * i >= M
    BY <1>1, <1>7
  <2> QED
    BY <2>1, <1>1, <1>6, <1>7
<1>9. ~(i <= -1)
  <2>1. i <= -1 => M * i <= -M
    BY <1>1, <1>7
  <2> QED
    BY <2>1, <1>1, <1>6, <1>7
<1>10. i = 0
  BY <1>7, <1>8, <1>9
<1>11. w - d = 0 /\ w \in Int
  BY <1>1, <1>3, <1>7, <1>10 DEF cpu_t
<1>12. w = d
  BY <1>1, <1>11
<1> QED
  BY <1>12 DEF w

(* The last SYS6 of p returned u, the time p had had the processor for;    *)
(* since then it has had it for no longer than has gone by.                *)
SeenAt(p, u) ==
    /\ u <= used[p]
    /\ seen[p].at \in 0 .. now
    /\ used[p] - u <= now - seen[p].at
    /\ (seen[p].value - u) % M = 0

SeenInv == \A p \in Pcb : seen[p] # Never => \E u \in Nat : SeenAt(p, u)

LEMMA SeenInit == Init => SeenInv
  BY DEF Init, SeenInv

(* A step that makes no SYS6 leaves what was seen, or clears it.           *)
LEMMA SeenKept ==
    ASSUME Inv, SeenInv,
           now' = now, NEW P \in SUBSET Pcb,
           \A p \in P : seen'[p] = Never,
           \A p \in Pcb \ P : seen'[p] = seen[p] /\ used'[p] = used[p]
    PROVE  SeenInv'
<1> SUFFICES ASSUME NEW p \in Pcb, seen'[p] # Never
             PROVE  \E u \in Nat : SeenAt(p, u)'
  BY DEF SeenInv, Never
<1>1. seen'[p] = seen[p] /\ used'[p] = used[p]
  OBVIOUS
<1>2. PICK u \in Nat : SeenAt(p, u)
  BY <1>1 DEF SeenInv
<1>3. SeenAt(p, u)'
  BY <1>1, <1>2 DEF SeenAt, M
<1> QED
  BY <1>3

LEMMA SeenTick == Inv /\ SeenInv /\ Tick => SeenInv'
<1> SUFFICES ASSUME Inv, SeenInv, Tick, NEW p \in Pcb, seen'[p] # Never
             PROVE  \E u \in Nat : SeenAt(p, u)'
  BY DEF SeenInv, Never
<1>1. seen' = seen /\ now' = now + 1 /\ now \in Nat /\ used \in [Pcb -> Nat]
  BY DEF Tick, Inv, TypeOK
<1>2. used'[p] = used[p] \/ used'[p] = used[p] + 1
  BY <1>1 DEF Tick
<1>3. PICK u \in Nat : SeenAt(p, u)
  BY <1>1 DEF SeenInv
<1>4. seen[p].at \in Int /\ used[p] \in Nat
  BY <1>1, <1>3 DEF SeenAt
<1>5. SeenAt(p, u)'
  BY <1>1, <1>2, <1>3, <1>4 DEF SeenAt, M
<1> QED
  BY <1>5

(* What SYS6 returns is the time its caller had the processor for, but for *)
(* the range of cpu_t.                                                     *)
LEMMA Returned ==
    ASSUME SCALE = 1, Inv, GetCpuTime
    PROVE  (TotalTime - used[currentProcess]) % M = 0
<1>1. /\ currentProcess \in Pcb /\ TotalTime \in cpu_t
      /\ Accounted(currentProcess) \in Int
  BY TotalTimeSame DEF GetCpuTime
<1>2. PICK k \in Int : TotalTime = Accounted(currentProcess) + M * k
  BY TotalTimeSame DEF GetCpuTime
<1>3. (Accounted(currentProcess) - used[currentProcess]) % (2 * HALF) = 0
  BY <1>1 DEF Inv, TimeAccounted, GetCpuTime
<1>4. used[currentProcess] \in Int /\ TotalTime \in Int /\ M * k \in Int
  BY <1>1, ClockAssumption DEF Inv, TypeOK, cpu_t, M
<1>5. TotalTime - used[currentProcess] =
        (Accounted(currentProcess) - used[currentProcess]) + M * k
  BY <1>1, <1>2, <1>4
<1>6. /\ TotalTime - used[currentProcess] \in Int
      /\ Accounted(currentProcess) - used[currentProcess] \in Int
  BY <1>1, <1>4
<1>7. (TotalTime - used[currentProcess]) % (2 * HALF) = 0
  BY <1>3, <1>5, <1>6, SameDebt
<1> QED
  BY <1>7 DEF M

LEMMA SeenGet == SCALE = 1 /\ Inv /\ SeenInv /\ GetCpuTime => SeenInv'
<1> SUFFICES ASSUME SCALE = 1, Inv, SeenInv, GetCpuTime,
                    NEW p \in Pcb, seen'[p] # Never
             PROVE  \E u \in Nat : SeenAt(p, u)'
  BY DEF SeenInv, Never
<1>1. /\ now' = now /\ used' = used /\ now \in Nat /\ used[p] \in Nat
      /\ seen' = [seen EXCEPT ![currentProcess] =
                                 [value |-> TotalTime, at |-> now]]
      /\ DOMAIN seen = Pcb
  BY DEF GetCpuTime, Inv, TypeOK
<1>2. CASE p = currentProcess
  <2>1. seen'[p].at = now /\ seen'[p].value = TotalTime
    BY <1>1, <1>2
  <2>2. (TotalTime - used[p]) % M = 0
    BY <1>2, Returned
  <2>3. SeenAt(p, used[p])'
    BY <1>1, <2>1, <2>2 DEF SeenAt, M
  <2> QED
    BY <1>1, <2>3
<1>3. CASE p # currentProcess
  <2>1. seen'[p] = seen[p]
    BY <1>1, <1>3
  <2>2. PICK u \in Nat : SeenAt(p, u)
    BY <2>1 DEF SeenInv
  <2>3. SeenAt(p, u)'
    BY <1>1, <2>1, <2>2 DEF SeenAt, M
  <2> QED
    BY <2>3
<1> QED
  BY <1>2, <1>3

(* The step of SYS6 itself.                                                *)
Grows(p) ==
    LET elapsed == seen'[p].at - seen[p].at
    IN  seen[p] # Never /\ seen'[p] # Never /\ elapsed < HALF =>
            Wrap(seen'[p].value - seen[p].value) \in 0 .. elapsed

LEMMA GrowsUnseen ==
    ASSUME Inv, NEW p \in Pcb, seen'[p] = seen[p] \/ seen'[p] = Never
    PROVE  Grows(p)
<1> SUFFICES ASSUME seen'[p] = seen[p]
             PROVE  Wrap(seen'[p].value - seen[p].value)
                        \in 0 .. seen'[p].at - seen[p].at
  BY DEF Grows
<1>1. seen[p].value \in Int /\ seen[p].at \in Int
  BY ClockAssumption DEF Inv, TypeOK, cpu_t
<1>2. 0 \in cpu_t /\ 0 \in Int /\ M * 0 = 0 /\ 0 + 0 = 0
  BY ClockAssumption DEF cpu_t, M
<1>3. Wrap(0 + M * 0) = 0
  BY <1>2, WrapExact
<1>4. seen'[p].value - seen[p].value = 0 /\ seen'[p].at - seen[p].at = 0
  BY <1>1
<1>5. Wrap(seen'[p].value - seen[p].value) = Wrap(0)
  BY <1>4
<1>6. Wrap(0) = 0
  BY <1>2, <1>3
<1>7. 0 \in 0 .. 0
  OBVIOUS
<1> QED
  BY <1>4, <1>5, <1>6, <1>7

LEMMA GrowsSeen ==
    ASSUME SCALE = 1, Inv, SeenInv, GetCpuTime
    PROVE  Grows(currentProcess)
<1> DEFINE p == currentProcess
           elapsed == seen'[p].at - seen[p].at
<1> SUFFICES ASSUME seen[p] # Never, elapsed < HALF
             PROVE  Wrap(seen'[p].value - seen[p].value) \in 0 .. elapsed
  BY DEF Grows
<1>1. /\ p \in Pcb /\ TotalTime \in Int /\ used[p] \in Nat /\ now \in Nat
      /\ seen[p].value \in Int /\ HALF \in Nat \ {0} /\ M \in Nat \ {0}
  BY TotalTimeSame, ClockAssumption DEF Inv, TypeOK, GetCpuTime, cpu_t, M
<1>2. seen'[p].at = now /\ seen'[p].value = TotalTime
  BY <1>1 DEF GetCpuTime, Inv, TypeOK
<1>3. PICK u \in Nat : SeenAt(p, u)
  BY <1>1 DEF SeenInv
<1>4. /\ u <= used[p] /\ seen[p].at \in 0 .. now
      /\ used[p] - u <= now - seen[p].at
      /\ (seen[p].value - u) % M = 0
  BY <1>3 DEF SeenAt
<1>5. seen[p].value - u \in Int /\ TotalTime - used[p] \in Int
  BY <1>1
<1>6. PICK i \in Int : seen[p].value - u = M * i
  BY <1>1, <1>4, <1>5, Multiple
<1>7. (TotalTime - used[p]) % M = 0
  BY Returned
<1>8. PICK j \in Int : TotalTime - used[p] = M * j
  BY <1>1, <1>5, <1>7, Multiple
<1> DEFINE d == used[p] - u
           k == j - i
<1>9. d \in 0 .. elapsed /\ elapsed = now - seen[p].at
  BY <1>1, <1>2, <1>4
<1>10. d \in cpu_t
  BY <1>1, <1>2, <1>4, <1>9 DEF cpu_t
<1>11. k \in Int /\ M * k = M * j - M * i /\ M * j \in Int /\ M * i \in Int
  BY <1>1, <1>6, <1>8
<1>12. TotalTime - seen[p].value = d + M * k
  BY <1>1, <1>6, <1>8, <1>11
<1>13. Wrap(d + M * k) = d
  BY <1>10, <1>11, WrapExact
<1>14. Wrap(seen'[p].value - seen[p].value) = d
  BY <1>2, <1>12, <1>13
<1> QED
  BY <1>9, <1>14

LEMMA SeenNext ==
    ASSUME SCALE = 1, Inv, SeenInv, [Next]_vars
    PROVE  SeenInv' /\ \A p \in Pcb : Grows(p)
<1>1. CASE GetCpuTime
  <2>1. SeenInv'
    BY <1>1, SeenGet
  <2>2. ASSUME NEW p \in Pcb  PROVE Grows(p)
    <3>1. CASE p = currentProcess
      BY <1>1, <3>1, GrowsSeen
    <3>2. CASE p # currentProcess
      <4>1. seen'[p] = seen[p]
        BY <1>1, <3>2 DEF GetCpuTime, Inv, TypeOK
      <4> QED
        BY <4>1, GrowsUnseen
    <3> QED
      BY <3>1, <3>2
  <2> QED
    BY <2>1, <2>2
<1>2. CASE Tick
  <2>1. seen' = seen
    BY <1>2 DEF Tick
  <2> QED
    BY <1>2, <2>1, SeenTick, GrowsUnseen
<1>3. CASE now' = now /\ seen' = seen /\ used' = used
  <2>1. SeenInv'
    <3>1. {} \in SUBSET Pcb /\ \A p \in {} : seen'[p] = Never
      OBVIOUS
    <3>2. \A p \in Pcb \ {} : seen'[p] = seen[p] /\ used'[p] = used[p]
      BY <1>3
    <3> QED
      BY <1>3, <3>1, <3>2, SeenKept
  <2> QED
    BY <1>3, <2>1, GrowsUnseen
<1>4. ASSUME NEW q \in Pcb, CreateProcess(q)  PROVE SeenInv' /\ \A p \in Pcb : Grows(p)
  <2>1. /\ now' = now /\ seen'[q] = Never
        /\ \A p \in Pcb \ {q} : seen'[p] = seen[p] /\ used'[p] = used[p]
    BY <1>4 DEF CreateProcess, Inv, TypeOK
  <2>2. SeenInv'
    <3>1. {q} \in SUBSET Pcb /\ \A p \in {q} : seen'[p] = Never
      BY <2>1
    <3> QED
      BY <2>1, <3>1, SeenKept
  <2> QED
    BY <2>1, <2>2, GrowsUnseen
<1>5. \/ GetCpuTime \/ Tick \/ \E q \in Pcb : CreateProcess(q)
      \/ now' = now /\ seen' = seen /\ used' = used
  BY DEF Next, Step, Rest, vars, Block, Preempt, PreemptIdle, SchedulerNull,
         TerminateProcess, Dispatch, Wake
<1> QED
  BY <1>1, <1>2, <1>3, <1>4, <1>5

(* With one clock tick per microsecond: between two SYS6 of a process its  *)
(* time grows, by no more than the time of day does, however many turns    *)
(* and wraps of the clock's low word lie between them.                     *)
THEOREM GrowsWithRealTime ==
    ASSUME SCALE = 1
    PROVE  Spec => NoMoreThanRealTime
<1>1. Init => Inv /\ SeenInv
  BY InitInv, SeenInit
<1>2. Inv /\ SeenInv /\ [Next]_vars => (Inv /\ SeenInv)'
  BY NextInv, SeenNext
<1>3. Inv /\ SeenInv /\ [Next]_vars =>
        [\A p \in Pcb :
          LET elapsed == seen'[p].at - seen[p].at
          IN  seen[p] # Never /\ seen'[p] # Never /\ elapsed < HALF =>
                  Wrap(seen'[p].value - seen[p].value) \in 0 .. elapsed]_vars
  BY SeenNext DEF Grows
<1> QED
  BY <1>1, <1>2, <1>3, PTL DEF Spec, NoMoreThanRealTime
=============================================================================
