---------------------------- MODULE UserExclusion ----------------------------
(***************************************************************************)
(* The mutexes and the master semaphore of the support level, for any      *)
(* number of processes, frames and pages: nobody forgets a V, and test()   *)
(* waits for everybody.  The programs are taken to use pages that the page *)
(* tables have an index for: the handler of a fault on the stack page may  *)
(* trap with the swap mutex held.                                          *)
(*                                                                         *)
(* Then what the swap mutex protects, the frame pool and the page tables:  *)
(* they describe each other, and a fault is served.  Process 1 is taken to *)
(* use no shared page: for it the handler reads a valid bit that nobody    *)
(* ever set.                                                               *)
(***************************************************************************)
EXTENDS UserProcs, SequenceTheorems, FiniteSetTheorems, TLAPS

PagesInTables ==
    /\ \A a \in Asid : \A x \in Touches[a] : x.page \in Index
    /\ \A k \in 1 .. Len(String) : String[k].page \in Index

SharedMutex == {swapmutex, disk0}

TestPoint == {<<"test", "create">>, <<"test", "P">>, <<"test", "SYS2">>,
              <<"dead", "">>}
GonePoint == {<<"exit", "SYS2">>, <<"dead", "">>}
UserPoint == GonePoint \cup
    {<<"none", "">>, <<"tape", "read">>, <<"user", "run">>, <<"fault", "P">>,
     <<"fault", "find">>, <<"fault", "map">>, <<"fault", "V">>,
     <<"print", "char">>, <<"exit", "V">>, <<"lost", "">>}
    \cup (Phase \X {"P", "seek", "transfer", "V"})

(* The points between the P and the V of a mutex, and the one after the P. *)
Inside(s) ==
    IF s = swapmutex
    THEN ({"evict", "load"} \X {"P", "seek", "transfer", "V"})
         \cup ({"fault"} \X {"find", "map", "V"})
    ELSE Phase \X {"seek", "transfer", "V"}

Entering(s) == IF s = swapmutex THEN {<<"fault", "find">>}
                                ELSE Phase \X {"seek"}

In(s) == {a \in Asid : pc[a] \in Inside(s) /\ a \notin Range(waiting[s])}

-----------------------------------------------------------------------------
(* The inductive invariant.                                                *)
ProcTyped ==
    /\ pc \in [Proc -> Point] /\ pc[0] \in TestPoint
    /\ \A a \in Asid : pc[a] \in UserPoint
    /\ i \in [Proc -> Nat]

SemTyped ==
    /\ sema4 \in [Sema4 -> Int]
    /\ waiting = [s \in Sema4 |-> waiting[s]]

PagerTyped ==
    /\ old \in [Asid -> [seg : {0, KUSEG2, KUSEG3}, page : Index,
                         resume : {<<"user", "run">>, <<"print", "char">>}]]
    /\ nextFrame \in Frame
    /\ frameSwapPool \in [Frame -> {Unoccupied} \cup
           [asid : Asid, seg : {0, KUSEG2, KUSEG3}, page : Index]]

Typed == ProcTyped /\ SemTyped /\ PagerTyped

MutexOK(s) ==
    /\ waiting[s] \in Seq(Asid) /\ IsInjective(waiting[s])
    /\ \A a \in Range(waiting[s]) : pc[a] \in Entering(s)
    /\ \A a, b \in In(s) : a = b
    /\ In(s) = {} => waiting[s] = <<>>
    /\ sema4[s] = (IF In(s) = {} THEN 1 ELSE 0) - Len(waiting[s])

Gone  == {a \in Asid : pc[a] \in GonePoint}
Taken == IF pc[0] = <<"test", "P">> THEN i[0]
         ELSE IF pc[0] = <<"test", "SYS2">> THEN PROCCNT ELSE 0

(* The master semaphore: the V's of the processes less the P's of test().  *)
MasterOK ==
    /\ pc[0] \in {<<"test", "create">>, <<"test", "P">>} =>
           i[0] \in 0 .. PROCCNT - 1
    /\ pc[0] = <<"test", "create">> =>
           \A a \in Asid : a > i[0] => pc[a] = <<"none", "">>
    /\ pc[0] = <<"dead", "">> => Gone = Asid
    /\ pc[0] # <<"dead", "">> =>
           /\ sema4[masterSema4] = Cardinality(Gone) - Taken
           /\ sema4[masterSema4] >= -1
           /\ waiting[masterSema4] =
                  IF sema4[masterSema4] < 0 THEN <<0>> ELSE <<>>

Inv == Typed /\ (\A s \in SharedMutex : MutexOK(s)) /\ MasterOK

-----------------------------------------------------------------------------
(* Sequences as queues: a new last element, and one without the first.     *)
LEMMA QueueAppend ==
    ASSUME NEW S, NEW q \in Seq(S), NEW a \in S, a \notin Range(q),
           IsInjective(q)
    PROVE  /\ Append(q, a) \in Seq(S)
           /\ Len(Append(q, a)) = Len(q) + 1
           /\ Range(Append(q, a)) = Range(q) \cup {a}
           /\ IsInjective(Append(q, a))
<1> DEFINE r == Append(q, a)
<1>1. /\ r \in Seq(S) /\ Len(r) = Len(q) + 1
      /\ \A k \in 1 .. Len(q) : r[k] = q[k]
      /\ r[Len(q) + 1] = a
  BY AppendProperties
<1>2. Len(q) \in Nat /\ DOMAIN q = 1 .. Len(q)
  BY LenProperties
<1>3. DOMAIN r = 1 .. Len(r)
  BY <1>1, LenProperties
<1> HIDE DEF r
<1>4. DOMAIN r = (DOMAIN q) \cup {Len(q) + 1}
  BY <1>1, <1>2, <1>3
<1>5. Range(r) = Range(q) \cup {a}
  BY <1>1, <1>2, <1>4 DEF Range
<1>6. IsInjective(r)
  BY <1>1, <1>2, <1>4 DEF IsInjective, Range
<1> QED
  BY <1>1, <1>5, <1>6 DEF r

LEMMA QueueTail ==
    ASSUME NEW S, NEW q \in Seq(S), q # <<>>, IsInjective(q)
    PROVE  /\ Head(q) \in Range(q) /\ Head(q) \in S
           /\ Tail(q) \in Seq(S)
           /\ Len(Tail(q)) = Len(q) - 1 /\ Len(q) >= 1
           /\ Range(Tail(q)) = Range(q) \ {Head(q)}
           /\ IsInjective(Tail(q))
<1> DEFINE r == Tail(q)
<1>1. /\ Head(q) \in S /\ r \in Seq(S) /\ Len(r) = Len(q) - 1
      /\ \A k \in 1 .. Len(r) : r[k] = q[k + 1]
  BY HeadTailProperties
<1>2. /\ Len(q) \in Nat /\ Len(q) > 0 /\ Head(q) = q[1]
      /\ DOMAIN q = 1 .. Len(q)
  BY LenProperties, EmptySeq
<1>3. DOMAIN r = 1 .. Len(r)
  BY <1>1, LenProperties
<1> HIDE DEF r
<1>4. Head(q) \in Range(q)
  BY <1>2 DEF Range
<1>5. ASSUME NEW x \in Range(r)  PROVE x \in Range(q) \ {Head(q)}
  <2>1. PICK k \in 1 .. Len(r) : x = r[k]
    BY <1>3 DEF Range
  <2>2. k + 1 \in 1 .. Len(q) /\ x = q[k + 1] /\ k + 1 # 1
    BY <1>1, <1>2, <2>1
  <2> QED
    BY <1>2, <2>2 DEF Range, IsInjective
<1>6. ASSUME NEW x \in Range(q), x # Head(q)  PROVE x \in Range(r)
  <2>1. PICK k \in 1 .. Len(q) : x = q[k]
    BY <1>2 DEF Range
  <2>2. k - 1 \in 1 .. Len(r) /\ r[k - 1] = x
    BY <1>1, <1>2, <1>6, <2>1
  <2> QED
    BY <1>3, <2>2 DEF Range
<1>7. IsInjective(r)
  <2> SUFFICES ASSUME NEW k \in 1 .. Len(r), NEW l \in 1 .. Len(r),
                      r[k] = r[l]
               PROVE  k = l
    BY <1>3 DEF IsInjective
  <2>1. k + 1 \in 1 .. Len(q) /\ l + 1 \in 1 .. Len(q)
    BY <1>1, <1>2
  <2>2. q[k + 1] = q[l + 1]
    BY <1>1
  <2>3. k + 1 = l + 1
    BY <1>2, <2>1, <2>2 DEF IsInjective
  <2> QED
    BY <1>1, <1>2, <2>3
<1>8. Range(r) = Range(q) \ {Head(q)}
  <2>1. ASSUME NEW x \in Range(r)  PROVE x # Head(q)
    BY <1>5, <2>1
  <2> QED
    BY <1>5, <1>6, <2>1
<1>9. Len(q) >= 1
  BY <1>2
<1> QED
  BY <1>1, <1>4, <1>7, <1>8, <1>9 DEF r

LEMMA QueueEmpty ==
    ASSUME NEW S
    PROVE  <<>> \in Seq(S) /\ Len(<<>>) = 0 /\ Range(<<>>) = {}
           /\ IsInjective(<<>>)
  BY EmptySeq DEF Range, IsInjective

-----------------------------------------------------------------------------
(* Processes, points and semaphores are told apart.                        *)
LEMMA Processes ==
    /\ PROCCNT \in Nat /\ Asid \subseteq Proc /\ 0 \in Proc /\ 0 \notin Asid
    /\ \A a \in Asid : a \in Nat /\ a >= 1 /\ a # 0
  BY UserAssumption DEF Asid, Proc

LEMMA Semaphores ==
    /\ swapmutex \in Sema4 /\ disk0 \in Sema4 /\ masterSema4 \in Sema4
    /\ swapmutex # disk0
    /\ masterSema4 \notin SharedMutex
    /\ \A a \in Asid : /\ Terminal(a) \in Sema4 \ SharedMutex
                       /\ Terminal(a) # masterSema4
  BY Processes DEF Sema4, Mutex, SharedMutex, swapmutex, disk0, masterSema4,
                   Terminal

LEMMA Points ==
    /\ \A for \in Phase, k \in {"P", "seek", "transfer", "V"} :
           /\ <<for, k>> \in UserPoint /\ <<for, k>> \notin GonePoint
           /\ <<for, k>> # <<"none", "">>
           /\ <<for, k>> \in Inside(disk0) <=> k # "P"
           /\ <<for, k>> \in Inside(swapmutex) <=> for # "tape"
    /\ \A q \in {<<"none", "">>, <<"tape", "read">>, <<"user", "run">>,
                 <<"fault", "P">>, <<"print", "char">>, <<"exit", "V">>,
                 <<"lost", "">>} :
           q \in UserPoint /\ q \notin GonePoint
           /\ q \notin Inside(disk0) /\ q \notin Inside(swapmutex)
    /\ \A k \in {"find", "map", "V"} :
           /\ <<"fault", k>> \in UserPoint /\ <<"fault", k>> \notin GonePoint
           /\ <<"fault", k>> \notin Inside(disk0)
           /\ <<"fault", k>> \in Inside(swapmutex)
           /\ <<"fault", k>> # <<"none", "">>
    /\ \A q \in GonePoint :
           q \in UserPoint /\ q \notin Inside(disk0)
           /\ q \notin Inside(swapmutex) /\ q # <<"none", "">>
<1>1. \A f, k : <<f, k>> \in GonePoint <=> \/ (f = "exit" /\ k = "SYS2")
                                         \/ (f = "dead" /\ k = "")
  BY DEF GonePoint
<1>2. \A f, k : <<f, k>> \in Inside(disk0) <=>
                   /\ f \in {"tape", "evict", "load"}
                   /\ k \in {"seek", "transfer", "V"}
  BY DEF Inside, Phase, disk0, swapmutex
<1>3. \A f, k : <<f, k>> \in Inside(swapmutex) <=>
                   \/ /\ f \in {"evict", "load"}
                      /\ k \in {"P", "seek", "transfer", "V"}
                   \/ f = "fault" /\ k \in {"find", "map", "V"}
  BY DEF Inside
<1>4. \A f, k : <<f, k>> = <<"none", "">> <=> f = "none" /\ k = ""
  OBVIOUS
<1> HIDE DEF Inside, GonePoint, UserPoint
<1>5. ASSUME NEW for \in Phase, NEW k \in {"P", "seek", "transfer", "V"}
      PROVE  /\ <<for, k>> \in UserPoint /\ <<for, k>> \notin GonePoint
             /\ <<for, k>> # <<"none", "">>
             /\ <<for, k>> \in Inside(disk0) <=> k # "P"
             /\ <<for, k>> \in Inside(swapmutex) <=> for # "tape"
  <2>1. for \in {"tape", "evict", "load"}
    BY DEF Phase
  <2>2. <<for, k>> \in UserPoint
    BY DEF UserPoint
  <2> QED
    BY <1>1, <1>2, <1>3, <1>4, <2>1, <2>2
<1>6. ASSUME NEW q \in {<<"none", "">>, <<"tape", "read">>, <<"user", "run">>,
                 <<"fault", "P">>, <<"print", "char">>, <<"exit", "V">>,
                 <<"lost", "">>}
      PROVE  q \in UserPoint /\ q \notin GonePoint
             /\ q \notin Inside(disk0) /\ q \notin Inside(swapmutex)
  <2>1. q \in UserPoint
    BY DEF UserPoint
  <2>2. PICK f, k : q = <<f, k>> /\ <<f, k>> \in {<<"none", "">>,
                 <<"tape", "read">>, <<"user", "run">>, <<"fault", "P">>,
                 <<"print", "char">>, <<"exit", "V">>, <<"lost", "">>}
    OBVIOUS
  <2>3. \/ (f \in {"none", "lost"} /\ k = "")
        \/ (f = "tape" /\ k = "read")
        \/ (f = "user" /\ k = "run")
        \/ (f = "fault" /\ k = "P")
        \/ (f = "print" /\ k = "char")
        \/ (f = "exit" /\ k = "V")
    BY <2>2
  <2>4. <<f, k>> \notin GonePoint /\ <<f, k>> \notin Inside(disk0)
        /\ <<f, k>> \notin Inside(swapmutex)
    BY <1>1, <1>2, <1>3, <2>3
  <2> QED
    BY <2>1, <2>2, <2>4
<1>7. ASSUME NEW k \in {"find", "map", "V"}
      PROVE  /\ <<"fault", k>> \in UserPoint /\ <<"fault", k>> \notin GonePoint
             /\ <<"fault", k>> \notin Inside(disk0)
             /\ <<"fault", k>> \in Inside(swapmutex)
             /\ <<"fault", k>> # <<"none", "">>
  <2>1. <<"fault", k>> \in UserPoint
    BY DEF UserPoint
  <2>2. <<"fault", k>> \notin GonePoint
    BY <1>1
  <2>5. <<"fault", k>> \notin Inside(disk0)
    BY <1>2
  <2>3. <<"fault", k>> \in Inside(swapmutex)
    BY <1>3
  <2>4. <<"fault", k>> # <<"none", "">>
    BY <1>4
  <2> QED
    BY <2>1, <2>2, <2>3, <2>4, <2>5
<1>8. ASSUME NEW q \in GonePoint
      PROVE  q \in UserPoint /\ q \notin Inside(disk0)
             /\ q \notin Inside(swapmutex) /\ q # <<"none", "">>
  <2>1. q \in UserPoint
    BY DEF UserPoint
  <2>2. PICK f, k : /\ q = <<f, k>>
                    /\ \/ (f = "exit" /\ k = "SYS2")
                       \/ (f = "dead" /\ k = "")
    BY DEF GonePoint
  <2>3. <<f, k>> \notin Inside(disk0) /\ <<f, k>> \notin Inside(swapmutex)
        /\ <<f, k>> # <<"none", "">>
    BY <1>2, <1>3, <1>4, <2>2
  <2> QED
    BY <2>1, <2>2, <2>3
<1> QED
  BY <1>5, <1>6, <1>7, <1>8

LEMMA MorePoints ==
    /\ UserPoint \subseteq Point /\ TestPoint \subseteq Point
    /\ \A s \in SharedMutex : Entering(s) \subseteq Inside(s)
<1>1. UserPoint \subseteq Point
  BY DEF UserPoint, GonePoint, Point
<1>2. TestPoint \subseteq Point
  BY DEF TestPoint, Point
<1>3. Entering(swapmutex) \subseteq Inside(swapmutex)
  BY DEF Entering, Inside
<1>4. Entering(disk0) \subseteq Inside(disk0)
  BY DEF Entering, Inside, swapmutex, disk0
<1> QED
  BY <1>1, <1>2, <1>3, <1>4 DEF SharedMutex

-----------------------------------------------------------------------------
(* A shared mutex, under the steps of a process.                           *)
LEMMA Untouched ==
    ASSUME NEW s \in SharedMutex, MutexOK(s),
           sema4'[s] = sema4[s], waiting'[s] = waiting[s],
           \A b \in Asid : pc'[b] \in Inside(s) <=> pc[b] \in Inside(s),
           \A b \in Range(waiting[s]) : pc'[b] = pc[b]
    PROVE  MutexOK(s)'
<1>1. In(s)' = In(s)
  BY DEF In
<1> QED
  BY <1>1 DEF MutexOK

LEMMA Pass ==     \* one that has nothing to do with it
    ASSUME ProcTyped, NEW s \in SharedMutex, MutexOK(s),
           NEW a \in Asid, a \notin Range(waiting[s]), NEW q, GoTo(a, q),
           pc[a] \in Inside(s) <=> q \in Inside(s),
           sema4'[s] = sema4[s], waiting'[s] = waiting[s]
    PROVE  MutexOK(s)'
<1>1. \A b \in Asid : /\ pc'[b] \in Inside(s) <=> pc[b] \in Inside(s)
                      /\ b # a => pc'[b] = pc[b]
  BY Processes DEF GoTo, ProcTyped
<1>2. \A b \in Range(waiting[s]) : b \in Asid
  BY DEF MutexOK, Range
<1> QED
  BY <1>1, <1>2, Untouched

LEMMA Gain ==
    ASSUME ProcTyped, SemTyped, NEW s \in SharedMutex, MutexOK(s),
           NEW a \in Asid, P(a, s), pc[a] \notin Inside(s),
           NEW q \in Entering(s), GoTo(a, q)
    PROVE  MutexOK(s)'
<1>1. /\ pc'[a] = q /\ \A b \in Asid : b # a => pc'[b] = pc[b]
      /\ q \in Inside(s) /\ a \notin In(s)
  BY Processes, MorePoints DEF GoTo, ProcTyped, In
<1>2. a \notin Range(waiting[s]) /\ \A b \in Range(waiting[s]) : b \in Asid
  BY MorePoints DEF MutexOK, Range
<1>3. /\ s \in Sema4 /\ sema4[s] \in Int /\ Len(waiting[s]) \in Nat
      /\ sema4'[s] = sema4[s] - 1
  BY Semaphores, LenProperties DEF SemTyped, P, MutexOK, SharedMutex
<1>6. /\ In(s) = {} => sema4[s] = 1 /\ waiting[s] = <<>>
      /\ In(s) # {} => sema4[s] <= 0
  <2>1. Len(<<>>) = 0
    BY QueueEmpty
  <2>2. sema4[s] = (IF In(s) = {} THEN 1 ELSE 0) - Len(waiting[s])
        /\ (In(s) = {} => waiting[s] = <<>>)
    BY DEF MutexOK
  <2> QED
    BY <1>3, <2>1, <2>2
<1>4. CASE sema4[s] - 1 < 0
  <2>1. waiting'[s] = Append(waiting[s], a)
    BY <1>3, <1>4 DEF P, SemTyped
  <2>2. In(s) # {}
    BY <1>3, <1>4, <1>6
  <2>3. /\ waiting'[s] \in Seq(Asid) /\ IsInjective(waiting'[s])
        /\ Len(waiting'[s]) = Len(waiting[s]) + 1
        /\ Range(waiting'[s]) = Range(waiting[s]) \cup {a}
    BY <1>2, <2>1, QueueAppend DEF MutexOK
  <2>4. In(s)' = In(s)
    BY <1>1, <2>3 DEF In
  <2> QED
    BY <1>1, <1>2, <1>3, <2>2, <2>3, <2>4 DEF MutexOK
<1>5. CASE ~(sema4[s] - 1 < 0)
  <2>1. waiting'[s] = waiting[s] /\ In(s) = {} /\ waiting[s] = <<>>
    BY <1>3, <1>5, <1>6 DEF P
  <2>2. In(s)' = {a}
    BY <1>1, <2>1, QueueEmpty DEF In
  <2> QED
    BY <1>1, <1>2, <1>3, <2>1, <2>2, QueueEmpty DEF MutexOK
<1> QED
  BY <1>4, <1>5

LEMMA Release ==
    ASSUME ProcTyped, SemTyped, NEW s \in SharedMutex, MutexOK(s),
           NEW a \in Asid, a \in In(s), V(s),
           NEW q, q \notin Inside(s), GoTo(a, q)
    PROVE  MutexOK(s)'
<1>1. /\ pc'[a] = q /\ \A b \in Asid : b # a => pc'[b] = pc[b]
      /\ In(s) = {a} /\ a \notin Range(waiting[s])
  BY Processes DEF GoTo, ProcTyped, In, MutexOK
<1>2. \A b \in Range(waiting[s]) : b \in Asid /\ pc[b] \in Inside(s)
  BY MorePoints DEF MutexOK, Range
<1>3. /\ s \in Sema4 /\ sema4[s] \in Int /\ Len(waiting[s]) \in Nat
      /\ sema4'[s] = sema4[s] + 1 /\ sema4[s] = 0 - Len(waiting[s])
  BY <1>1, Semaphores, LenProperties DEF SemTyped, V, MutexOK, SharedMutex
<1>4. CASE sema4[s] + 1 <= 0
  <2> DEFINE h == Head(waiting[s])
  <2>1. waiting'[s] = Tail(waiting[s]) /\ waiting[s] # <<>>
    BY <1>3, <1>4, QueueEmpty DEF V, SemTyped
  <2>2. /\ h \in Range(waiting[s])
        /\ waiting'[s] \in Seq(Asid) /\ IsInjective(waiting'[s])
        /\ Len(waiting'[s]) = Len(waiting[s]) - 1
        /\ Range(waiting'[s]) = Range(waiting[s]) \ {h}
    BY <2>1, QueueTail DEF MutexOK
  <2> HIDE DEF h
  <2>3. In(s)' = {h}
    BY <1>1, <1>2, <2>2 DEF In
  <2>4. sema4'[s] = 0 - Len(waiting'[s])
    BY <1>3, <2>2
  <2>5. \A b \in Range(waiting'[s]) : pc'[b] = pc[b] /\ pc[b] \in Entering(s)
    BY <1>1, <1>2, <2>2 DEF MutexOK
  <2> QED
    BY <2>2, <2>3, <2>4, <2>5 DEF MutexOK
<1>5. CASE ~(sema4[s] + 1 <= 0)
  <2>1. waiting'[s] = waiting[s] /\ Len(waiting[s]) = 0
    BY <1>3, <1>5 DEF V
  <2>2. waiting[s] = <<>>
    BY <2>1, EmptySeq DEF MutexOK
  <2>3. In(s)' = {}
    BY <1>1, <2>1 DEF In
  <2> QED
    BY <1>3, <2>1, <2>2, <2>3, QueueEmpty DEF MutexOK
<1> QED
  BY <1>4, <1>5

-----------------------------------------------------------------------------
(* What a P and a V leave alone, and what every step of a process keeps.   *)
LEMMA POfOne ==
    ASSUME SemTyped, NEW s \in Sema4, NEW a, P(a, s)
    PROVE  /\ SemTyped'
           /\ \A t \in Sema4 : t # s => /\ sema4'[t] = sema4[t]
                                        /\ waiting'[t] = waiting[t]
<1>1. /\ sema4' \in [Sema4 -> Int]
      /\ \A t \in Sema4 : t # s => sema4'[t] = sema4[t]
  BY DEF SemTyped, P
<1>2. /\ waiting' = [t \in Sema4 |-> waiting'[t]]
      /\ \A t \in Sema4 : t # s => waiting'[t] = waiting[t]
  <2>1. CASE sema4[s] - 1 < 0
    BY <2>1 DEF SemTyped, P
  <2>2. CASE ~(sema4[s] - 1 < 0)
    BY <2>2 DEF SemTyped, P
  <2> QED
    BY <2>1, <2>2
<1> QED
  BY <1>1, <1>2 DEF SemTyped

LEMMA VOfOne ==
    ASSUME SemTyped, NEW s \in Sema4, V(s)
    PROVE  /\ SemTyped'
           /\ \A t \in Sema4 : t # s => /\ sema4'[t] = sema4[t]
                                        /\ waiting'[t] = waiting[t]
<1>1. /\ sema4' \in [Sema4 -> Int]
      /\ \A t \in Sema4 : t # s => sema4'[t] = sema4[t]
  BY DEF SemTyped, V
<1>2. /\ waiting' = [t \in Sema4 |-> waiting'[t]]
      /\ \A t \in Sema4 : t # s => waiting'[t] = waiting[t]
  <2>1. CASE sema4[s] + 1 <= 0
    BY <2>1 DEF SemTyped, V
  <2>2. CASE ~(sema4[s] + 1 <= 0)
    BY <2>2 DEF SemTyped, V
  <2> QED
    BY <2>1, <2>2
<1> QED
  BY <1>1, <1>2 DEF SemTyped

LEMMA ProcMoves ==
    ASSUME ProcTyped, NEW a \in Asid, NEW q \in UserPoint, GoTo(a, q),
           i' \in [Proc -> Nat]
    PROVE  ProcTyped'
<1>1. a \in Proc /\ a # 0 /\ q \in Point
  BY Processes, MorePoints
<1>2. /\ pc' \in [Proc -> Point] /\ pc'[0] = pc[0] /\ pc'[a] = q
      /\ \A b \in Asid : b # a => pc'[b] = pc[b]
  BY <1>1, Processes DEF ProcTyped, GoTo
<1> QED
  BY <1>1, <1>2 DEF ProcTyped

LEMMA MasterMoves ==     \* a process does not terminate
    ASSUME ProcTyped, MasterOK, NEW a \in Asid, NEW q, GoTo(a, q),
           pc[a] # <<"none", "">>, pc[a] \in GonePoint <=> q \in GonePoint,
           i'[0] = i[0], sema4'[masterSema4] = sema4[masterSema4],
           waiting'[masterSema4] = waiting[masterSema4]
    PROVE  MasterOK'
<1>1. /\ pc'[0] = pc[0] /\ pc'[a] = q
      /\ \A b \in Asid : b # a => pc'[b] = pc[b]
  BY Processes DEF GoTo, ProcTyped
<1>2. Gone' = Gone
  BY <1>1 DEF Gone
<1>3. Taken' = Taken
  BY <1>1 DEF Taken
<1> QED
  BY <1>1, <1>2, <1>3 DEF MasterOK

LEMMA GoneFinite ==
    IsFiniteSet(Gone) /\ Cardinality(Gone) \in 0 .. PROCCNT
<1>1. IsFiniteSet(Asid) /\ Cardinality(Asid) = PROCCNT
  BY Processes, FS_Interval DEF Asid
<1>2. Gone \subseteq Asid
  BY DEF Gone
<1>3. /\ IsFiniteSet(Gone) /\ Cardinality(Gone) <= Cardinality(Asid)
  BY <1>1, <1>2, FS_Subset
<1> QED
  BY <1>1, <1>3, FS_CardinalityType, Processes

LEMMA MasterV ==     \* a process terminates
    ASSUME ProcTyped, SemTyped, MasterOK, NEW a \in Asid,
           pc[a] = <<"exit", "V">>, GoTo(a, <<"exit", "SYS2">>),
           V(masterSema4), i' = i
    PROVE  MasterOK'
<1>1. /\ pc'[0] = pc[0] /\ pc'[a] = <<"exit", "SYS2">>
      /\ \A b \in Asid : b # a => pc'[b] = pc[b]
  BY Processes DEF GoTo, ProcTyped
<1>2. a \notin Gone /\ Gone' = Gone \cup {a} /\ pc[0] # <<"dead", "">>
  BY <1>1, Points DEF Gone, GonePoint, MasterOK
<1>3. Cardinality(Gone)' = Cardinality(Gone) + 1
  BY <1>2, GoneFinite, FS_AddElement
<1>4. Taken' = Taken /\ Taken \in Int
  BY <1>1, Processes DEF Taken, ProcTyped
<1> DEFINE m == masterSema4
<1>5. /\ sema4[m] \in Int /\ sema4'[m] = sema4[m] + 1
      /\ waiting'[m] = IF sema4[m] + 1 <= 0 THEN Tail(waiting[m])
                                            ELSE waiting[m]
  BY Semaphores DEF SemTyped, V
<1>6. /\ sema4[m] = Cardinality(Gone) - Taken /\ sema4[m] >= -1
      /\ waiting[m] = IF sema4[m] < 0 THEN <<0>> ELSE <<>>
  BY <1>2 DEF MasterOK
<1>7. Tail(<<0>>) = <<>>
  OBVIOUS
<1>8. waiting'[m] = <<>> /\ sema4'[m] >= 0
  BY <1>5, <1>6, <1>7
<1>9. sema4'[m] = Cardinality(Gone)' - Taken'
  BY <1>3, <1>4, <1>5, <1>6, GoneFinite
<1>10. pc[0] = <<"test", "create">> =>
           \A b \in Asid : b > i'[0] => pc'[b] = <<"none", "">>
  <2>1. pc[a] # <<"none", "">>
    OBVIOUS
  <2> QED
    BY <1>1, <2>1 DEF MasterOK
<1>11. /\ pc'[0] \in {<<"test", "create">>, <<"test", "P">>} =>
              i'[0] \in 0 .. PROCCNT - 1
       /\ pc'[0] # <<"dead", "">>
  BY <1>1, <1>2 DEF MasterOK
<1>12. sema4'[m] \in Int
  BY <1>5
<1>13. /\ sema4'[m] >= -1
       /\ waiting'[m] = IF sema4'[m] < 0 THEN <<0>> ELSE <<>>
  BY <1>8, <1>12
<1> HIDE DEF m
<1> QED
  BY <1>1, <1>9, <1>10, <1>11, <1>13 DEF MasterOK, m

-----------------------------------------------------------------------------
(* A step of process a from pc[a] to q, with at most one P or V.           *)
LEMMA Step ==
    ASSUME Inv, NEW a \in Asid, NEW q \in UserPoint, GoTo(a, q), ~Blocked(a),
           pc[a] # <<"none", "">>, pc[a] \in GonePoint <=> q \in GonePoint,
           i' \in [Proc -> Nat], i'[0] = i[0], SemTyped', PagerTyped',
           NEW s \in Sema4, s # masterSema4,
           \A t \in Sema4 : t # s => /\ sema4'[t] = sema4[t]
                                     /\ waiting'[t] = waiting[t],
           s \in SharedMutex => MutexOK(s)',
           \A t \in SharedMutex :
               t # s => (pc[a] \in Inside(t) <=> q \in Inside(t))
    PROVE  Inv'
<1>1. ProcTyped /\ SemTyped /\ MasterOK
  BY DEF Inv, Typed
<1>2. ProcTyped'
  BY <1>1, ProcMoves
<1>3. ASSUME NEW t \in SharedMutex  PROVE MutexOK(t)'
  <2>1. CASE t = s
    BY <2>1
  <2>2. CASE t # s
    <3>1. t \in Sema4 /\ MutexOK(t)
      BY Semaphores DEF Inv, SharedMutex
    <3>2. a \notin Range(waiting[t])
      BY <3>1 DEF Blocked
    <3>3. /\ sema4'[t] = sema4[t] /\ waiting'[t] = waiting[t]
          /\ pc[a] \in Inside(t) <=> q \in Inside(t)
      BY <2>2, <3>1
    <3> QED
      BY <1>1, <3>1, <3>2, <3>3, Pass
  <2> QED
    BY <2>1, <2>2
<1>4. MasterOK'
  <2>1. /\ sema4'[masterSema4] = sema4[masterSema4]
        /\ waiting'[masterSema4] = waiting[masterSema4]
    BY Semaphores
  <2> QED
    BY <1>1, <2>1, MasterMoves
<1> QED
  BY <1>2, <1>3, <1>4 DEF Inv, Typed

LEMMA Quiet ==     \* no P or V
    ASSUME Inv, NEW a \in Asid, NEW q \in UserPoint, GoTo(a, q), ~Blocked(a),
           pc[a] # <<"none", "">>, pc[a] \in GonePoint <=> q \in GonePoint,
           i' \in [Proc -> Nat], i'[0] = i[0], PagerTyped', UNCHANGED semVars,
           \A t \in SharedMutex : pc[a] \in Inside(t) <=> q \in Inside(t)
    PROVE  Inv'
<1>1. SemTyped'
  BY DEF Inv, Typed, SemTyped, semVars
<1>2. \A t \in Sema4 : sema4'[t] = sema4[t] /\ waiting'[t] = waiting[t]
  BY DEF semVars
<1>3. Terminal(a) \in Sema4 /\ Terminal(a) # masterSema4
      /\ Terminal(a) \notin SharedMutex
  BY Semaphores
<1> QED
  BY <1>1, <1>2, <1>3, Step

LEMMA Prints ==     \* a P or V of its own terminal
    ASSUME Inv, NEW a \in Asid, NEW q \in UserPoint, GoTo(a, q), ~Blocked(a),
           pc[a] # <<"none", "">>, pc[a] \in GonePoint <=> q \in GonePoint,
           i' \in [Proc -> Nat], i'[0] = i[0], PagerTyped',
           P(a, Terminal(a)) \/ V(Terminal(a)),
           \A t \in SharedMutex : pc[a] \in Inside(t) <=> q \in Inside(t)
    PROVE  Inv'
<1>1. Terminal(a) \in Sema4 /\ Terminal(a) # masterSema4
      /\ Terminal(a) \notin SharedMutex
  BY Semaphores
<1>2. /\ SemTyped'
      /\ \A t \in Sema4 : t # Terminal(a) => /\ sema4'[t] = sema4[t]
                                             /\ waiting'[t] = waiting[t]
  <2>1. SemTyped
    BY DEF Inv, Typed
  <2>2. CASE P(a, Terminal(a))
    BY <1>1, <2>1, <2>2, POfOne
  <2>3. CASE V(Terminal(a))
    BY <1>1, <2>1, <2>3, VOfOne
  <2> QED
    BY <2>2, <2>3
<1>3. PICK s \in Sema4 :
          /\ s # masterSema4 /\ s \notin SharedMutex
          /\ \A t \in Sema4 : t # s => /\ sema4'[t] = sema4[t]
                                       /\ waiting'[t] = waiting[t]
  BY <1>1, <1>2
<1>4. SemTyped'
  BY <1>2
<1>5. /\ s \in SharedMutex => MutexOK(s)'
      /\ \A t \in SharedMutex :
             t # s => (pc[a] \in Inside(t) <=> q \in Inside(t))
  BY <1>3
<1> QED
  BY <1>3, <1>4, <1>5, Step, ZenonT(40)

LEMMA Gains ==     \* the P of a shared mutex
    ASSUME Inv, NEW a \in Asid, NEW s \in SharedMutex, NEW q \in Entering(s),
           q \in UserPoint, GoTo(a, q), ~Blocked(a), P(a, s),
           pc[a] # <<"none", "">>, pc[a] \in GonePoint <=> q \in GonePoint,
           i' \in [Proc -> Nat], i'[0] = i[0], PagerTyped',
           pc[a] \notin Inside(s),
           \A t \in SharedMutex :
               t # s => (pc[a] \in Inside(t) <=> q \in Inside(t))
    PROVE  Inv'
<1>1. s \in Sema4 /\ s # masterSema4
  BY Semaphores DEF SharedMutex
<1>2. ProcTyped /\ SemTyped /\ MutexOK(s)
  BY DEF Inv, Typed
<1>3. MutexOK(s)'
  BY <1>2, Gain
<1>4. /\ SemTyped'
      /\ \A t \in Sema4 : t # s => /\ sema4'[t] = sema4[t]
                                   /\ waiting'[t] = waiting[t]
  BY <1>1, <1>2, POfOne
<1> QED
  BY <1>1, <1>3, <1>4, Step

LEMMA Releases ==     \* its V
    ASSUME Inv, NEW a \in Asid, NEW s \in SharedMutex, NEW q \in UserPoint,
           GoTo(a, q), ~Blocked(a), V(s),
           pc[a] # <<"none", "">>, pc[a] \in GonePoint <=> q \in GonePoint,
           i' \in [Proc -> Nat], i'[0] = i[0], PagerTyped',
           pc[a] \in Inside(s), q \notin Inside(s),
           \A t \in SharedMutex :
               t # s => (pc[a] \in Inside(t) <=> q \in Inside(t))
    PROVE  Inv'
<1>1. s \in Sema4 /\ s # masterSema4
  BY Semaphores DEF SharedMutex
<1>2. ProcTyped /\ SemTyped /\ MutexOK(s)
  BY DEF Inv, Typed
<1>3. a \in In(s)
  BY <1>1 DEF In, Blocked
<1>4. MutexOK(s)'
  BY <1>2, <1>3, Release
<1>5. /\ SemTyped'
      /\ \A t \in Sema4 : t # s => /\ sema4'[t] = sema4[t]
                                   /\ waiting'[t] = waiting[t]
  BY <1>1, <1>2, VOfOne
<1> QED
  BY <1>1, <1>4, <1>5, Step

-----------------------------------------------------------------------------
(* The steps, handler by handler.                                          *)
LEMMA Same ==
    ASSUME Inv
    PROVE  /\ UNCHANGED pagerVars => PagerTyped'
           /\ UNCHANGED i => i' \in [Proc -> Nat] /\ i'[0] = i[0]
           /\ \A a \in Asid, n \in Nat : i' = [i EXCEPT ![a] = n] =>
                  i' \in [Proc -> Nat] /\ i'[0] = i[0]
           /\ \A a \in Asid : i[a] \in Nat
<1>1. UNCHANGED pagerVars => PagerTyped'
  BY DEF Inv, Typed, PagerTyped, pagerVars
<1>2. i \in [Proc -> Nat]
  BY DEF Inv, Typed, ProcTyped
<1> QED
  BY <1>1, <1>2, Processes

LEMMA StutterInv ==
    ASSUME Inv, UNCHANGED <<pc, semVars, i, pagerVars>>
    PROVE  Inv'
<1>1. /\ UNCHANGED <<pc, sema4, waiting, i>> /\ PagerTyped'
  BY Same DEF semVars
<1>2. ProcTyped' /\ SemTyped'
  BY <1>1 DEF Inv, Typed, ProcTyped, SemTyped
<1>3. ASSUME NEW t \in SharedMutex  PROVE MutexOK(t)'
  BY <1>1, Untouched DEF Inv
<1>4. MasterOK'
  BY <1>1 DEF Inv, MasterOK, Gone, Taken
<1> QED
  BY <1>1, <1>2, <1>3, <1>4 DEF Inv, Typed

LEMMA DiskSteps ==     \* common to readTape and UserTLBHandler
    ASSUME Inv, NEW a \in Asid, NEW for \in Phase,
           GainDisk(a, for) \/ Seek(a, for) \/ Transfer(a, for)
    PROVE  Inv'
<1>1. /\ PagerTyped' /\ i' \in [Proc -> Nat] /\ i'[0] = i[0]
      /\ \/ At(a, for, "P") \/ At(a, for, "seek") \/ At(a, for, "transfer")
  BY Same DEF GainDisk, Seek, Transfer
<1>2. ~Blocked(a) /\ pc[a] # <<"none", "">> /\ pc[a] \notin GonePoint
  BY <1>1, Points DEF At
<1>3. \A k \in {"seek", "transfer", "V"} :
          <<for, k>> \in UserPoint /\ <<for, k>> \notin GonePoint
  BY Points
<1>4. CASE GainDisk(a, for)
  <2>1. /\ pc[a] = <<for, "P">> /\ GoTo(a, <<for, "seek">>) /\ P(a, disk0)
    BY <1>4 DEF GainDisk, At
  <2>2. /\ pc[a] \notin Inside(disk0)
        /\ pc[a] \in Inside(swapmutex) <=> <<for, "seek">> \in Inside(swapmutex)
    BY <2>1, Points
  <2>3. <<for, "seek">> \in Entering(disk0) /\ disk0 \in SharedMutex
    BY DEF Entering, disk0, swapmutex, SharedMutex
  <2>4. \A t \in SharedMutex : t # disk0 =>
            (pc[a] \in Inside(t) <=> <<for, "seek">> \in Inside(t))
    BY <2>2 DEF SharedMutex
  <2> QED
    BY <1>1, <1>2, <1>3, <2>1, <2>2, <2>3, <2>4, Gains
<1>5. CASE Seek(a, for)
  <2>1. /\ pc[a] = <<for, "seek">> /\ GoTo(a, <<for, "transfer">>)
        /\ UNCHANGED semVars
    BY <1>5 DEF Seek, At
  <2>2. \A t \in SharedMutex :
            pc[a] \in Inside(t) <=> <<for, "transfer">> \in Inside(t)
    BY <2>1, Points DEF SharedMutex
  <2> QED
    BY <1>1, <1>2, <1>3, <2>1, <2>2, Quiet
<1>6. CASE Transfer(a, for)
  <2>1. /\ pc[a] = <<for, "transfer">> /\ GoTo(a, <<for, "V">>)
        /\ UNCHANGED semVars
    BY <1>6 DEF Transfer, At
  <2>2. \A t \in SharedMutex :
            pc[a] \in Inside(t) <=> <<for, "V">> \in Inside(t)
    BY <2>1, Points DEF SharedMutex
  <2> QED
    BY <1>1, <1>2, <1>3, <2>1, <2>2, Quiet
<1> QED
  BY <1>4, <1>5, <1>6

LEMMA DiskRelease ==
    ASSUME Inv, NEW a \in Asid, NEW for \in Phase, NEW q \in UserPoint,
           ReleaseDisk(a, for, q), i' \in [Proc -> Nat], i'[0] = i[0],
           q \notin GonePoint, q \notin Inside(disk0),
           q \in Inside(swapmutex) <=> for # "tape"
    PROVE  Inv'
<1>1. /\ pc[a] = <<for, "V">> /\ ~Blocked(a) /\ GoTo(a, q) /\ V(disk0)
      /\ PagerTyped'
  BY Same DEF ReleaseDisk, At
<1>2. /\ pc[a] # <<"none", "">> /\ pc[a] \notin GonePoint
      /\ pc[a] \in Inside(disk0)
      /\ pc[a] \in Inside(swapmutex) <=> for # "tape"
  BY <1>1, Points
<1>3. disk0 \in SharedMutex /\ \A t \in SharedMutex : t # disk0 =>
          (pc[a] \in Inside(t) <=> q \in Inside(t))
  BY <1>2 DEF SharedMutex
<1> QED
  BY <1>1, <1>2, <1>3, Releases

LEMMA TapeSteps ==
    ASSUME Inv, NEW a \in Asid, readTape(a)
    PROVE  Inv'
<1>1. CASE ReadBlock(a)
  <2>1. /\ pc[a] = <<"tape", "read">> /\ ~Blocked(a) /\ UNCHANGED semVars
        /\ PagerTyped'
    BY <1>1, Same DEF ReadBlock, At
  <2>2. PICK q \in {<<"tape", "P">>, <<"user", "run">>} :
            GoTo(a, q) /\ i' \in [Proc -> Nat] /\ i'[0] = i[0]
    BY <1>1, Same DEF ReadBlock, StartUser
  <2>3. q \in UserPoint /\ q \notin GonePoint /\ q \notin Inside(disk0)
        /\ q \notin Inside(swapmutex)
    BY <2>2, Points DEF Phase
  <2>4. /\ <<"tape", "read">> # <<"none", "">>
        /\ <<"tape", "read">> \notin GonePoint
        /\ <<"tape", "read">> \notin Inside(disk0)
        /\ <<"tape", "read">> \notin Inside(swapmutex)
    BY Points
  <2>5. \A t \in SharedMutex : pc[a] \in Inside(t) <=> q \in Inside(t)
    BY <2>1, <2>3, <2>4 DEF SharedMutex
  <2> QED
    BY <2>1, <2>2, <2>3, <2>4, <2>5, Quiet
<1>2. CASE NextBlock(a)
  <2>1. PICK q \in {<<"tape", "read">>, <<"user", "run">>} :
            ReleaseDisk(a, "tape", q)
    BY <1>2 DEF NextBlock
  <2>2. i' \in [Proc -> Nat] /\ i'[0] = i[0]
    <3> DEFINE n == IF i[a] + 1 < TapeLen[a] THEN i[a] + 1 ELSE 0
    <3>1. n \in Nat
      BY Same
    <3>2. i' = [i EXCEPT ![a] = n]
      BY <1>2 DEF NextBlock
    <3> HIDE DEF n
    <3> QED
      BY <3>1, <3>2, Same
  <2>3. q \in UserPoint /\ q \notin GonePoint /\ q \notin Inside(disk0)
        /\ q \notin Inside(swapmutex)
    BY <2>1, Points
  <2>4. "tape" \in Phase
    BY DEF Phase
  <2> QED
    BY <2>1, <2>2, <2>3, <2>4, DiskRelease
<1>3. CASE GainDisk(a, "tape") \/ Seek(a, "tape") \/ Transfer(a, "tape")
  BY <1>3, DiskSteps DEF Phase
<1> QED
  BY <1>1, <1>2, <1>3 DEF readTape

LEMMA Resumes ==     \* the end of the handler, from find or from V
    ASSUME Inv, NEW a \in Asid, NEW k \in {"find", "V"}, At(a, "fault", k),
           Resume(a), UNCHANGED <<i, nextFrame, frameSwapPool>>
    PROVE  Inv'
<1> DEFINE q == old[a].resume
<1>1. /\ pc[a] = <<"fault", k>> /\ ~Blocked(a) /\ GoTo(a, q) /\ V(swapmutex)
      /\ q \in {<<"user", "run">>, <<"print", "char">>}
  BY DEF At, Resume, Inv, Typed, PagerTyped
<1> HIDE DEF q
<1>2. /\ pc[a] # <<"none", "">> /\ pc[a] \notin GonePoint
      /\ pc[a] \in Inside(swapmutex) /\ pc[a] \notin Inside(disk0)
  BY <1>1, Points
<1>3. /\ q \in UserPoint /\ q \notin GonePoint
      /\ q \notin Inside(swapmutex) /\ q \notin Inside(disk0)
  BY <1>1, Points
<1>4. PagerTyped'
  <2>1. NoFault \in [seg : {0, KUSEG2, KUSEG3}, page : Index,
                     resume : {<<"user", "run">>, <<"print", "char">>}]
    BY UserAssumption DEF NoFault, Index
  <2> QED
    BY <2>1 DEF Resume, Inv, Typed, PagerTyped
<1>5. i' \in [Proc -> Nat] /\ i'[0] = i[0]
  BY Same
<1>6. swapmutex \in SharedMutex /\ \A t \in SharedMutex : t # swapmutex =>
          (pc[a] \in Inside(t) <=> q \in Inside(t))
  BY <1>2, <1>3 DEF SharedMutex
<1> QED
  BY <1>1, <1>2, <1>3, <1>4, <1>5, <1>6, Releases

LEMMA FaultMoves ==     \* inside the handler, between its P and its V
    ASSUME Inv, NEW a \in Asid, NEW k \in {"find", "map"}, At(a, "fault", k),
           NEW q \in {<<"load", "P">>, <<"evict", "P">>, <<"fault", "V">>},
           GoTo(a, q), UNCHANGED <<semVars, i>>, PagerTyped'
    PROVE  Inv'
<1>1. /\ pc[a] = <<"fault", k>> /\ ~Blocked(a)
      /\ i' \in [Proc -> Nat] /\ i'[0] = i[0]
  BY Same DEF At
<1>2. /\ pc[a] # <<"none", "">> /\ pc[a] \notin GonePoint
      /\ pc[a] \in Inside(swapmutex) /\ pc[a] \notin Inside(disk0)
  BY <1>1, Points
<1>3. /\ q \in UserPoint /\ q \notin GonePoint
      /\ q \in Inside(swapmutex) /\ q \notin Inside(disk0)
  BY Points DEF Phase
<1>4. \A t \in SharedMutex : pc[a] \in Inside(t) <=> q \in Inside(t)
  BY <1>2, <1>3 DEF SharedMutex
<1> QED
  BY <1>1, <1>2, <1>3, <1>4, Quiet

LEMMA ChooseSteps ==
    ASSUME Inv, NEW a \in Asid, ChooseFrame(a)
    PROVE  Inv'
<1>1. CASE AlreadyThere(a)
  BY <1>1, Resumes DEF ChooseFrame
<1>2. CASE ~AlreadyThere(a)
  <2>1. findFrame \in Frame
    BY UserAssumption DEF findFrame, Frame, Inv, Typed, PagerTyped
  <2>2. /\ At(a, "fault", "find") /\ nextFrame' = findFrame
        /\ Boot(a, frameSwapPool[findFrame])
        /\ UNCHANGED <<semVars, old, i, frameSwapPool>>
    BY <1>2 DEF ChooseFrame
  <2>3. PagerTyped'
    BY <2>1, <2>2 DEF Inv, Typed, PagerTyped
  <2>4. \/ frameSwapPool[findFrame].asid = UNOCCUPIEDFRAME
        \/ frameSwapPool[findFrame].page \in Index
    BY <2>1 DEF Inv, Typed, PagerTyped, Unoccupied
  <2>5. PICK q \in {<<"load", "P">>, <<"evict", "P">>} : GoTo(a, q)
    BY <2>2, <2>4 DEF Boot
  <2> QED
    BY <2>2, <2>3, <2>5, FaultMoves
<1> QED
  BY <1>1, <1>2

LEMMA MapSteps ==
    ASSUME Inv, NEW a \in Asid, MapPage(a)
    PROVE  Inv'
<1>1. /\ At(a, "fault", "map") /\ UNCHANGED <<semVars, i, old, nextFrame>>
      /\ frameSwapPool' = [frameSwapPool EXCEPT ![frame[a]] =
             [asid |-> a, seg |-> old[a].seg, page |-> old[a].page]]
  BY DEF MapPage
<1>2. /\ old[a].page \in Index /\ old[a].seg \in {0, KUSEG2, KUSEG3}
  BY DEF Inv, Typed, PagerTyped
<1>3. PagerTyped'
  BY <1>1, <1>2 DEF Inv, Typed, PagerTyped
<1>4. GoTo(a, <<"fault", "V">>)
  BY <1>2 DEF MapPage
<1> QED
  BY <1>1, <1>3, <1>4, FaultMoves

LEMMA HandlerSteps ==
    ASSUME Inv, NEW a \in Asid, UserTLBHandler(a)
    PROVE  Inv'
<1>1. CASE GainPool(a)
  <2>1. /\ pc[a] = <<"fault", "P">> /\ ~Blocked(a) /\ P(a, swapmutex)
        /\ GoTo(a, <<"fault", "find">>) /\ PagerTyped'
        /\ i' \in [Proc -> Nat] /\ i'[0] = i[0]
    BY <1>1, Same DEF GainPool, At
  <2>2. /\ <<"fault", "P">> # <<"none", "">>
        /\ <<"fault", "P">> \notin GonePoint
        /\ <<"fault", "P">> \notin Inside(swapmutex)
        /\ <<"fault", "P">> \notin Inside(disk0)
    BY Points
  <2>3. /\ <<"fault", "find">> \in UserPoint
        /\ <<"fault", "find">> \notin GonePoint
        /\ <<"fault", "find">> \notin Inside(disk0)
    BY Points
  <2>4. <<"fault", "find">> \in Entering(swapmutex)
        /\ swapmutex \in SharedMutex
    BY DEF Entering, SharedMutex
  <2>5. \A t \in SharedMutex : t # swapmutex =>
            (pc[a] \in Inside(t) <=> <<"fault", "find">> \in Inside(t))
    BY <2>1, <2>2, <2>3 DEF SharedMutex
  <2> QED
    BY <2>1, <2>2, <2>3, <2>4, <2>5, Gains
<1>2. CASE Evicted(a) \/ Loaded(a)
  <2>1. PICK for \in {"evict", "load"} :
            ReleaseDisk(a, for, IF for = "evict" THEN <<"load", "P">>
                                                 ELSE <<"fault", "map">>)
    BY <1>2 DEF Evicted, Loaded
  <2> DEFINE q == IF for = "evict" THEN <<"load", "P">>
                                   ELSE <<"fault", "map">>
  <2>2. i' \in [Proc -> Nat] /\ i'[0] = i[0] /\ for \in Phase
    BY <1>2, Same DEF Evicted, Loaded, Phase
  <2>3. /\ q \in UserPoint /\ q \notin GonePoint
        /\ q \in Inside(swapmutex) /\ q \notin Inside(disk0)
    BY Points DEF Phase
  <2> QED
    BY <2>1, <2>2, <2>3, DiskRelease
<1>3. CASE ReleasePool(a)
  BY <1>3, Resumes DEF ReleasePool
<1>4. CASE \E for \in {"evict", "load"} :
               GainDisk(a, for) \/ Seek(a, for) \/ Transfer(a, for)
  BY <1>4, DiskSteps DEF Phase
<1> QED
  BY <1>1, <1>2, <1>3, <1>4, ChooseSteps, MapSteps DEF UserTLBHandler

LEMMA UserMoves ==     \* the program, or the handler of its calls
    ASSUME Inv, NEW a \in Asid, ~Blocked(a),
           pc[a] \in {<<"user", "run">>, <<"print", "char">>},
           NEW q \in {<<"user", "run">>, <<"print", "char">>, <<"fault", "P">>,
                      <<"exit", "V">>, <<"lost", "">>},
           GoTo(a, q), i' \in [Proc -> Nat], i'[0] = i[0], PagerTyped',
           UNCHANGED semVars \/ P(a, Terminal(a)) \/ V(Terminal(a))
    PROVE  Inv'
<1>1. /\ pc[a] # <<"none", "">> /\ pc[a] \notin GonePoint
      /\ pc[a] \notin Inside(swapmutex) /\ pc[a] \notin Inside(disk0)
  <2>1. /\ <<"user", "run">> # <<"none", "">>
        /\ <<"print", "char">> # <<"none", "">>
    OBVIOUS
  <2>2. PICK p \in {<<"user", "run">>, <<"print", "char">>} : pc[a] = p
    OBVIOUS
  <2>3. p \notin GonePoint /\ p \notin Inside(swapmutex)
        /\ p \notin Inside(disk0)
    BY Points
  <2> QED
    BY <2>1, <2>2, <2>3
<1>2. /\ q \in UserPoint /\ q \notin GonePoint
      /\ q \notin Inside(swapmutex) /\ q \notin Inside(disk0)
  BY Points
<1>3. \A t \in SharedMutex : pc[a] \in Inside(t) <=> q \in Inside(t)
  BY <1>1, <1>2 DEF SharedMutex
<1>4. CASE UNCHANGED semVars
  BY <1>1, <1>2, <1>3, <1>4, Quiet
<1>5. CASE P(a, Terminal(a)) \/ V(Terminal(a))
  BY <1>1, <1>2, <1>3, <1>5, Prints
<1> QED
  BY <1>4, <1>5

LEMMA ExceptionSteps ==
    ASSUME Inv, NEW a \in Asid, NEW x \in VPage, x.page \in Index,
           NEW resume \in {<<"user", "run">>, <<"print", "char">>},
           ~Blocked(a), pc[a] = resume, TLBException(a, x, resume)
    PROVE  Inv'
<1>1. /\ UNCHANGED <<semVars, i, nextFrame, frameSwapPool>>
      /\ i' \in [Proc -> Nat] /\ i'[0] = i[0]
  BY Same DEF TLBException
<1>2. PICK q \in {<<"fault", "P">>, <<"exit", "V">>} : GoTo(a, q)
  BY DEF TLBException, ToExit
<1>3. PagerTyped'
  <2>1. x.seg \in {0, KUSEG2, KUSEG3}
    BY DEF VPage
  <2>2. \/ UNCHANGED old
        \/ old' = [old EXCEPT ![a] = [seg |-> x.seg, page |-> x.page,
                                      resume |-> resume]]
    BY DEF TLBException
  <2> QED
    BY <1>1, <2>1, <2>2 DEF Inv, Typed, PagerTyped
<1> QED
  BY <1>1, <1>2, <1>3, UserMoves

LEMMA UserSteps ==
    ASSUME PagesInTables, Inv, NEW a \in Asid, User(a)
    PROVE  Inv'
<1>1. pc[a] = <<"user", "run">> /\ ~Blocked(a)
  BY DEF User, Store, UserFault, UserTrap, EmptyCall, PrintCall, At
<1>2. CASE Store(a)
  <2>1. UNCHANGED <<pc, semVars, i, pagerVars>>
    BY <1>2 DEF Store
  <2> QED
    BY <2>1, StutterInv
<1>3. CASE UserFault(a)
  <2>1. PICK x \in Touches[a] : TLBException(a, x, <<"user", "run">>)
    BY <1>3 DEF UserFault
  <2>2. x \in VPage /\ x.page \in Index
    BY UserAssumption DEF PagesInTables
  <2> QED
    BY <1>1, <2>1, <2>2, ExceptionSteps
<1>4. CASE UserTrap(a) \/ EmptyCall(a)
  <2>1. PICK q \in {<<"exit", "V">>, <<"lost", "">>} : GoTo(a, q)
    BY <1>4 DEF UserTrap, EmptyCall, ToExit
  <2>2. /\ UNCHANGED semVars /\ PagerTyped'
        /\ i' \in [Proc -> Nat] /\ i'[0] = i[0]
    BY <1>4, Same DEF UserTrap, EmptyCall
  <2> QED
    BY <1>1, <2>1, <2>2, UserMoves
<1>5. CASE PrintCall(a)
  <2>1. /\ GoTo(a, <<"print", "char">>) /\ P(a, Terminal(a)) /\ PagerTyped'
        /\ i' \in [Proc -> Nat] /\ i'[0] = i[0]
    BY <1>5, Same DEF PrintCall
  <2> QED
    BY <1>1, <2>1, UserMoves
<1> QED
  BY <1>2, <1>3, <1>4, <1>5 DEF User

LEMMA PrintSteps ==
    ASSUME PagesInTables, Inv, NEW a \in Asid, WriteToTerminal(a)
    PROVE  Inv'
<1>1. pc[a] = <<"print", "char">> /\ ~Blocked(a)
  BY DEF WriteToTerminal, PrintChar, PrintFault, PrintEnd, At
<1>2. CASE PrintFault(a)
  <2> DEFINE x == String[i[a] + 1]
  <2>1. i[a] \in Nat /\ i[a] < Len(String) /\ Len(String) \in Nat
        /\ TLBException(a, x, <<"print", "char">>)
    BY <1>2, Same, UserAssumption, LenProperties DEF PrintFault
  <2>2. i[a] + 1 \in 1 .. Len(String)
    BY <2>1
  <2>3. x \in VPage /\ x.page \in Index
    BY <2>2, UserAssumption, ElementOfSeq DEF PagesInTables
  <2> HIDE DEF x
  <2> QED
    BY <1>1, <2>1, <2>3, ExceptionSteps
<1>3. CASE PrintDone(a)
  <2>1. /\ GoTo(a, <<"user", "run">>) /\ V(Terminal(a)) /\ PagerTyped'
        /\ i' \in [Proc -> Nat] /\ i'[0] = i[0]
    BY <1>3, Same DEF PrintDone
  <2> QED
    BY <1>1, <2>1, UserMoves
<1>4. CASE PrintChar(a) /\ ~PrintDone(a)
  <2>1. /\ i' = [i EXCEPT ![a] = i[a] + 1] /\ UNCHANGED <<pc, semVars>>
        /\ PagerTyped'
    BY <1>4, Same DEF PrintChar
  <2>2. i[a] + 1 \in Nat
    BY Same
  <2>3. i' \in [Proc -> Nat] /\ i'[0] = i[0]
    BY <2>1, <2>2, Same
  <2>4. GoTo(a, <<"print", "char">>)
    BY <1>1, <2>1, Processes DEF GoTo, Inv, Typed, ProcTyped
  <2> QED
    BY <1>1, <2>1, <2>3, <2>4, UserMoves
<1> QED
  BY <1>2, <1>3, <1>4 DEF WriteToTerminal, PrintEnd

LEMMA TerminateSteps ==
    ASSUME Inv, NEW a \in Asid, UserTerminate(a)
    PROVE  Inv'
<1>1. PagerTyped' /\ i' = i /\ i' \in [Proc -> Nat]
  BY Same DEF UserTerminate
<1>2. /\ <<"exit", "SYS2">> \in GonePoint /\ <<"dead", "">> \in GonePoint
  BY DEF GonePoint
<1>3. CASE pc[a] = <<"exit", "V">>
  <2>1. /\ GoTo(a, <<"exit", "SYS2">>) /\ V(masterSema4) /\ ~Blocked(a)
    BY <1>3 DEF UserTerminate, At
  <2>2. ProcTyped /\ SemTyped /\ MasterOK
    BY DEF Inv, Typed
  <2>3. /\ <<"exit", "V">> \notin Inside(swapmutex)
        /\ <<"exit", "V">> \notin Inside(disk0)
        /\ <<"exit", "SYS2">> \notin Inside(swapmutex)
        /\ <<"exit", "SYS2">> \notin Inside(disk0)
        /\ <<"exit", "SYS2">> \in UserPoint
    BY <1>2, Points
  <2>4. /\ SemTyped'
        /\ \A t \in SharedMutex : /\ sema4'[t] = sema4[t]
                                  /\ waiting'[t] = waiting[t]
    BY <2>1, <2>2, VOfOne, Semaphores DEF SharedMutex
  <2>5. ASSUME NEW t \in SharedMutex  PROVE MutexOK(t)'
    <3>1. t \in Sema4 /\ MutexOK(t)
      BY Semaphores DEF Inv, SharedMutex
    <3>2. a \notin Range(waiting[t])
      BY <2>1, <3>1 DEF Blocked
    <3>3. pc[a] \in Inside(t) <=> <<"exit", "SYS2">> \in Inside(t)
      BY <1>3, <2>3 DEF SharedMutex
    <3> QED
      BY <2>1, <2>2, <2>4, <3>1, <3>2, <3>3, Pass
  <2>6. ProcTyped'
    BY <1>1, <2>1, <2>2, <2>3, ProcMoves
  <2>7. MasterOK'
    BY <1>1, <1>3, <2>1, <2>2, MasterV
  <2> QED
    BY <1>1, <2>4, <2>5, <2>6, <2>7 DEF Inv, Typed
<1>4. CASE pc[a] = <<"exit", "SYS2">>
  <2>1. /\ GoTo(a, <<"dead", "">>) /\ UNCHANGED semVars /\ ~Blocked(a)
    <3>1. <<"exit", "V">> # <<"exit", "SYS2">>
      OBVIOUS
    <3> QED
      BY <1>4, <3>1 DEF UserTerminate, At
  <2>2. /\ <<"dead", "">> \in UserPoint /\ pc[a] # <<"none", "">>
    BY <1>2, <1>4, Points
  <2>3. \A t \in SharedMutex :
            pc[a] \in Inside(t) <=> <<"dead", "">> \in Inside(t)
    BY <1>2, <1>4, Points DEF SharedMutex
  <2> QED
    BY <1>1, <1>2, <1>4, <2>1, <2>2, <2>3, Quiet
<1> QED
  BY <1>3, <1>4 DEF UserTerminate, At

-----------------------------------------------------------------------------
(* test().                                                                 *)
LEMMA TestPoints ==
    /\ <<"test", "create">> # <<"test", "P">>
    /\ <<"test", "create">> # <<"test", "SYS2">>
    /\ <<"test", "create">> # <<"dead", "">>
    /\ <<"test", "P">> # <<"test", "SYS2">>
    /\ <<"test", "P">> # <<"dead", "">>
    /\ <<"test", "SYS2">> # <<"dead", "">>
  OBVIOUS

LEMMA CreateSteps ==
    ASSUME Inv, CreateUser
    PROVE  Inv'
<1> DEFINE n == i[0] + 1
           q == <<"tape", "read">>
           last == n = PROCCNT
<1>1. /\ ProcTyped /\ SemTyped /\ PagerTyped /\ MasterOK
      /\ pc[0] = <<"test", "create">>
      /\ UNCHANGED <<semVars, pagerVars>>
      /\ pc' = [pc EXCEPT ![n] = q, ![0] = IF last THEN <<"test", "P">> ELSE @]
      /\ i' = [i EXCEPT ![0] = IF last THEN 0 ELSE n]
  BY DEF Inv, Typed, CreateUser, At
<1>0. \A b \in Asid : b > i[0] => pc[b] = <<"none", "">>
  BY <1>1 DEF MasterOK
<1>2. /\ i[0] \in 0 .. PROCCNT - 1 /\ i[0] \in Nat
      /\ n \in Asid /\ n \in Nat /\ n # 0 /\ n > i[0]
  <2>1. i[0] \in 0 .. PROCCNT - 1
    BY <1>1 DEF MasterOK
  <2>2. PROCCNT \in Nat
    BY Processes
  <2>3. n \in Nat /\ n # 0 /\ n > i[0] /\ n <= PROCCNT
    BY <2>1, <2>2
  <2> QED
    BY <2>1, <2>2, <2>3 DEF Asid
<1>3. pc[n] = <<"none", "">>
  BY <1>2, <1>0
<1>4. /\ pc'[n] = q /\ \A b \in Asid : b # n => pc'[b] = pc[b]
      /\ pc' = [b \in Proc |-> pc'[b]]
      /\ pc'[0] = IF last THEN <<"test", "P">> ELSE <<"test", "create">>
  BY <1>1, <1>2, Processes DEF ProcTyped
<1>5. i' \in [Proc -> Nat] /\ i'[0] = IF last THEN 0 ELSE n
  BY <1>1, <1>2, Processes DEF ProcTyped
<1>6. /\ q \in UserPoint /\ q \notin GonePoint
      /\ q \notin Inside(swapmutex) /\ q \notin Inside(disk0)
      /\ pc[n] \notin GonePoint
      /\ pc[n] \notin Inside(swapmutex) /\ pc[n] \notin Inside(disk0)
  BY <1>3, Points
<1> HIDE DEF n, q, last
<1>7. ProcTyped'
  <2>1. /\ pc'[0] \in TestPoint /\ \A b \in Asid : pc'[b] \in UserPoint
    BY <1>1, <1>4, <1>6 DEF ProcTyped, TestPoint
  <2>2. \A b \in Proc : pc'[b] \in Point
    BY <2>1, MorePoints DEF Asid, Proc
  <2> QED
    BY <1>4, <1>5, <2>1, <2>2 DEF ProcTyped
<1>8. ASSUME NEW t \in SharedMutex  PROVE MutexOK(t)'
  <2>1. /\ t \in Sema4 /\ MutexOK(t)
        /\ sema4'[t] = sema4[t] /\ waiting'[t] = waiting[t]
    BY <1>1, Semaphores DEF Inv, SharedMutex, semVars
  <2>2. pc[n] \notin Inside(t) /\ q \notin Inside(t)
    BY <1>6 DEF SharedMutex
  <2>3. \A b \in Range(waiting[t]) : b \in Asid /\ b # n
    BY <2>1, <2>2, MorePoints DEF MutexOK, Range
  <2> QED
    BY <1>4, <2>1, <2>2, <2>3, Untouched
<1>9. MasterOK'
  <2>1. Gone' = Gone
    BY <1>2, <1>4, <1>6 DEF Gone
  <2>2. Taken' = 0 /\ Taken = 0
    BY <1>1, <1>4, <1>5, TestPoints DEF Taken
  <2>3. /\ pc'[0] # <<"dead", "">> /\ pc[0] # <<"dead", "">>
        /\ pc'[0] \in {<<"test", "create">>, <<"test", "P">>}
    BY <1>1, <1>4, TestPoints
  <2>4. /\ sema4'[masterSema4] = sema4[masterSema4]
        /\ waiting'[masterSema4] = waiting[masterSema4]
    BY <1>1 DEF semVars
  <2>5. i'[0] \in 0 .. PROCCNT - 1
    <3>1. CASE last
      BY <1>5, <3>1, UserAssumption
    <3>2. CASE ~last
      <4>1. n \in 1 .. PROCCNT /\ n # PROCCNT /\ PROCCNT \in Nat
        BY <1>2, <3>2, Processes DEF last, Asid
      <4>2. i'[0] = n
        BY <1>5, <3>2
      <4> QED
        BY <4>1, <4>2
    <3> QED
      BY <3>1, <3>2
  <2>6. pc'[0] = <<"test", "create">> =>
            \A b \in Asid : b > i'[0] => pc'[b] = <<"none", "">>
    <3>2. SUFFICES ASSUME pc'[0] = <<"test", "create">>, NEW b \in Asid,
                          b > i'[0]
                   PROVE  pc'[b] = <<"none", "">>
      OBVIOUS
    <3>3. i'[0] = n
      BY <1>4, <1>5, <3>2, TestPoints
    <3>4. b # n /\ b > i[0]
      <4>1. b \in Nat /\ b > n
        BY <3>2, <3>3, Processes
      <4>2. n \in Nat /\ n > i[0] /\ i[0] \in Int
        BY <1>2
      <4> QED
        BY <4>1, <4>2
    <3> QED
      BY <1>4, <1>0, <3>4
  <2> QED
    BY <1>1, <2>1, <2>2, <2>3, <2>4, <2>5, <2>6 DEF MasterOK
<1>10. SemTyped' /\ PagerTyped'
  BY <1>1, Same DEF SemTyped, semVars
<1> QED
  BY <1>7, <1>8, <1>9, <1>10 DEF Inv, Typed

LEMMA WaitSteps ==
    ASSUME Inv, WaitForUsers
    PROVE  Inv'
<1> DEFINE m == masterSema4
           more == i[0] + 1 < PROCCNT
<1>1. /\ ProcTyped /\ SemTyped /\ PagerTyped /\ MasterOK
      /\ pc[0] = <<"test", "P">> /\ 0 \notin Range(waiting[m])
      /\ P(0, m) /\ UNCHANGED pagerVars
      /\ pc' = [pc EXCEPT ![0] = IF more THEN <<"test", "P">>
                                         ELSE <<"test", "SYS2">>]
      /\ i' = [i EXCEPT ![0] = i[0] + 1]
  BY Semaphores DEF Inv, Typed, WaitForUsers, At, Blocked, GoTo
<1>2. /\ i[0] \in 0 .. PROCCNT - 1
      /\ sema4[m] = Cardinality(Gone) - Taken /\ sema4[m] >= -1
      /\ waiting[m] = IF sema4[m] < 0 THEN <<0>> ELSE <<>>
  BY <1>1 DEF MasterOK
<1>3. sema4[m] \in Int /\ sema4[m] >= 0 /\ waiting[m] = <<>>
  <2>1. sema4[m] \in Int
    BY <1>1, Semaphores DEF SemTyped
  <2>2. 0 \in Range(<<0>>)
    BY DEF Range
  <2> QED
    BY <1>1, <1>2, <2>1, <2>2
<1>4. /\ pc'[0] = IF more THEN <<"test", "P">> ELSE <<"test", "SYS2">>
      /\ \A b \in Asid : pc'[b] = pc[b]
      /\ pc' = [b \in Proc |-> pc'[b]]
      /\ i' \in [Proc -> Nat] /\ i'[0] = i[0] + 1
  <2>1. pc \in [Proc -> Point] /\ i \in [Proc -> Nat]
    BY <1>1 DEF ProcTyped
  <2>2. i[0] + 1 \in Nat
    BY <2>1, Processes
  <2>3. i' \in [Proc -> Nat] /\ i'[0] = i[0] + 1
    BY <1>1, <2>1, <2>2, Processes
  <2> HIDE DEF more
  <2>4. /\ pc'[0] = IF more THEN <<"test", "P">> ELSE <<"test", "SYS2">>
        /\ \A b \in Asid : pc'[b] = pc[b]
        /\ pc' = [b \in Proc |-> pc'[b]]
    BY <1>1, <2>1, Processes
  <2> QED
    BY <2>3, <2>4
<1>5. /\ sema4'[m] = sema4[m] - 1
      /\ waiting'[m] = IF sema4[m] - 1 < 0 THEN Append(<<>>, 0) ELSE <<>>
  BY <1>1, <1>3, Semaphores DEF SemTyped, P
<1>6. /\ SemTyped'
      /\ \A t \in Sema4 : t # m => /\ sema4'[t] = sema4[t]
                                   /\ waiting'[t] = waiting[t]
  BY <1>1, Semaphores, POfOne
<1> HIDE DEF m
<1>7. ProcTyped'
  <2>1. /\ pc'[0] \in TestPoint /\ \A b \in Asid : pc'[b] \in UserPoint
    BY <1>1, <1>4 DEF ProcTyped, TestPoint
  <2>2. \A b \in Proc : pc'[b] \in Point
    BY <2>1, MorePoints DEF Asid, Proc
  <2> QED
    BY <1>4, <2>1, <2>2 DEF ProcTyped
<1>8. ASSUME NEW t \in SharedMutex  PROVE MutexOK(t)'
  <2>1. /\ t \in Sema4 /\ MutexOK(t) /\ t # m
    BY Semaphores DEF Inv, SharedMutex, m
  <2>2. \A b \in Range(waiting[t]) : b \in Asid
    BY <2>1 DEF MutexOK, Range
  <2> QED
    BY <1>4, <1>6, <2>1, <2>2, Untouched
<1>9. MasterOK'
  <2>1. Gone' = Gone
    BY <1>4 DEF Gone
  <2>2. Taken = i[0] /\ Taken' = i[0] + 1
    <3>1. Taken = i[0]
      BY <1>1 DEF Taken
    <3>2. CASE more
      BY <1>4, <3>1, <3>2, TestPoints DEF Taken
    <3>3. CASE ~more
      <4>1. i[0] + 1 = PROCCNT
        BY <1>2, <3>3, Processes
      <4>2. pc'[0] = <<"test", "SYS2">> /\ pc'[0] # <<"test", "P">>
        BY <1>4, <3>3, TestPoints
      <4> QED
        BY <3>1, <4>1, <4>2 DEF Taken
    <3> QED
      BY <3>1, <3>2, <3>3
  <2>3. sema4'[m] = Cardinality(Gone)' - Taken' /\ sema4'[m] >= -1
    BY <1>2, <1>3, <1>5, <2>1, <2>2, GoneFinite
  <2>4. waiting'[m] = IF sema4'[m] < 0 THEN <<0>> ELSE <<>>
    BY <1>3, <1>5
  <2>5. pc'[0] \in {<<"test", "create">>, <<"test", "P">>} =>
            i'[0] \in 0 .. PROCCNT - 1
    <3>1. CASE more
      BY <1>2, <1>4, <3>1, Processes
    <3>2. CASE ~more
      BY <1>4, <3>2, TestPoints
    <3> QED
      BY <3>1, <3>2
  <2>6. pc'[0] # <<"test", "create">> /\ pc'[0] # <<"dead", "">>
    BY <1>4, TestPoints
  <2> QED
    BY <2>3, <2>4, <2>5, <2>6 DEF MasterOK, m
<1>10. PagerTyped'
  BY <1>1, Same
<1> QED
  BY <1>6, <1>7, <1>8, <1>9, <1>10 DEF Inv, Typed

(* Not blocked after its last P, test() has seen every V.                  *)
LEMMA AllGone ==
    ASSUME Inv, pc[0] = <<"test", "SYS2">>, ~Blocked(0)
    PROVE  Gone = Asid
<1> DEFINE m == masterSema4
<1>1. /\ SemTyped /\ MasterOK /\ m \in Sema4
  BY Semaphores DEF Inv, Typed
<1>2. /\ sema4[m] \in Int /\ sema4[m] = Cardinality(Gone) - Taken
      /\ waiting[m] = IF sema4[m] < 0 THEN <<0>> ELSE <<>>
      /\ 0 \notin Range(waiting[m])
  <2>1. pc[0] # <<"dead", "">>
    OBVIOUS
  <2> QED
    BY <1>1, <2>1 DEF SemTyped, MasterOK, Blocked
<1>3. Taken = PROCCNT
  BY DEF Taken
<1>4. 0 \in Range(<<0>>)
  BY DEF Range
<1>5. Cardinality(Gone) >= PROCCNT
  BY <1>2, <1>3, <1>4, GoneFinite, Processes
<1>6. IsFiniteSet(Asid) /\ Cardinality(Asid) = PROCCNT
  BY Processes, FS_Interval DEF Asid
<1>7. Gone \in SUBSET Asid
  BY DEF Gone
<1>8. Cardinality(Gone) = PROCCNT
  BY <1>5, GoneFinite, Processes
<1> QED
  BY <1>6, <1>7, <1>8, FS_Subset

LEMMA EndSteps ==
    ASSUME Inv, EndTest
    PROVE  Inv'
<1>1. /\ Gone = Asid /\ pc' = [a \in Proc |-> <<"dead", "">>]
      /\ UNCHANGED <<semVars, i, pagerVars>>
  BY AllGone DEF EndTest, At
<1>2. /\ <<"dead", "">> \in GonePoint /\ <<"dead", "">> \in UserPoint
      /\ <<"dead", "">> \in Point /\ <<"dead", "">> \in TestPoint
  BY DEF GonePoint, UserPoint, Point, TestPoint
<1>3. pc'[0] = <<"dead", "">> /\ \A a \in Asid : pc'[a] = <<"dead", "">>
  BY <1>1, Processes
<1>4. ProcTyped'
  BY <1>1, <1>2, <1>3 DEF ProcTyped, Inv, Typed
<1>5. ASSUME NEW t \in SharedMutex  PROVE MutexOK(t)'
  <2>1. \A q \in GonePoint : q \notin Inside(t)
    BY Points DEF SharedMutex
  <2>2. In(t) = {} /\ In(t)' = {}
    BY <1>1, <1>2, <1>3, <2>1 DEF In, Gone
  <2>3. waiting[t] = <<>> /\ MutexOK(t)
    BY <2>2 DEF Inv, MutexOK
  <2>4. waiting'[t] = <<>> /\ sema4'[t] = sema4[t]
    BY <1>1, <2>3 DEF semVars
  <2> QED
    BY <2>2, <2>3, <2>4, QueueEmpty DEF MutexOK
<1>6. MasterOK'
  <2>1. Gone' = Asid
    BY <1>2, <1>3 DEF Gone
  <2> QED
    BY <1>3, <2>1, TestPoints DEF MasterOK
<1>7. SemTyped' /\ PagerTyped'
  BY <1>1, Same DEF SemTyped, semVars, Inv, Typed
<1> QED
  BY <1>4, <1>5, <1>6, <1>7 DEF Inv, Typed

-----------------------------------------------------------------------------
(* The invariant, and what it is for.                                      *)
LEMMA InitInv == Init => Inv
<1> SUFFICES ASSUME Init  PROVE Inv
  OBVIOUS
<1>1. /\ pc = [a \in Proc |-> IF a = 0 THEN <<"test", "create">>
                                       ELSE <<"none", "">>]
      /\ \A a \in Asid : pc[a] = <<"none", "">>
      /\ pc[0] = <<"test", "create">>
      /\ i = [a \in Proc |-> 0] /\ i[0] = 0
  BY Processes DEF Init
<1>2. /\ <<"none", "">> \in UserPoint /\ <<"none", "">> \notin GonePoint
      /\ <<"none", "">> \notin Inside(swapmutex)
      /\ <<"none", "">> \notin Inside(disk0)
  BY Points
<1>3. ProcTyped
  <2>1. /\ <<"test", "create">> \in TestPoint
        /\ \A q \in TestPoint \cup UserPoint : q \in Point
    BY MorePoints DEF TestPoint
  <2> QED
    BY <1>1, <1>2, <2>1 DEF ProcTyped
<1>4. SemTyped
  <2>1. sema4 \in [Sema4 -> Int]
    <3>1. sema4 = [s \in Sema4 |-> IF s = masterSema4 THEN 0 ELSE 1]
      BY DEF Init
    <3> QED
      BY <3>1
  <2>2. waiting = [t \in Sema4 |-> waiting[t]]
    BY DEF Init
  <2> QED
    BY <2>1, <2>2 DEF SemTyped
<1>5. PagerTyped
  <2>1. NoFault \in [seg : {0, KUSEG2, KUSEG3}, page : Index,
                     resume : {<<"user", "run">>, <<"print", "char">>}]
    BY UserAssumption DEF NoFault, Index
  <2>2. 0 \in Frame
    BY UserAssumption DEF Frame
  <2> QED
    BY <2>1, <2>2 DEF Init, PagerTyped
<1>6. ASSUME NEW t \in SharedMutex  PROVE MutexOK(t)
  <2>1. /\ t \in Sema4 /\ t # masterSema4
    BY Semaphores DEF SharedMutex
  <2>2. sema4[t] = 1 /\ waiting[t] = <<>>
    BY <2>1 DEF Init
  <2>3. In(t) = {}
    BY <1>1, <1>2 DEF In, SharedMutex
  <2> QED
    BY <2>2, <2>3, QueueEmpty DEF MutexOK
<1>7. MasterOK
  <2>1. /\ sema4[masterSema4] = 0 /\ waiting[masterSema4] = <<>>
    BY Semaphores DEF Init
  <2>2. Gone = {} /\ Cardinality(Gone) = 0
    BY <1>1, <1>2, FS_EmptySet DEF Gone
  <2>3. Taken = 0
    BY <1>1, TestPoints DEF Taken
  <2>4. i[0] \in 0 .. PROCCNT - 1
    <3>1. PROCCNT \in Nat \ {0} /\ i[0] = 0
      BY <1>1, UserAssumption
    <3> QED
      BY <3>1
  <2>5. \A a \in Asid : a > i[0] => pc[a] = <<"none", "">>
    BY <1>1
  <2>6. pc[0] # <<"dead", "">>
    BY <1>1, TestPoints
  <2>7. /\ sema4[masterSema4] = Cardinality(Gone) - Taken
        /\ sema4[masterSema4] >= -1
        /\ waiting[masterSema4] =
               IF sema4[masterSema4] < 0 THEN <<0>> ELSE <<>>
    BY <2>1, <2>2, <2>3
  <2> QED
    BY <2>4, <2>5, <2>6, <2>7 DEF MasterOK
<1> QED
  BY <1>3, <1>4, <1>5, <1>6, <1>7 DEF Inv, Typed

LEMMA NextInv ==
    ASSUME PagesInTables, Inv, [Next]_vars
    PROVE  Inv'
<1>1. CASE test
  BY <1>1, CreateSteps, WaitSteps, EndSteps DEF test
<1>2. CASE DiskCompletes \/ Over \/ UNCHANGED vars
  <2>1. UNCHANGED <<pc, semVars, i, pagerVars>>
    BY <1>2 DEF DiskCompletes, Over, vars, semVars, pagerVars
  <2> QED
    BY <2>1, StutterInv
<1>3. ASSUME NEW a \in Asid, Support(a)  PROVE Inv'
  BY <1>3, TapeSteps, HandlerSteps, PrintSteps, TerminateSteps DEF Support
<1>4. ASSUME NEW a \in Asid, User(a)  PROVE Inv'
  BY <1>4, UserSteps
<1> QED
  BY <1>1, <1>2, <1>3, <1>4 DEF Next

LEMMA HoldersAre ==
    ASSUME Typed, NEW s \in SharedMutex
    PROVE  Holders(s) = In(s)
<1>1. ASSUME NEW a \in Asid  PROVE Holds(a, s) <=> a \in In(s)
  <2>1. pc[a] \in UserPoint
    BY DEF Typed, ProcTyped
  <2>2. s # Terminal(a)
    BY Semaphores
  <2>3. pc[a][1] \in {"evict", "load"} <=>
            pc[a] \in {"evict", "load"} \X {"P", "seek", "transfer", "V"}
    <3>1. CASE pc[a] \in Phase \X {"P", "seek", "transfer", "V"}
      BY <3>1
    <3>2. CASE pc[a] \notin Phase \X {"P", "seek", "transfer", "V"}
      <4>1. pc[a] \notin {"evict", "load"} \X {"P", "seek", "transfer", "V"}
        BY <3>2 DEF Phase
      <4>2. PICK f, k : /\ pc[a] = <<f, k>>
                        /\ f \in {"exit", "dead", "none", "tape", "user",
                                  "fault", "print", "lost"}
        BY <2>1, <3>2 DEF UserPoint, GonePoint
      <4> QED
        BY <4>1, <4>2
    <3> QED
      BY <3>1, <3>2
  <2>4. CASE s = swapmutex
    BY <2>2, <2>3, <2>4, Semaphores DEF Holds, In, Inside
  <2>5. CASE s = disk0
    BY <2>2, <2>5, Semaphores DEF Holds, In, Inside
  <2> QED
    BY <2>4, <2>5 DEF SharedMutex
<1> QED
  BY <1>1 DEF Holders, In

(* Each of the mutexes of the swap pool and of disk 0 has one holder at    *)
(* most, and its value is 1 less the holder and the queue: readTape and    *)
(* UserTLBHandler do one V for each P, on every path.                      *)
THEOREM MutexesAreKept ==
    ASSUME PagesInTables
    PROVE  Spec => []MutexesAgree
<1>1. Inv => MutexesAgree
  <2> SUFFICES ASSUME Inv, NEW s \in SharedMutex
               PROVE  /\ \A a, b \in Holders(s) : a = b
                      /\ sema4[s] = (IF Holders(s) = {} THEN 1 ELSE 0)
                                        - Len(waiting[s])
    BY DEF MutexesAgree, SharedMutex
  <2>1. MutexOK(s) /\ Holders(s) = In(s)
    BY HoldersAre DEF Inv
  <2> QED
    BY <2>1 DEF MutexOK
<1>2. Inv /\ [Next]_vars => Inv'
  BY NextInv
<1> QED
  BY <1>1, <1>2, InitInv, PTL DEF Spec

(* test() ends, and its children with it, only when every user process has *)
(* done the V of UserTerminate.                                            *)
THEOREM TestWaits ==
    ASSUME PagesInTables
    PROVE  Spec => []TestWaitsForAll
<1>1. Inv => TestWaitsForAll
  <2> SUFFICES ASSUME Inv, ~Blocked(0),
                      pc[0] \in {<<"test", "SYS2">>, <<"dead", "">>}
               PROVE  \A a \in Asid :
                          pc[a] \in {<<"exit", "SYS2">>, <<"dead", "">>}
    BY DEF TestWaitsForAll
  <2>1. Gone = Asid
    <3>1. CASE pc[0] = <<"test", "SYS2">>
      BY <3>1, AllGone
    <3>2. CASE pc[0] = <<"dead", "">>
      BY <3>2 DEF Inv, MasterOK
    <3> QED
      BY <3>1, <3>2
  <2> QED
    BY <2>1 DEF Gone, GonePoint
<1>2. Inv /\ [Next]_vars => Inv'
  BY NextInv
<1> QED
  BY <1>1, <1>2, InitInv, PTL DEF Spec

-----------------------------------------------------------------------------
NoSharedPages ==
    /\ \A x \in Touches[1] : x.seg = KUSEG2
    /\ \A k \in 1 .. Len(String) : String[k].seg = KUSEG2

(* What a point means to the pool: a handler at it is replacing a page, is *)
(* still to look at the tables, or is done with them.                      *)
Replacing == ({"evict", "load"} \X {"P", "seek", "transfer", "V"})
             \cup {<<"fault", "map">>}

Kind(point) ==
    IF point \in Replacing THEN "replacing"
    ELSE IF point \in {<<"fault", "P">>, <<"fault", "find">>} THEN "looking"
    ELSE IF point = <<"fault", "V">> THEN "served"
    ELSE "other"

Occupied(f) == frameSwapPool[f].asid # UNOCCUPIEDFRAME
TableOf(e)  == Table(e.asid, e.seg)
Home(f)     == pageTable[TableOf(frameSwapPool[f])][frameSwapPool[f].page]
Wanted(a)   == pageTable[Table(a, old[a].seg)][old[a].page]

-----------------------------------------------------------------------------
(* The inductive invariant, on top of Inv.                                 *)
PoolTyped ==
    /\ pageTable \in [Proc -> [Index -> [valid : BOOLEAN, frame : Frame]]]
    /\ frame \in [Asid -> Frame \cup {NOFRAME}]
    /\ frameSwapPool \in [Frame -> {Unoccupied} \cup
           [asid : Asid, seg : {KUSEG2, KUSEG3}, page : Index]]

FaultOK ==
    \A a \in Asid : Kind(pc[a]) # "other" =>
        /\ old[a].seg \in {KUSEG2, KUSEG3} /\ (old[a].seg = KUSEG3 => a # 1)
        /\ old[a].page \in Index /\ HasEntry(old[a])

ListedOK ==     \* a valid entry is listed by its frame
    \A t \in Proc, k \in Index : pageTable[t][k].valid =>
        LET f == pageTable[t][k].frame
        IN  /\ Occupied(f) /\ TableOf(frameSwapPool[f]) = t
            /\ frameSwapPool[f].page = k

HomesOK ==      \* and the entry a frame lists is valid
    \A f \in Frame : Occupied(f) =>
        \/ Home(f).valid /\ Home(f).frame = f
        \/ \E a \in Asid : Kind(pc[a]) = "replacing" /\ frame[a] = f

ReplacingOK ==
    \A a \in Asid : Kind(pc[a]) = "replacing" =>
        /\ frame[a] \in Frame
        /\ Occupied(frame[a]) => ~Home(frame[a]).valid
        /\ ~Wanted(a).valid

LookingOK ==
    \A a \in Asid : Kind(pc[a]) = "looking" /\ old[a].seg = KUSEG2 =>
        ~Wanted(a).valid

ServedOK == \A a \in Asid : Kind(pc[a]) = "served" => Wanted(a).valid

PoolInv == /\ PoolTyped /\ FaultOK /\ ListedOK /\ HomesOK
           /\ ReplacingOK /\ LookingOK /\ ServedOK

-----------------------------------------------------------------------------
(* The kinds of points, and what they mean for the swap mutex.             *)
LEMMA Kinds ==
    /\ \A k \in {"P", "seek", "transfer", "V"} :
           /\ Kind(<<"evict", k>>) = "replacing"
           /\ Kind(<<"load", k>>) = "replacing"
           /\ Kind(<<"tape", k>>) = "other"
    /\ Kind(<<"fault", "map">>) = "replacing"
    /\ Kind(<<"fault", "P">>) = "looking"
    /\ Kind(<<"fault", "find">>) = "looking"
    /\ Kind(<<"fault", "V">>) = "served"
    /\ \A q \in {<<"none", "">>, <<"tape", "read">>, <<"user", "run">>,
                 <<"print", "char">>, <<"exit", "V">>, <<"lost", "">>,
                 <<"exit", "SYS2">>, <<"dead", "">>} :
           Kind(q) = "other"
<1>1. \A f, k : <<f, k>> \in Replacing <=>
          \/ f \in {"evict", "load"} /\ k \in {"P", "seek", "transfer", "V"}
          \/ f = "fault" /\ k = "map"
  BY DEF Replacing
<1>2. \A f, k, g, l : <<f, k>> = <<g, l>> <=> f = g /\ k = l
  OBVIOUS
<1> HIDE DEF Replacing
<1>3. \A f, k :
          \/ (f = "fault" /\ k \in {"P", "find"}
                  /\ Kind(<<f, k>>) = "looking")
          \/ (f = "fault" /\ k = "V" /\ Kind(<<f, k>>) = "served")
          \/ (/\ \/ (f = "fault" /\ k = "map")
                 \/ (f \in {"evict", "load"}
                         /\ k \in {"P", "seek", "transfer", "V"})
              /\ Kind(<<f, k>>) = "replacing")
          \/ (/\ ~(f = "fault" /\ k \in {"P", "find", "map", "V"})
              /\ ~(f \in {"evict", "load"}
                       /\ k \in {"P", "seek", "transfer", "V"})
              /\ Kind(<<f, k>>) = "other")
  <2> TAKE f, k
  <2>1. <<f, k>> \in {<<"fault", "P">>, <<"fault", "find">>}
            <=> f = "fault" /\ k \in {"P", "find"}
    BY <1>2
  <2>2. <<f, k>> = <<"fault", "V">> <=> f = "fault" /\ k = "V"
    BY <1>2
  <2> QED
    BY <1>1, <2>1, <2>2 DEF Kind
<1> HIDE DEF Kind
<1>4. \A k \in {"P", "seek", "transfer", "V"} :
           /\ Kind(<<"evict", k>>) = "replacing"
           /\ Kind(<<"load", k>>) = "replacing"
           /\ Kind(<<"tape", k>>) = "other"
  BY <1>3
<1>5. /\ Kind(<<"fault", "map">>) = "replacing"
      /\ Kind(<<"fault", "P">>) = "looking"
      /\ Kind(<<"fault", "find">>) = "looking"
      /\ Kind(<<"fault", "V">>) = "served"
  BY <1>3
<1>6. /\ Kind(<<"none", "">>) = "other" /\ Kind(<<"tape", "read">>) = "other"
      /\ Kind(<<"user", "run">>) = "other"
      /\ Kind(<<"print", "char">>) = "other"
      /\ Kind(<<"exit", "V">>) = "other" /\ Kind(<<"lost", "">>) = "other"
      /\ Kind(<<"exit", "SYS2">>) = "other"
      /\ Kind(<<"dead", "">>) = "other"
  BY <1>3
<1> QED
  BY <1>4, <1>5, <1>6

(* A process at work on the pool keeps the others from it.                 *)
LEMMA OneReplaces ==
    ASSUME Inv, NEW a \in Asid, a \in In(swapmutex), NEW b \in Asid,
           Kind(pc[b]) \in {"replacing", "served"}
    PROVE  b = a
<1>1. pc[b] \in Inside(swapmutex) /\ pc[b] # <<"fault", "find">>
  <2>1. CASE pc[b] \in Replacing
    <3>1. pc[b] \in Inside(swapmutex)
      BY <2>1 DEF Replacing, Inside
    <3>2. <<"fault", "find">> \notin Replacing
      BY DEF Replacing
    <3> QED
      BY <2>1, <3>1, <3>2
  <2>2. CASE pc[b] = <<"fault", "V">>
    BY <2>2 DEF Inside
  <2> QED
    BY <2>1, <2>2 DEF Kind
<1>2. MutexOK(swapmutex) /\ Entering(swapmutex) = {<<"fault", "find">>}
  BY DEF Inv, SharedMutex, Entering
<1>3. b \notin Range(waiting[swapmutex])
  BY <1>1, <1>2 DEF MutexOK
<1> QED
  BY <1>1, <1>2, <1>3 DEF In, MutexOK

-----------------------------------------------------------------------------
(* Steps that leave the pool and the tables alone.                         *)
LEMMA PoolStill ==
    ASSUME PoolInv, UNCHANGED <<old, frame, frameSwapPool, pageTable>>,
           \A a \in Asid : Kind(pc'[a]) = Kind(pc[a])
    PROVE  PoolInv'
<1>1. PoolTyped' /\ FaultOK' /\ ListedOK'
  BY DEF PoolInv, PoolTyped, FaultOK, ListedOK, Occupied, TableOf
<1>2. /\ \A f \in Frame : Home(f)' = Home(f) /\ (Occupied(f)' <=> Occupied(f))
      /\ \A a \in Asid : Wanted(a)' = Wanted(a)
  BY DEF Home, Occupied, Wanted, TableOf
<1>3. HomesOK' /\ ReplacingOK' /\ LookingOK' /\ ServedOK'
  BY <1>2 DEF PoolInv, HomesOK, ReplacingOK, LookingOK, ServedOK
<1> QED
  BY <1>1, <1>3 DEF PoolInv

LEMMA PcMoves ==
    ASSUME Inv, NEW a \in Asid, NEW q, GoTo(a, q)
    PROVE  pc'[a] = q /\ \A b \in Asid : b # a => pc'[b] = pc[b]
  BY Processes DEF GoTo, Inv, Typed, ProcTyped

LEMMA PoolMove ==
    ASSUME Inv, PoolInv, NEW a \in Asid, NEW q, GoTo(a, q),
           Kind(q) = Kind(pc[a]),
           UNCHANGED <<old, frame, frameSwapPool, pageTable>>
    PROVE  PoolInv'
<1>1. \A b \in Asid : Kind(pc'[b]) = Kind(pc[b])
  BY PcMoves
<1> QED
  BY <1>1, PoolStill

LEMMA PoolFault ==     \* the exception of a program
    ASSUME Inv, PoolInv, NEW a \in Asid, NEW x \in VPage, x.page \in Index,
           x.seg = KUSEG3 => a # 1, NEW resume,
           Kind(pc[a]) = "other", TLBException(a, x, resume)
    PROVE  PoolInv'
<1>1. CASE ~HasEntry(x)
  <2>1. /\ GoTo(a, <<"exit", "V">>)
        /\ UNCHANGED <<old, frame, frameSwapPool, pageTable>>
    BY <1>1 DEF TLBException
  <2> QED
    BY <2>1, Kinds, PoolMove
<1>2. CASE HasEntry(x)
  <2> DEFINE r == [seg |-> x.seg, page |-> x.page, resume |-> resume]
  <2>1. /\ old' = [old EXCEPT ![a] = r] /\ GoTo(a, <<"fault", "P">>)
        /\ UNCHANGED <<frame, frameSwapPool, pageTable>>
        /\ ~Valid(a, x)
    BY <1>2 DEF TLBException
  <2>2. /\ Kind(pc'[a]) = "looking"
        /\ \A b \in Asid : b # a => pc'[b] = pc[b]
    BY <2>1, PcMoves, Kinds
  <2>3. /\ old'[a] = r /\ \A b \in Asid : b # a => old'[b] = old[b]
    BY <2>1 DEF Inv, Typed, PagerTyped
  <2>4. /\ old'[a].seg = x.seg /\ old'[a].page = x.page
        /\ x.seg \in {KUSEG2, KUSEG3}
    BY <2>3 DEF VPage
  <2>5. ~Wanted(a)'.valid
    <3>1. Entry(x) = x.page
      BY UserAssumption DEF Entry, Index
    <3>2. ~pageTable[Table(a, x.seg)][x.page].valid
      BY <1>2, <2>1, <3>1 DEF Valid, PTE
    <3> QED
      BY <2>1, <2>4, <3>2 DEF Wanted
  <2>6. \A b \in Asid : b # a => Wanted(b)' = Wanted(b)
    BY <2>1, <2>3 DEF Wanted
  <2>7. \A f \in Frame : Home(f)' = Home(f) /\ (Occupied(f)' <=> Occupied(f))
    BY <2>1 DEF Home, Occupied, TableOf
  <2>8. PoolTyped' /\ ListedOK'
    BY <2>1 DEF PoolInv, PoolTyped, ListedOK, Occupied, TableOf
  <2>9. HasEntry(old[a])'
    BY <1>2, <2>4 DEF HasEntry
  <2>10. FaultOK'
    <3>1. SUFFICES ASSUME NEW b \in Asid, Kind(pc'[b]) # "other"
                   PROVE  /\ old'[b].seg \in {KUSEG2, KUSEG3}
                          /\ old'[b].seg = KUSEG3 => b # 1
                          /\ old'[b].page \in Index /\ HasEntry(old[b])'
      BY DEF FaultOK
    <3>2. CASE b = a
      BY <2>4, <2>9, <3>2
    <3>3. CASE b # a
      BY <2>2, <2>3, <3>1, <3>3 DEF PoolInv, FaultOK
    <3> QED
      BY <3>2, <3>3
  <2>11. HomesOK'
    BY <2>1, <2>2, <2>7 DEF PoolInv, HomesOK
  <2>12. ReplacingOK' /\ LookingOK' /\ ServedOK'
    BY <2>1, <2>2, <2>3, <2>5, <2>6, <2>7
       DEF PoolInv, ReplacingOK, LookingOK, ServedOK
  <2> QED
    BY <2>8, <2>10, <2>11, <2>12 DEF PoolInv
<1> QED
  BY <1>1, <1>2

LEMMA PoolResume ==     \* the end of the handler
    ASSUME Inv, PoolInv, NEW a \in Asid, Kind(pc[a]) \in {"looking", "served"},
           Resume(a), UNCHANGED <<frameSwapPool, pageTable>>
    PROVE  PoolInv'
<1>1. /\ Kind(pc'[a]) = "other" /\ \A b \in Asid : b # a => pc'[b] = pc[b]
  <2>1. old[a].resume \in {<<"user", "run">>, <<"print", "char">>}
    BY DEF Inv, Typed, PagerTyped
  <2>2. Kind(old[a].resume) = "other"
    BY <2>1, Kinds
  <2> QED
    BY <2>2, PcMoves DEF Resume
<1>2. /\ frame' \in [Asid -> Frame \cup {NOFRAME}]
      /\ \A b \in Asid : b # a => old'[b] = old[b] /\ frame'[b] = frame[b]
  BY DEF Resume, PoolInv, PoolTyped, Inv, Typed, PagerTyped
<1>3. /\ \A f \in Frame : Home(f)' = Home(f) /\ (Occupied(f)' <=> Occupied(f))
      /\ \A b \in Asid : b # a => Wanted(b)' = Wanted(b)
                                  /\ (HasEntry(old[b])' <=> HasEntry(old[b]))
  BY <1>2 DEF Home, Occupied, TableOf, Wanted, HasEntry
<1>4. PoolTyped' /\ ListedOK'
  BY <1>2 DEF PoolInv, PoolTyped, ListedOK, Occupied, TableOf
<1>5. FaultOK'
  BY <1>1, <1>2, <1>3 DEF PoolInv, FaultOK
<1>6. HomesOK'
  BY <1>1, <1>2, <1>3 DEF PoolInv, HomesOK
<1>7. ReplacingOK' /\ LookingOK' /\ ServedOK'
  BY <1>1, <1>2, <1>3 DEF PoolInv, ReplacingOK, LookingOK, ServedOK
<1> QED
  BY <1>4, <1>5, <1>6, <1>7 DEF PoolInv

(* Where the entries of the pool and of the faults are.                    *)
LEMMA Slots ==
    ASSUME PoolInv
    PROVE  /\ \A f \in Frame : Occupied(f) =>
                  /\ frameSwapPool[f].page \in Index
                  /\ TableOf(frameSwapPool[f]) \in Proc
                  /\ Home(f).valid \in BOOLEAN
           /\ \A a \in Asid : Kind(pc[a]) # "other" =>
                  /\ old[a].page \in Index
                  /\ Table(a, old[a].seg) \in Proc
                  /\ Wanted(a).valid \in BOOLEAN
<1>1. \A a \in Asid : \A seg : Table(a, seg) \in Proc
  BY Processes DEF Table
<1>2. ASSUME NEW f \in Frame, Occupied(f)
      PROVE  /\ frameSwapPool[f].page \in Index
             /\ TableOf(frameSwapPool[f]) \in Proc
  <2>1. frameSwapPool[f] \in
            [asid : Asid, seg : {KUSEG2, KUSEG3}, page : Index]
    BY <1>2 DEF PoolInv, PoolTyped, Occupied, Unoccupied
  <2> QED
    BY <1>1, <2>1 DEF TableOf
<1>3. \A t \in Proc, k \in Index : pageTable[t][k].valid \in BOOLEAN
  BY DEF PoolInv, PoolTyped
<1> QED
  BY <1>1, <1>2, <1>3 DEF Home, Wanted, PoolInv, FaultOK

(* ChooseFrame finds a page to replace, or a frame nobody has.             *)
LEMMA Chosen ==
    ASSUME Inv, PoolInv, NEW a \in Asid, ChooseFrame(a), ~AlreadyThere(a),
           NEW f, f = findFrame
    PROVE  /\ f \in Frame /\ pc[a] = <<"fault", "find">>
           /\ UNCHANGED <<old, frameSwapPool>>
           /\ ~Wanted(a).valid
           /\ \A b \in Asid : Kind(pc[b]) \notin {"replacing", "served"}
           /\ \A g \in Frame :
                  Occupied(g) => Home(g).valid /\ Home(g).frame = g
           /\ pc'[a] = (IF Occupied(f) THEN <<"evict", "P">>
                                       ELSE <<"load", "P">>)
           /\ \A b \in Asid : b # a => pc'[b] = pc[b]
           /\ pageTable' \in
                  [Proc -> [Index -> [valid : BOOLEAN, frame : Frame]]]
           /\ \A t \in Proc, k \in Index :
                  /\ pageTable'[t][k].frame = pageTable[t][k].frame
                  /\ pageTable'[t][k].valid <=>
                         /\ pageTable[t][k].valid
                         /\ ~(Occupied(f) /\ t = TableOf(frameSwapPool[f])
                              /\ k = frameSwapPool[f].page)
           /\ frame'[a] = f /\ \A b \in Asid : b # a => frame'[b] = frame[b]
           /\ frame' \in [Asid -> Frame \cup {NOFRAME}]
           /\ staleTLB' \in {staleTLB, {}}
<1> DEFINE e == frameSwapPool[f]
<1>1. /\ pc[a] = <<"fault", "find">> /\ a \in In(swapmutex)
      /\ frame' = [frame EXCEPT ![a] = f] /\ Boot(a, e)
      /\ UNCHANGED <<old, frameSwapPool>>
  <2>1. At(a, "fault", "find")
    BY DEF ChooseFrame
  <2>2. /\ <<"fault", "find">> \in Inside(swapmutex)
    BY Points
  <2> QED
    BY <2>1, <2>2, Semaphores DEF ChooseFrame, At, In, Blocked
<1>2. f \in Frame
  BY UserAssumption DEF findFrame, Frame, Inv, Typed, PagerTyped
<1>3. \A b \in Asid : Kind(pc[b]) \notin {"replacing", "served"}
  <2>1. Kind(pc[a]) = "looking"
    BY <1>1, Kinds
  <2> QED
    BY <1>1, <2>1, OneReplaces
<1>4. \A g \in Frame : Occupied(g) => Home(g).valid /\ Home(g).frame = g
  BY <1>3 DEF PoolInv, HomesOK
<1>5. ~Wanted(a).valid
  <2>1. Kind(pc[a]) = "looking"
    BY <1>1, Kinds
  <2>2. CASE old[a].seg = KUSEG2
    BY <2>1, <2>2 DEF PoolInv, LookingOK
  <2>3. CASE old[a].seg # KUSEG2
    <3>1. old[a].seg = KUSEG3 /\ a # 1
      BY <2>1, <2>3 DEF PoolInv, FaultOK
    <3> QED
      BY <2>3, <3>1 DEF AlreadyThere, Wanted, Table
  <2> QED
    BY <2>2, <2>3
<1>6. PICK q : GoTo(a, q)
               /\ q = (IF Occupied(f) THEN <<"evict", "P">> ELSE <<"load", "P">>)
               /\ \/ /\ ~Occupied(f) /\ UNCHANGED pageTable
                  \/ /\ Occupied(f)
                     /\ FlipValid(TableOf(e), e.page)
  <2>1. CASE ~Occupied(f)
    <3>1. GoTo(a, <<"load", "P">>) /\ UNCHANGED pageTable
      BY <1>1, <2>1 DEF Boot, Occupied
    <3> QED
      BY <2>1, <3>1
  <2>2. CASE Occupied(f)
    <3>1. e.page \in Index
      BY <1>2, <2>2, Slots
    <3>2. GoTo(a, <<"evict", "P">>) /\ FlipValid(TableOf(e), e.page)
      BY <1>1, <2>2, <3>1 DEF Boot, Occupied, TableOf
    <3> QED
      BY <2>2, <3>2
  <2> QED
    BY <2>1, <2>2
<1>7. /\ pc'[a] = (IF Occupied(f) THEN <<"evict", "P">> ELSE <<"load", "P">>)
      /\ \A b \in Asid : b # a => pc'[b] = pc[b]
  BY <1>6, PcMoves
<1>8. /\ pageTable' \in [Proc -> [Index -> [valid : BOOLEAN, frame : Frame]]]
      /\ \A t \in Proc, k \in Index :
             /\ pageTable'[t][k].frame = pageTable[t][k].frame
             /\ pageTable'[t][k].valid <=>
                    /\ pageTable[t][k].valid
                    /\ ~(Occupied(f) /\ t = TableOf(e) /\ k = e.page)
  <2>1. CASE ~Occupied(f)
    BY <1>6, <2>1 DEF PoolInv, PoolTyped
  <2>2. CASE Occupied(f)
    <3>1. /\ e.page \in Index /\ TableOf(e) \in Proc
          /\ pageTable[TableOf(e)][e.page].valid = TRUE
      BY <1>2, <1>4, <2>2, Slots DEF Home
    <3> DEFINE u == TableOf(e)
               p == e.page
               E == [valid : BOOLEAN, frame : Frame]
    <3>2. pageTable' = [pageTable EXCEPT ![u] = [pageTable[u] EXCEPT
              ![p] = [pageTable[u][p] EXCEPT !.valid = FALSE]]]
      BY <1>6, <2>2, <3>1 DEF FlipValid
    <3>3. /\ pageTable \in [Proc -> [Index -> E]]
          /\ u \in Proc /\ p \in Index
      BY <3>1 DEF PoolInv, PoolTyped
    <3> HIDE DEF u, p, E
    <3> DEFINE r   == pageTable[u][p]
               new == [r EXCEPT !.valid = FALSE]
    <3>4. /\ new \in E /\ new.valid = FALSE
          /\ new.frame = pageTable[u][p].frame
      <4>1. r \in E
        BY <3>3
      <4> HIDE DEF r
      <4>2. new \in E /\ new.valid = FALSE /\ new.frame = r.frame
        BY <4>1 DEF E
      <4> QED
        BY <4>2 DEF r
    <3> HIDE DEF new
    <3>5. /\ pageTable' \in [Proc -> [Index -> E]]
          /\ \A t \in Proc, k \in Index : pageTable'[t][k] =
                 IF t = u /\ k = p THEN new ELSE pageTable[t][k]
      BY <3>2, <3>3, <3>4 DEF new
    <3> QED
      BY <2>2, <3>4, <3>5 DEF u, p, E
  <2> QED
    BY <2>1, <2>2
<1>9. /\ \A g : (Occupied(g)' <=> Occupied(g))
                /\ TableOf(frameSwapPool[g])' = TableOf(frameSwapPool[g])
                /\ frameSwapPool'[g] = frameSwapPool[g]
      /\ frame'[a] = f /\ \A b \in Asid : b # a => frame'[b] = frame[b]
      /\ frame' \in [Asid -> Frame \cup {NOFRAME}]
  BY <1>1, <1>2 DEF Occupied, TableOf, PoolInv, PoolTyped
<1>10. staleTLB' \in {staleTLB, {}}
  <2>1. CASE ~Occupied(f)
    BY <1>1, <2>1 DEF Boot, Occupied
  <2>2. CASE Occupied(f)
    <3>1. e.page \in Index
      BY <1>2, <2>2, Slots
    <3> QED
      BY <1>1, <2>2, <3>1 DEF Boot, Occupied, FlipValid
  <2> QED
    BY <2>1, <2>2
<1> HIDE DEF e
<1> QED
  BY <1>1, <1>2, <1>3, <1>4, <1>5, <1>7, <1>8, <1>9, <1>10 DEF e

LEMMA PoolChoose ==
    ASSUME Inv, PoolInv, NEW a \in Asid, ChooseFrame(a)
    PROVE  PoolInv'
<1>1. CASE AlreadyThere(a)
  <2>1. Resume(a) /\ UNCHANGED <<frameSwapPool, pageTable>>
        /\ Kind(pc[a]) = "looking"
    BY <1>1, Kinds DEF ChooseFrame, At
  <2> QED
    BY <2>1, PoolResume
<1>2. CASE ~AlreadyThere(a)
  <2> DEFINE f == findFrame
             e == frameSwapPool[f]
  <2>1. /\ pc[a] = <<"fault", "find">> /\ f \in Frame
        /\ UNCHANGED <<old, frameSwapPool>>
        /\ ~Wanted(a).valid
    BY <1>2, Chosen
  <2>2. /\ \A b \in Asid : Kind(pc[b]) \notin {"replacing", "served"}
        /\ \A g \in Frame : Occupied(g) => Home(g).valid /\ Home(g).frame = g
    BY <1>2, Chosen
  <2>3. /\ Kind(pc'[a]) = "replacing"
        /\ \A b \in Asid : b # a => pc'[b] = pc[b]
    <3>1. pc'[a] \in {<<"evict", "P">>, <<"load", "P">>}
      BY <1>2, Chosen
    <3>2. Kind(pc'[a]) = "replacing"
      BY <3>1, Kinds
    <3> QED
      BY <1>2, <3>2, Chosen
  <2>4. /\ pageTable' \in [Proc -> [Index -> [valid : BOOLEAN, frame : Frame]]]
        /\ \A t \in Proc, k \in Index :
               /\ pageTable'[t][k].frame = pageTable[t][k].frame
               /\ pageTable'[t][k].valid <=>
                      /\ pageTable[t][k].valid
                      /\ ~(Occupied(f) /\ t = TableOf(e) /\ k = e.page)
    BY <1>2, Chosen
  <2>5. /\ \A g : (Occupied(g)' <=> Occupied(g))
                  /\ TableOf(frameSwapPool[g])' = TableOf(frameSwapPool[g])
                  /\ frameSwapPool'[g] = frameSwapPool[g]
        /\ frame'[a] = f /\ \A b \in Asid : b # a => frame'[b] = frame[b]
        /\ frame' \in [Asid -> Frame \cup {NOFRAME}]
    <3>1. /\ frame'[a] = f /\ \A b \in Asid : b # a => frame'[b] = frame[b]
          /\ frame' \in [Asid -> Frame \cup {NOFRAME}]
      BY <1>2, Chosen
    <3> QED
      BY <2>1, <3>1 DEF Occupied, TableOf
  <2> HIDE DEF f
  <2>6. \A b \in Asid : Kind(pc[b]) # "other" =>
             (Wanted(b)'.valid => Wanted(b).valid)
    BY <2>1, <2>4, Slots DEF Wanted
  <2>7. PoolTyped' /\ FaultOK'
    <3>1. FaultOK'
      <4>1. Kind(pc[a]) # "other"
        BY <2>1, Kinds
      <4>2. \A b \in Asid : Kind(pc'[b]) # "other" => Kind(pc[b]) # "other"
        BY <2>3, <4>1
      <4> QED
        BY <2>1, <4>2 DEF PoolInv, FaultOK
    <3> QED
      BY <2>1, <2>4, <2>5, <3>1 DEF PoolInv, PoolTyped
  <2>8. ListedOK'
    <3>1. ASSUME NEW t \in Proc, NEW k \in Index, pageTable'[t][k].valid
          PROVE  LET g == pageTable[t][k].frame
                 IN  /\ g = pageTable'[t][k].frame
                     /\ Occupied(g) /\ TableOf(frameSwapPool[g]) = t
                     /\ frameSwapPool[g].page = k
      BY <2>4, <3>1 DEF PoolInv, ListedOK
    <3> QED
      BY <2>1, <3>1 DEF ListedOK, Occupied, TableOf
  <2>9. HomesOK'
    <3> SUFFICES ASSUME NEW g \in Frame, Occupied(g)'
                 PROVE  \/ Home(g)'.valid /\ Home(g)'.frame = g
                        \/ \E b \in Asid : Kind(pc'[b]) = "replacing"
                                           /\ frame'[b] = g
      BY DEF HomesOK
    <3>1. CASE g = f
      BY <2>3, <2>5, <3>1
    <3>2. CASE g # f
      <4>1. /\ Occupied(g) /\ Home(g).valid /\ Home(g).frame = g
            /\ frameSwapPool[g].page \in Index
            /\ TableOf(frameSwapPool[g]) \in Proc
        BY <2>2, <2>5, Slots
      <4>2. ASSUME Occupied(f), TableOf(frameSwapPool[g]) = TableOf(e),
                   frameSwapPool[g].page = e.page
            PROVE  FALSE
        <5>1. Home(f) = Home(g) /\ Home(f).frame = f
          BY <2>1, <2>2, <4>2 DEF Home
        <5> QED
          BY <3>2, <4>1, <5>1
      <4>3. Home(g)' = pageTable'[TableOf(frameSwapPool[g])]
                                 [frameSwapPool[g].page]
        BY <2>5 DEF Home
      <4> QED
        BY <2>4, <4>1, <4>2, <4>3 DEF Home
    <3> QED
      BY <3>1, <3>2
  <2>10. ReplacingOK'
    <3> SUFFICES ASSUME NEW b \in Asid, Kind(pc'[b]) = "replacing"
                 PROVE  /\ frame'[b] \in Frame
                        /\ Occupied(frame[b])' => ~Home(frame[b])'.valid
                        /\ ~Wanted(b)'.valid
      BY DEF ReplacingOK
    <3>1. b = a
      BY <2>2, <2>3
    <3>2. frame'[b] = f /\ f \in Frame
      BY <2>1, <2>5, <3>1
    <3>3. Kind(pc[a]) # "other"
      BY <2>1, Kinds
    <3>4. ~Wanted(b)'.valid
      BY <2>1, <2>6, <3>1, <3>3
    <3>5. ASSUME Occupied(f)  PROVE ~Home(frame[b])'.valid
      <4>1. Home(frame[b])' = pageTable'[TableOf(e)][e.page]
        BY <2>5, <3>2 DEF Home
      <4>2. e.page \in Index /\ TableOf(e) \in Proc
        BY <2>1, <3>5, Slots
      <4> QED
        BY <2>4, <3>5, <4>1, <4>2
    <3>6. Occupied(frame[b])' => Occupied(f)
      BY <2>1, <3>2 DEF Occupied
    <3> QED
      BY <3>2, <3>4, <3>5, <3>6
  <2>11. LookingOK' /\ ServedOK'
    BY <2>1, <2>2, <2>3, <2>6 DEF PoolInv, LookingOK, ServedOK
  <2> QED
    BY <2>7, <2>8, <2>9, <2>10, <2>11 DEF PoolInv
<1> QED
  BY <1>1, <1>2

(* MapPage enters the page in the pool and in its table.                   *)
LEMMA Mapped ==
    ASSUME Inv, PoolInv, NEW a \in Asid, MapPage(a)
    PROVE  /\ pc[a] = <<"fault", "map">> /\ frame[a] \in Frame
           /\ Table(a, old[a].seg) \in Proc /\ old[a].page \in Index
           /\ old[a].seg \in {KUSEG2, KUSEG3}
           /\ UNCHANGED <<old, frame>>
           /\ ~Wanted(a).valid
           /\ \A b \in Asid :
                  b # a => Kind(pc[b]) \notin {"replacing", "served"}
           /\ pc'[a] = <<"fault", "V">>
           /\ \A b \in Asid : b # a => pc'[b] = pc[b]
           /\ \A t \in Proc, k \in Index :
                  pageTable[t][k].valid => pageTable[t][k].frame # frame[a]
           /\ pageTable' \in
                  [Proc -> [Index -> [valid : BOOLEAN, frame : Frame]]]
           /\ \A t \in Proc, k \in Index : pageTable'[t][k] =
                  IF t = Table(a, old[a].seg) /\ k = old[a].page
                  THEN [valid |-> TRUE, frame |-> frame[a]]
                  ELSE pageTable[t][k]
           /\ frameSwapPool'[frame[a]] =
                  [asid |-> a, seg |-> old[a].seg, page |-> old[a].page]
           /\ \A g \in Frame :
                  g # frame[a] => frameSwapPool'[g] = frameSwapPool[g]
           /\ frameSwapPool' \in [Frame -> {Unoccupied} \cup
                  [asid : Asid, seg : {KUSEG2, KUSEG3}, page : Index]]
           /\ staleTLB' = {}
<1> DEFINE f == frame[a]
           u == Table(a, old[a].seg)
           p == old[a].page
           E == [valid : BOOLEAN, frame : Frame]
           new == [valid |-> TRUE, frame |-> f]
           r == [asid |-> a, seg |-> old[a].seg, page |-> p]
<1>1. /\ pc[a] = <<"fault", "map">> /\ a \in In(swapmutex)
      /\ UNCHANGED <<old, frame>>
      /\ frameSwapPool' = [frameSwapPool EXCEPT ![f] = r]
  <2>1. At(a, "fault", "map") /\ <<"fault", "map">> \in Inside(swapmutex)
    BY Points DEF MapPage
  <2> QED
    BY <2>1, Semaphores DEF MapPage, At, In, Blocked
<1>2. Kind(pc[a]) = "replacing"
  BY <1>1, Kinds
<1>3. /\ f \in Frame /\ ~Wanted(a).valid
      /\ old[a].seg \in {KUSEG2, KUSEG3} /\ p \in Index /\ u \in Proc
      /\ Occupied(f) => ~Home(f).valid
  BY <1>2, Slots DEF PoolInv, FaultOK, ReplacingOK
<1>4. /\ GoTo(a, <<"fault", "V">>) /\ staleTLB' = {}
      /\ pageTable' = [pageTable EXCEPT ![u] =
                           [pageTable[u] EXCEPT ![p] = new]]
  BY <1>3 DEF MapPage
<1>5. /\ pc'[a] = <<"fault", "V">>
      /\ \A b \in Asid : b # a => pc'[b] = pc[b]
  BY <1>4, PcMoves
<1>6. \A b \in Asid : b # a => Kind(pc[b]) \notin {"replacing", "served"}
  BY <1>1, OneReplaces
<1>7. \A t \in Proc, k \in Index :
          pageTable[t][k].valid => pageTable[t][k].frame # f
  <2> SUFFICES ASSUME NEW t \in Proc, NEW k \in Index, pageTable[t][k].valid,
                      pageTable[t][k].frame = f
               PROVE  FALSE
    OBVIOUS
  <2>1. /\ Occupied(f) /\ TableOf(frameSwapPool[f]) = t
        /\ frameSwapPool[f].page = k
    BY DEF PoolInv, ListedOK
  <2> QED
    BY <1>3, <2>1 DEF Home
<1>8. PoolTyped /\ FaultOK /\ ListedOK /\ HomesOK /\ LookingOK
  BY DEF PoolInv
<1>9. r \in [asid : Asid, seg : {KUSEG2, KUSEG3}, page : Index]
      /\ r.asid = a /\ r.seg = old[a].seg /\ r.page = p
  BY <1>3
<1>10. /\ pageTable \in [Proc -> [Index -> E]]
       /\ new \in E /\ new.valid = TRUE /\ new.frame = f
  BY <1>3, <1>8 DEF PoolTyped
<1> HIDE DEF u, p, f, E, new, r
<1>11. /\ pageTable' \in [Proc -> [Index -> E]]
       /\ \A t \in Proc, k \in Index : pageTable'[t][k] =
              IF t = u /\ k = p THEN new ELSE pageTable[t][k]
  BY <1>3, <1>4, <1>10
<1>12. /\ frameSwapPool'[f] = r
       /\ \A g \in Frame : g # f => frameSwapPool'[g] = frameSwapPool[g]
       /\ frameSwapPool' \in [Frame -> {Unoccupied} \cup
              [asid : Asid, seg : {KUSEG2, KUSEG3}, page : Index]]
  BY <1>1, <1>3, <1>8, <1>9 DEF PoolTyped
<1> QED
  BY <1>1, <1>3, <1>4, <1>5, <1>6, <1>7, <1>11, <1>12 DEF u, p, f, E, new, r

LEMMA PoolMap ==
    ASSUME Inv, PoolInv, NEW a \in Asid, MapPage(a)
    PROVE  PoolInv'
<1> DEFINE f == frame[a]
           u == Table(a, old[a].seg)
           p == old[a].page
           E == [valid : BOOLEAN, frame : Frame]
           new == [valid |-> TRUE, frame |-> f]
           r == [asid |-> a, seg |-> old[a].seg, page |-> p]
<1>1. UNCHANGED <<old, frame>>
  BY Mapped
<1>2. Kind(pc[a]) = "replacing"
  BY Mapped, Kinds
<1>3. /\ f \in Frame /\ ~Wanted(a).valid
      /\ old[a].seg \in {KUSEG2, KUSEG3} /\ p \in Index /\ u \in Proc
  BY Mapped
<1>5. /\ Kind(pc'[a]) = "served"
      /\ \A b \in Asid : b # a => pc'[b] = pc[b]
  BY Mapped, Kinds
<1>6. \A b \in Asid : b # a => Kind(pc[b]) \notin {"replacing", "served"}
  BY Mapped
<1>7. \A t \in Proc, k \in Index :
          pageTable[t][k].valid => pageTable[t][k].frame # f
  BY Mapped
<1>8. PoolTyped /\ FaultOK /\ ListedOK /\ HomesOK /\ LookingOK
  BY DEF PoolInv
<1>9. r \in [asid : Asid, seg : {KUSEG2, KUSEG3}, page : Index]
      /\ r.asid = a /\ r.seg = old[a].seg /\ r.page = p
  BY <1>3
<1>10. /\ pageTable \in [Proc -> [Index -> E]]
       /\ new \in E /\ new.valid = TRUE /\ new.frame = f
  BY <1>3, <1>8 DEF PoolTyped
<1>11. /\ pageTable' \in [Proc -> [Index -> E]]
       /\ \A t \in Proc, k \in Index : pageTable'[t][k] =
              IF t = u /\ k = p THEN new ELSE pageTable[t][k]
  BY Mapped
<1>12. /\ frameSwapPool'[f] = r
       /\ \A g \in Frame : g # f => frameSwapPool'[g] = frameSwapPool[g]
       /\ frameSwapPool' \in [Frame -> {Unoccupied} \cup
              [asid : Asid, seg : {KUSEG2, KUSEG3}, page : Index]]
  BY Mapped
<1> HIDE DEF u, p, f, E, new, r
<1>13. r.asid # UNOCCUPIEDFRAME /\ TableOf(r) = u /\ r.page = p
  BY <1>9, Processes DEF UNOCCUPIEDFRAME, TableOf, u
<1>14. PoolTyped'
  BY <1>1, <1>8, <1>11, <1>12 DEF PoolTyped, E
<1>15. FaultOK'
  <2>1. \A b \in Asid : Kind(pc'[b]) # "other" => Kind(pc[b]) # "other"
    BY <1>2, <1>5
  <2> QED
    BY <1>1, <1>8, <2>1 DEF FaultOK
<1>16. ListedOK'
  <2>1. ASSUME NEW t \in Proc, NEW k \in Index, pageTable'[t][k].valid
        PROVE  LET g == pageTable'[t][k].frame
               IN  /\ frameSwapPool'[g].asid # UNOCCUPIEDFRAME
                   /\ TableOf(frameSwapPool'[g]) = t
                   /\ frameSwapPool'[g].page = k
    <3>1. CASE t = u /\ k = p
      BY <1>10, <1>11, <1>12, <1>13, <3>1
    <3>2. CASE ~(t = u /\ k = p)
      <4> DEFINE g == pageTable[t][k].frame
      <4>1. /\ pageTable'[t][k] = pageTable[t][k] /\ pageTable[t][k].valid
        BY <1>11, <2>1, <3>2
      <4>2. g # f /\ g \in Frame
        BY <1>7, <1>10, <4>1 DEF E
      <4>3. /\ frameSwapPool[g].asid # UNOCCUPIEDFRAME
            /\ TableOf(frameSwapPool[g]) = t /\ frameSwapPool[g].page = k
        BY <1>8, <4>1 DEF ListedOK, Occupied
      <4> QED
        BY <1>12, <4>1, <4>2, <4>3
    <3> QED
      BY <3>1, <3>2
  <2> QED
    BY <2>1 DEF ListedOK, Occupied, TableOf
<1>17. HomesOK'
  <2> SUFFICES ASSUME NEW g \in Frame,
                      frameSwapPool'[g].asid # UNOCCUPIEDFRAME
               PROVE  LET entry == pageTable'[TableOf(frameSwapPool'[g])]
                                             [frameSwapPool'[g].page]
                      IN  entry.valid /\ entry.frame = g
    BY DEF HomesOK, Occupied, Home, TableOf
  <2>1. CASE g = f
    BY <1>3, <1>10, <1>11, <1>12, <1>13, <2>1 DEF u, p
  <2>2. CASE g # f
    <3>1. frameSwapPool'[g] = frameSwapPool[g] /\ Occupied(g)
      BY <1>12, <2>2 DEF Occupied
    <3>2. Home(g).valid /\ Home(g).frame = g
      BY <1>6, <1>8, <2>2, <3>1 DEF HomesOK, f
    <3>3. /\ frameSwapPool[g].page \in Index
          /\ TableOf(frameSwapPool[g]) \in Proc
      BY <3>1, Slots
    <3>4. ~(TableOf(frameSwapPool[g]) = u /\ frameSwapPool[g].page = p)
      BY <1>3, <3>2 DEF Home, Wanted, u, p
    <3> QED
      BY <1>11, <3>1, <3>2, <3>3, <3>4 DEF Home
  <2> QED
    BY <2>1, <2>2
<1>18. ReplacingOK'
  BY <1>5, <1>6 DEF ReplacingOK
<1>19. LookingOK'
  <2> SUFFICES ASSUME NEW b \in Asid, Kind(pc'[b]) = "looking",
                      old'[b].seg = KUSEG2
               PROVE  ~pageTable'[Table(b, old'[b].seg)][old'[b].page].valid
    BY DEF LookingOK, Wanted
  <2>1. b # a /\ Kind(pc[b]) = "looking" /\ old'[b] = old[b]
    BY <1>1, <1>5
  <2>2. /\ ~pageTable[Table(b, old[b].seg)][old[b].page].valid
        /\ old[b].page \in Index /\ Table(b, old[b].seg) \in Proc
        /\ old[b].seg = KUSEG2
    BY <1>8, <2>1, Slots DEF LookingOK, Wanted
  <2>3. Table(b, old[b].seg) # u
    BY <1>3, <2>1, <2>2, Processes DEF Table, u, KUSEG2, KUSEG3
  <2> QED
    BY <1>11, <2>1, <2>2, <2>3
<1>20. ServedOK'
  <2> SUFFICES ASSUME NEW b \in Asid, Kind(pc'[b]) = "served"
               PROVE  pageTable'[Table(b, old'[b].seg)][old'[b].page].valid
    BY DEF ServedOK, Wanted
  <2>1. b = a
    BY <1>5, <1>6
  <2> QED
    BY <1>1, <1>3, <1>10, <1>11, <2>1 DEF u, p
<1> QED
  BY <1>14, <1>15, <1>16, <1>17, <1>18, <1>19, <1>20 DEF PoolInv

-----------------------------------------------------------------------------
(* The steps, one after the other.                                         *)
LEMMA PoolDisk ==
    ASSUME Inv, PoolInv, NEW a \in Asid, NEW for \in Phase,
           GainDisk(a, for) \/ Seek(a, for) \/ Transfer(a, for)
    PROVE  PoolInv'
<1>1. PICK k \in {"P", "seek", "transfer"}, l \in {"seek", "transfer", "V"} :
          /\ pc[a] = <<for, k>> /\ GoTo(a, <<for, l>>)
          /\ UNCHANGED <<old, frame, frameSwapPool, pageTable>>
  <2>1. UNCHANGED <<old, frame, frameSwapPool, pageTable>>
    BY DEF GainDisk, Seek, Transfer, pagerVars
  <2>2. CASE GainDisk(a, for)
    BY <2>1, <2>2 DEF GainDisk, At
  <2>3. CASE Seek(a, for)
    BY <2>1, <2>3 DEF Seek, At
  <2>4. CASE Transfer(a, for)
    BY <2>1, <2>4 DEF Transfer, At
  <2> QED
    BY <2>2, <2>3, <2>4
<1>2. Kind(<<for, k>>) = Kind(<<for, l>>)
  <2>1. CASE for = "tape"
    BY <2>1, Kinds
  <2>2. CASE for = "evict"
    BY <2>2, Kinds
  <2>3. CASE for = "load"
    BY <2>3, Kinds
  <2> QED
    BY <2>1, <2>2, <2>3 DEF Phase
<1> QED
  BY <1>1, <1>2, PoolMove

LEMMA PoolTape ==
    ASSUME Inv, PoolInv, NEW a \in Asid, readTape(a)
    PROVE  PoolInv'
<1>1. CASE ReadBlock(a) \/ NextBlock(a)
  <2>1. /\ pc[a] \in {<<"tape", "read">>, <<"tape", "V">>}
        /\ UNCHANGED <<old, frame, frameSwapPool, pageTable>>
    BY <1>1 DEF ReadBlock, NextBlock, ReleaseDisk, At, pagerVars
  <2>2. PICK q \in {<<"tape", "P">>, <<"tape", "read">>, <<"user", "run">>} :
            GoTo(a, q)
    BY <1>1 DEF ReadBlock, NextBlock, ReleaseDisk, StartUser
  <2>3. Kind(pc[a]) = "other" /\ Kind(q) = "other"
    BY <2>1, Kinds
  <2> QED
    BY <2>1, <2>2, <2>3, PoolMove
<1>2. CASE GainDisk(a, "tape") \/ Seek(a, "tape") \/ Transfer(a, "tape")
  BY <1>2, PoolDisk DEF Phase
<1> QED
  BY <1>1, <1>2 DEF readTape

LEMMA PoolHandler ==
    ASSUME Inv, PoolInv, NEW a \in Asid, UserTLBHandler(a)
    PROVE  PoolInv'
<1>1. CASE GainPool(a)
  <2>1. /\ pc[a] = <<"fault", "P">> /\ GoTo(a, <<"fault", "find">>)
        /\ UNCHANGED <<old, frame, frameSwapPool, pageTable>>
    BY <1>1 DEF GainPool, At, pagerVars
  <2> QED
    BY <2>1, Kinds, PoolMove
<1>2. CASE Evicted(a) \/ Loaded(a)
  <2>1. PICK for \in {"evict", "load"} : pc[a] = <<for, "V">>
    BY <1>2 DEF Evicted, Loaded, ReleaseDisk, At
  <2>2. PICK q \in {<<"load", "P">>, <<"fault", "map">>} : GoTo(a, q)
    BY <1>2 DEF Evicted, Loaded, ReleaseDisk
  <2>3. UNCHANGED <<old, frame, frameSwapPool, pageTable>>
    BY <1>2 DEF Evicted, Loaded, ReleaseDisk, pagerVars
  <2>4. Kind(pc[a]) = "replacing" /\ Kind(q) = "replacing"
    BY <2>1, <2>2, Kinds
  <2> QED
    BY <2>2, <2>3, <2>4, PoolMove
<1>3. CASE ReleasePool(a)
  <2>1. Resume(a) /\ UNCHANGED <<frameSwapPool, pageTable>>
        /\ Kind(pc[a]) = "served"
    BY <1>3, Kinds DEF ReleasePool, At
  <2> QED
    BY <2>1, PoolResume
<1>4. CASE \E for \in {"evict", "load"} :
               GainDisk(a, for) \/ Seek(a, for) \/ Transfer(a, for)
  BY <1>4, PoolDisk DEF Phase
<1> QED
  BY <1>1, <1>2, <1>3, <1>4, PoolChoose, PoolMap DEF UserTLBHandler

LEMMA PoolUser ==     \* the programs, their calls and their ends
    ASSUME PagesInTables, NoSharedPages, Inv, PoolInv, NEW a \in Asid,
           User(a) \/ WriteToTerminal(a) \/ UserTerminate(a)
    PROVE  PoolInv'
<1>1. Kind(pc[a]) = "other"
  <2>1. pc[a] \in {<<"user", "run">>, <<"print", "char">>, <<"exit", "V">>,
                   <<"exit", "SYS2">>}
    BY DEF User, WriteToTerminal, UserTerminate, Store, UserFault, UserTrap,
           EmptyCall, PrintCall, PrintChar, PrintFault, PrintEnd, At
  <2> QED
    BY <2>1, Kinds
<1>2. CASE UserFault(a)
  <2>1. PICK x \in Touches[a] : TLBException(a, x, <<"user", "run">>)
    BY <1>2 DEF UserFault
  <2>2. x \in VPage /\ x.page \in Index /\ (x.seg = KUSEG3 => a # 1)
    BY UserAssumption DEF PagesInTables, NoSharedPages, KUSEG2, KUSEG3
  <2> QED
    BY <1>1, <2>1, <2>2, PoolFault
<1>3. CASE PrintFault(a)
  <2> DEFINE x == String[i[a] + 1]
  <2>1. i[a] \in Nat /\ i[a] < Len(String) /\ Len(String) \in Nat
        /\ TLBException(a, x, <<"print", "char">>)
    BY <1>3, Same, UserAssumption, LenProperties DEF PrintFault
  <2>2. i[a] + 1 \in 1 .. Len(String)
    BY <2>1
  <2>3. x \in VPage /\ x.page \in Index /\ x.seg = KUSEG2
    BY <2>2, UserAssumption, ElementOfSeq DEF PagesInTables, NoSharedPages
  <2> HIDE DEF x
  <2> QED
    BY <1>1, <2>1, <2>3, PoolFault DEF KUSEG2, KUSEG3
<1>4. CASE ~UserFault(a) /\ ~PrintFault(a)
  <2>1. UNCHANGED <<old, frame, frameSwapPool, pageTable>>
    BY <1>4 DEF User, WriteToTerminal, UserTerminate, Store, UserTrap,
                EmptyCall, PrintCall, PrintChar, PrintDone, PrintEnd, pagerVars
  <2>2. \/ UNCHANGED pc
        \/ \E q \in {<<"user", "run">>, <<"print", "char">>, <<"exit", "V">>,
                     <<"exit", "SYS2">>, <<"dead", "">>, <<"lost", "">>} :
               GoTo(a, q)
    BY <1>4 DEF User, WriteToTerminal, UserTerminate, Store, UserTrap, ToExit,
                EmptyCall, PrintCall, PrintChar, PrintDone, PrintEnd
  <2>3. CASE UNCHANGED pc
    BY <2>1, <2>3, PoolStill
  <2>4. ASSUME NEW q \in {<<"user", "run">>, <<"print", "char">>,
                    <<"exit", "V">>, <<"exit", "SYS2">>, <<"dead", "">>,
                    <<"lost", "">>}, GoTo(a, q)
        PROVE  PoolInv'
    <3>1. Kind(q) = "other"
      BY Kinds
    <3> QED
      BY <1>1, <2>1, <2>4, <3>1, PoolMove
  <2> QED
    BY <2>2, <2>3, <2>4
<1> QED
  BY <1>2, <1>3, <1>4

LEMMA PoolTest ==
    ASSUME Inv, PoolInv, test
    PROVE  PoolInv'
<1>1. UNCHANGED <<old, frame, frameSwapPool, pageTable>>
  BY DEF test, CreateUser, WaitForUsers, EndTest, pagerVars
<1>2. CASE CreateUser
  <2> DEFINE n == i[0] + 1
  <2>1. /\ pc[0] = <<"test", "create">> /\ pc \in [Proc -> Point]
        /\ \E q : pc' = [pc EXCEPT ![n] = <<"tape", "read">>, ![0] = q]
    BY <1>2 DEF CreateUser, At, Inv, Typed, ProcTyped
  <2>2. ASSUME NEW b \in Asid, b = n
        PROVE  Kind(pc[b]) = "other" /\ Kind(pc'[b]) = "other"
    <3>1. i[0] \in 0 .. PROCCNT - 1
      BY <2>1 DEF Inv, MasterOK
    <3>2. b > i[0]
      BY <2>2, <3>1, Processes
    <3>3. pc[b] = <<"none", "">>
      BY <2>1, <3>2 DEF Inv, MasterOK
    <3>4. pc'[b] = <<"tape", "read">>
      BY <2>1, <2>2, Processes
    <3> QED
      BY <3>3, <3>4, Kinds
  <2>3. ASSUME NEW b \in Asid, b # n  PROVE pc'[b] = pc[b]
    BY <2>1, <2>3, Processes
  <2> QED
    BY <1>1, <2>2, <2>3, PoolStill
<1>3. CASE WaitForUsers
  <2>1. \A b \in Asid : pc'[b] = pc[b]
    BY <1>3, Processes DEF WaitForUsers, GoTo, Inv, Typed, ProcTyped
  <2> QED
    BY <1>1, <2>1, PoolStill
<1>4. CASE EndTest
  <2>1. Gone = Asid /\ pc' = [a \in Proc |-> <<"dead", "">>]
    BY <1>4, AllGone DEF EndTest, At
  <2>2. ASSUME NEW b \in Asid
        PROVE  Kind(pc[b]) = "other" /\ Kind(pc'[b]) = "other"
    <3>1. pc[b] \in {<<"exit", "SYS2">>, <<"dead", "">>}
      BY <2>1 DEF Gone, GonePoint
    <3>2. pc'[b] = <<"dead", "">>
      BY <2>1, Processes
    <3> QED
      BY <3>1, <3>2, Kinds
  <2> QED
    BY <1>1, <2>2, PoolStill
<1> QED
  BY <1>2, <1>3, <1>4 DEF test

-----------------------------------------------------------------------------
(* The invariant, and what it is for.                                      *)
LEMMA PoolInit ==
    ASSUME Init
    PROVE  PoolInv
<1>1. \A a \in Asid : Kind(pc[a]) = "other"
  <2>1. \A a \in Asid : pc[a] = <<"none", "">>
    BY Processes DEF Init
  <2> QED
    BY <2>1, Kinds
<1>2. \A f \in Frame : frameSwapPool[f] = Unoccupied /\ ~Occupied(f)
  BY DEF Init, Occupied, Unoccupied
<1>3. \A t \in Proc, k \in Index : pageTable[t][k].valid = FALSE
  BY DEF Init
<1>4. PoolTyped
  <2>1. 0 \in Frame
    BY UserAssumption DEF Frame
  <2>2. pageTable \in [Proc -> [Index -> [valid : BOOLEAN, frame : Frame]]]
    BY <2>1 DEF Init
  <2>3. frame \in [Asid -> Frame \cup {NOFRAME}]
    BY DEF Init
  <2>4. frameSwapPool \in [Frame -> {Unoccupied} \cup
            [asid : Asid, seg : {KUSEG2, KUSEG3}, page : Index]]
    BY DEF Init
  <2> QED
    BY <2>2, <2>3, <2>4 DEF PoolTyped
<1>5. ListedOK /\ HomesOK
  BY <1>2, <1>3 DEF ListedOK, HomesOK
<1>6. FaultOK /\ ReplacingOK /\ LookingOK /\ ServedOK
  BY <1>1 DEF FaultOK, ReplacingOK, LookingOK, ServedOK
<1> QED
  BY <1>4, <1>5, <1>6 DEF PoolInv

LEMMA PoolNext ==
    ASSUME PagesInTables, NoSharedPages, Inv, PoolInv, [Next]_vars
    PROVE  PoolInv'
<1>1. CASE DiskCompletes \/ Over \/ UNCHANGED vars
  <2>1. UNCHANGED <<pc, old, frame, frameSwapPool, pageTable>>
    BY <1>1 DEF DiskCompletes, Over, vars, pagerVars
  <2> QED
    BY <2>1, PoolStill
<1>2. ASSUME NEW a \in Asid, Support(a) \/ User(a)  PROVE PoolInv'
  BY <1>2, PoolTape, PoolHandler, PoolUser DEF Support
<1> QED
  BY <1>1, <1>2, PoolTest DEF Next

(* The pool and the page tables describe each other: no two pages share a  *)
(* frame, and a handler that turns a valid bit over turns it off.          *)
THEOREM PoolAndTables ==
    ASSUME PagesInTables, NoSharedPages
    PROVE  Spec => []PoolMatchesTables
<1>1. Inv /\ PoolInv => PoolMatchesTables
  <2> SUFFICES ASSUME Inv, PoolInv  PROVE PoolMatchesTables
    OBVIOUS
  <2>1. \A k \in Index : \A e : e.page = k => Entry(e) = k
    BY UserAssumption DEF Entry, Index
  <2>2. ASSUME NEW t \in Proc, NEW k \in Index, pageTable[t][k].valid
        PROVE  LET e == frameSwapPool[pageTable[t][k].frame]
               IN  e.asid # UNOCCUPIEDFRAME /\ Table(e.asid, e.seg) = t
                   /\ Entry(e) = k
    BY <2>1, <2>2 DEF PoolInv, ListedOK, Occupied, TableOf
  <2>3. ASSUME NEW f \in Frame, frameSwapPool[f].asid # UNOCCUPIEDFRAME
        PROVE  LET e == frameSwapPool[f]
               IN  \/ PTE(e.asid, e) = [valid |-> TRUE, frame |-> f]
                   \/ \E a \in Asid : Holds(a, swapmutex) /\ frame[a] = f
    <3>1. /\ Occupied(f) /\ frameSwapPool[f].page \in Index
          /\ TableOf(frameSwapPool[f]) \in Proc
      BY <2>3, Slots DEF Occupied
    <3>2. CASE Home(f).valid /\ Home(f).frame = f
      <4>1. Home(f) \in [valid : BOOLEAN, frame : Frame]
        BY <3>1 DEF Home, PoolInv, PoolTyped
      <4>2. Home(f) = [valid |-> TRUE, frame |-> f]
        BY <3>2, <4>1
      <4>3. PTE(frameSwapPool[f].asid, frameSwapPool[f]) = Home(f)
        BY <2>1, <3>1 DEF PTE, Home, TableOf
      <4> QED
        BY <4>2, <4>3
    <3>3. CASE \E a \in Asid : Kind(pc[a]) = "replacing" /\ frame[a] = f
      <4>1. PICK a \in Asid : Kind(pc[a]) = "replacing" /\ frame[a] = f
        BY <3>3
      <4>2. pc[a] \in Replacing
        BY <4>1 DEF Kind
      <4>3. /\ pc[a] \in Inside(swapmutex) /\ pc[a] # <<"fault", "find">>
        BY <4>2 DEF Replacing, Inside
      <4>4. MutexOK(swapmutex) /\ Entering(swapmutex) = {<<"fault", "find">>}
        BY DEF Inv, SharedMutex, Entering
      <4>5. a \in In(swapmutex)
        BY <4>3, <4>4 DEF MutexOK, In
      <4>6. Holds(a, swapmutex)
        BY <4>5, HoldersAre DEF Inv, SharedMutex, Holders
      <4> QED
        BY <4>1, <4>6
    <3> QED
      BY <3>1, <3>2, <3>3 DEF PoolInv, HomesOK
  <2> QED
    BY <2>2, <2>3 DEF PoolMatchesTables
<1>2. Inv /\ PoolInv /\ [Next]_vars => (Inv /\ PoolInv)'
  BY NextInv, PoolNext
<1>3. Init => Inv /\ PoolInv
  BY InitInv, PoolInit
<1> QED
  BY <1>1, <1>2, <1>3, PTL DEF Spec

-----------------------------------------------------------------------------
(* Who takes a process from its fault back to its program.                 *)
LEMMA OwnStep ==
    ASSUME NEW b \in Asid, Support(b) \/ User(b)
    PROVE  UNCHANGED pc \/ \E q : GoTo(b, q)
<1>1. CASE User(b)
  BY <1>1 DEF User, Store, UserFault, TLBException, UserTrap, EmptyCall,
              PrintCall
<1>2. CASE WriteToTerminal(b) \/ UserTerminate(b)
  BY <1>2 DEF WriteToTerminal, PrintChar, PrintFault, PrintEnd, PrintDone,
              TLBException, UserTerminate
<1>3. CASE readTape(b)
  BY <1>3 DEF readTape, ReadBlock, StartUser, NextBlock, ReleaseDisk,
              GainDisk, Seek, Transfer
<1>4. CASE UserTLBHandler(b)
  BY <1>4 DEF UserTLBHandler, GainPool, ChooseFrame, Resume, Boot, Overrun,
              GainDisk, Seek, Transfer, Evicted, Loaded, ReleaseDisk, MapPage,
              ReleasePool
<1> QED
  BY <1>1, <1>2, <1>3, <1>4 DEF Support

(* The page whose fault UserTLBHandler has handled is valid when the       *)
(* program goes on.                                                        *)
THEOREM FaultsAreServed ==
    ASSUME PagesInTables, NoSharedPages
    PROVE  Spec => ServedIsValid
<1> DEFINE Served == \A a \in Asid :
               pc[a][1] = "fault" /\ pc'[a] = old[a].resume =>
                   Valid(a, [seg |-> old[a].seg, page |-> old[a].page])
<1>1. Inv /\ PoolInv /\ [Next]_vars => [Served]_vars
  <2> SUFFICES ASSUME Inv, PoolInv, Next, NEW a \in Asid,
                      pc[a][1] = "fault", pc'[a] = old[a].resume
               PROVE  Valid(a, [seg |-> old[a].seg, page |-> old[a].page])
    OBVIOUS
  <2>1. ASSUME Wanted(a).valid, Kind(pc[a]) # "other"
        PROVE  Valid(a, [seg |-> old[a].seg, page |-> old[a].page])
    <3>1. /\ old[a].page \in Index /\ HasEntry(old[a])
      BY <2>1 DEF PoolInv, FaultOK
    <3> DEFINE x == [seg |-> old[a].seg, page |-> old[a].page]
    <3>2. /\ x.seg = old[a].seg /\ x.page = old[a].page
      OBVIOUS
    <3>3. HasEntry(x) /\ Entry(x) = old[a].page
      BY <3>1, <3>2, UserAssumption DEF HasEntry, Entry, Index
    <3> HIDE DEF x
    <3>4. Valid(a, x)
      BY <2>1, <3>2, <3>3 DEF Valid, PTE, Wanted
    <3> QED
      BY <3>4 DEF x
  <2>2. /\ pc'[a] \in {<<"user", "run">>, <<"print", "char">>}
        /\ pc'[a][1] # "fault"
    BY DEF Inv, Typed, PagerTyped
  <2>3. Support(a) \/ User(a)
    <3>1. ~test
      <4>1. CASE CreateUser
        <5>1. /\ pc[0] = <<"test", "create">> /\ pc \in [Proc -> Point]
              /\ \E q : pc' = [pc EXCEPT ![i[0] + 1] = <<"tape", "read">>,
                                         ![0] = q]
          BY <4>1 DEF CreateUser, At, Inv, Typed, ProcTyped
        <5>2. pc'[a] = <<"tape", "read">> \/ pc'[a] = pc[a]
          BY <5>1, Processes
        <5> QED
          BY <2>2, <5>2
      <4>2. CASE WaitForUsers
        BY <2>2, <4>2, Processes DEF WaitForUsers, GoTo, Inv, Typed, ProcTyped
      <4>3. CASE EndTest
        BY <2>2, <4>3, Processes DEF EndTest
      <4> QED
        BY <4>1, <4>2, <4>3 DEF test
    <3>2. ~(DiskCompletes \/ Over)
      BY <2>2 DEF DiskCompletes, Over, vars
    <3>3. PICK b \in Asid : Support(b) \/ User(b)
      BY <3>1, <3>2 DEF Next
    <3>4. b = a
      BY <2>2, <3>3, OwnStep, PcMoves
    <3> QED
      BY <3>3, <3>4
  <2>4. GainPool(a) \/ ChooseFrame(a) \/ MapPage(a) \/ ReleasePool(a)
    <3>1. \A f, k : At(a, f, k) => f = "fault"
      BY DEF At
    <3>2. ~User(a)
      BY <3>1 DEF User, Store, UserFault, UserTrap, EmptyCall, PrintCall
    <3>3. ~WriteToTerminal(a) /\ ~UserTerminate(a)
      BY <3>1 DEF WriteToTerminal, PrintChar, PrintFault, PrintEnd,
                  UserTerminate
    <3>4. ASSUME NEW for \in {"tape", "evict", "load"}
          PROVE  /\ ~GainDisk(a, for) /\ ~Seek(a, for) /\ ~Transfer(a, for)
                 /\ \A q : ~ReleaseDisk(a, for, q)
      BY <3>1 DEF GainDisk, Seek, Transfer, ReleaseDisk
    <3>5. ~readTape(a)
      BY <3>1, <3>4 DEF readTape, ReadBlock, NextBlock
    <3>6. UserTLBHandler(a)
      BY <2>3, <3>2, <3>3, <3>5 DEF Support
    <3> QED
      BY <3>4, <3>6 DEF UserTLBHandler, Evicted, Loaded
  <2>5. CASE GainPool(a)
    BY <2>2, <2>5, PcMoves DEF GainPool
  <2>6. CASE ChooseFrame(a)
    <3>1. Kind(pc[a]) = "looking"
      BY <2>6, Kinds DEF ChooseFrame, At
    <3>2. CASE AlreadyThere(a)
      <4>1. old[a].seg = KUSEG3 /\ a # 1
        BY <3>1, <3>2 DEF AlreadyThere, PoolInv, FaultOK
      <4>2. Wanted(a).valid
        BY <3>2, <4>1 DEF AlreadyThere, Wanted, Table, KUSEG2, KUSEG3
      <4> QED
        BY <2>1, <3>1, <4>2
    <3>3. CASE ~AlreadyThere(a)
      <4>1. /\ Boot(a, frameSwapPool[findFrame]) /\ findFrame \in Frame
        BY <2>6, <3>3, UserAssumption
           DEF ChooseFrame, findFrame, Frame, Inv, Typed, PagerTyped
      <4>2. \/ frameSwapPool[findFrame].asid = UNOCCUPIEDFRAME
            \/ frameSwapPool[findFrame].page \in Index
        BY <4>1 DEF PoolInv, PoolTyped, Unoccupied
      <4>3. PICK q \in {<<"load", "P">>, <<"evict", "P">>} : GoTo(a, q)
        BY <4>1, <4>2 DEF Boot
      <4>4. q \notin {<<"user", "run">>, <<"print", "char">>}
        OBVIOUS
      <4> QED
        BY <2>2, <4>3, <4>4, PcMoves
    <3> QED
      BY <3>2, <3>3
  <2>7. CASE MapPage(a)
    <3>1. GoTo(a, <<"fault", "V">>)
      BY <2>7 DEF MapPage, Inv, Typed, PagerTyped
    <3> QED
      BY <2>2, <3>1, PcMoves
  <2>8. CASE ReleasePool(a)
    <3>1. Kind(pc[a]) = "served"
      BY <2>8, Kinds DEF ReleasePool, At
    <3> QED
      BY <2>1, <3>1 DEF PoolInv, ServedOK
  <2> QED
    BY <2>4, <2>5, <2>6, <2>7, <2>8
<1>2. Inv /\ PoolInv /\ [Next]_vars => (Inv /\ PoolInv)'
  BY NextInv, PoolNext
<1>3. Init => Inv /\ PoolInv
  BY InitInv, PoolInit
<1>4. Spec => [][Served]_vars
  <2> HIDE DEF Served
  <2> QED
    BY <1>1, <1>2, <1>3, PTL DEF Spec
<1> QED
  BY <1>4 DEF ServedIsValid
=============================================================================
