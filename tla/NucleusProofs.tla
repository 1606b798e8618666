---------------------------- MODULE NucleusProofs ----------------------------
(***************************************************************************)
(* Theorems about Nucleus for any number of processes, semaphores and      *)
(* devices, with their proofs.  They use the queues through lemmas on what *)
(* the queue operations of KayaState do to the set of pcbs on a queue      *)
(* (Contains), to its length and to the absence of duplicates (Distinct).  *)
(***************************************************************************)
EXTENDS Nucleus, SequenceTheorems, FiniteSetTheorems, TLAPS

(* The empty queue.                                                        *)
LEMMA QueueEmpty ==
    /\ <<>> \in Seq(Proc)
    /\ Len(<<>>) = 0
    /\ Distinct(<<>>)
    /\ \A x : ~Contains(<<>>, x)
BY DEF Distinct, Contains

(* A queue that is not empty has a head.                                   *)
LEMMA QueueNonEmpty ==
    ASSUME NEW q \in Seq(Proc)
    PROVE  /\ Len(q) \in Nat
           /\ Len(q) = 0 <=> q = <<>>
           /\ \A x : Contains(q, x) => x \in Proc /\ q # <<>>
<1>1. Len(q) \in Nat /\ (Len(q) = 0 <=> q = <<>>)
  BY EmptySeq, LenProperties
<1>2. \A i \in 1 .. Len(q) : q[i] \in Proc
  BY ElementOfSeq
<1> QED
  BY <1>1, <1>2 DEF Contains

(* insertProcQ: one more element, at the tail.                             *)
LEMMA QueueInsert ==
    ASSUME NEW q \in Seq(Proc), NEW p \in Proc
    PROVE  /\ insertProcQ(q, p) \in Seq(Proc)
           /\ insertProcQ(q, p) # <<>>
           /\ Len(insertProcQ(q, p)) = Len(q) + 1
           /\ \A x : Contains(insertProcQ(q, p), x) <=> Contains(q, x) \/ x = p
           /\ Distinct(q) /\ ~Contains(q, p) => Distinct(insertProcQ(q, p))
<1> DEFINE r == insertProcQ(q, p)
<1>1. /\ r \in Seq(Proc) /\ r # <<>>
      /\ Len(r) = Len(q) + 1
      /\ \A i \in 1 .. Len(q) : r[i] = q[i]
      /\ r[Len(q) + 1] = p
  BY AppendProperties DEF insertProcQ
<1>2. Len(q) \in Nat
  BY LenProperties
<1> HIDE DEF r
<1>3. 1 .. Len(r) = (1 .. Len(q)) \cup {Len(q) + 1}
  BY <1>1, <1>2
<1>4. \A x : Contains(r, x) <=> Contains(q, x) \/ x = p
  BY <1>1, <1>2, <1>3 DEF Contains
<1>5. Distinct(q) /\ ~Contains(q, p) => Distinct(r)
  BY <1>1, <1>2, <1>3 DEF Distinct, Contains
<1> QED
  BY <1>1, <1>4, <1>5 DEF r

(* removeProcQ: the head leaves, the others stay in order.                 *)
LEMMA QueueRemove ==
    ASSUME NEW q \in Seq(Proc), q # <<>>
    PROVE  /\ Head(q) \in Proc
           /\ Tail(q) \in Seq(Proc)
           /\ Len(Tail(q)) = Len(q) - 1
           /\ \A x : Contains(q, x) <=> x = Head(q) \/ Contains(Tail(q), x)
           /\ Distinct(q) => Distinct(Tail(q)) /\ ~Contains(Tail(q), Head(q))
<1> DEFINE r == Tail(q)
<1>1. /\ Head(q) \in Proc /\ r \in Seq(Proc)
      /\ Len(r) = Len(q) - 1
      /\ \A i \in 1 .. Len(r) : r[i] = q[i + 1]
  BY HeadTailProperties
<1>2. Len(q) \in Nat /\ Len(q) > 0 /\ Head(q) = q[1]
  BY LenProperties, EmptySeq
<1> HIDE DEF r
<1>3. \A x : Contains(q, x) => x = Head(q) \/ Contains(r, x)
  <2> SUFFICES ASSUME NEW i \in 1 .. Len(q), i # 1
               PROVE  Contains(r, q[i])
    BY <1>2 DEF Contains
  <2>1. i - 1 \in 1 .. Len(r) /\ r[i - 1] = q[i]
    BY <1>1, <1>2
  <2> QED
    BY <2>1 DEF Contains
<1>4. \A x : x = Head(q) \/ Contains(r, x) => Contains(q, x)
  <2>1. Contains(q, Head(q))
    BY <1>2 DEF Contains
  <2>2. \A i \in 1 .. Len(r) : i + 1 \in 1 .. Len(q)
    BY <1>1, <1>2
  <2> QED
    BY <1>1, <2>1, <2>2 DEF Contains
<1>5. Distinct(q) => Distinct(r) /\ ~Contains(r, Head(q))
  BY <1>1, <1>2 DEF Distinct, Contains
<1> QED
  BY <1>1, <1>3, <1>4, <1>5 DEF r

(* A queue cut in two behind its first n elements.                         *)
LEMMA QueueSplit ==
    ASSUME NEW q \in Seq(Proc), NEW n \in 0 .. Len(q)
    PROVE  LET a == SubSeq(q, 1, n)
               b == SubSeq(q, n + 1, Len(q))
           IN  /\ a \in Seq(Proc) /\ Len(a) = n
               /\ b \in Seq(Proc) /\ Len(b) = Len(q) - n
               /\ \A x : Contains(q, x) <=> Contains(a, x) \/ Contains(b, x)
               /\ Distinct(q) => /\ Distinct(a) /\ Distinct(b)
                                 /\ \A x : ~(Contains(a, x) /\ Contains(b, x))
<1> DEFINE a == SubSeq(q, 1, n)
           b == SubSeq(q, n + 1, Len(q))
<1>1. Len(q) \in Nat /\ \A i \in 1 .. Len(q) : q[i] \in Proc
  BY LenProperties, ElementOfSeq
<1>2. /\ a \in Seq(Proc) /\ Len(a) = n
      /\ \A i \in 1 .. n : a[i] = q[i]
  BY <1>1, SubSeqProperties
<1>3. /\ b \in Seq(Proc) /\ Len(b) = Len(q) - n
      /\ \A i \in 1 .. Len(q) - n : b[i] = q[n + i]
  BY <1>1, SubSeqProperties
<1> HIDE DEF a, b
<1>4. \A x : Contains(q, x) => Contains(a, x) \/ Contains(b, x)
  <2> SUFFICES ASSUME NEW i \in 1 .. Len(q)
               PROVE  Contains(a, q[i]) \/ Contains(b, q[i])
    BY DEF Contains
  <2>1. CASE i <= n
    BY <2>1, <1>1, <1>2 DEF Contains
  <2>2. CASE i > n
    <3>1. i - n \in 1 .. Len(b) /\ b[i - n] = q[i]
      BY <2>2, <1>1, <1>3
    <3> QED
      BY <3>1 DEF Contains
  <2> QED
    BY <2>1, <2>2, <1>1
<1>5. \A x : Contains(a, x) \/ Contains(b, x) => Contains(q, x)
  <2>1. \A i \in 1 .. Len(b) : n + i \in 1 .. Len(q)
    BY <1>1, <1>3
  <2>2. \A i \in 1 .. Len(a) : i \in 1 .. Len(q)
    BY <1>1, <1>2
  <2> QED
    BY <1>2, <1>3, <2>1, <2>2 DEF Contains
<1>6. ASSUME Distinct(q)
      PROVE  /\ Distinct(a) /\ Distinct(b)
             /\ \A x : ~(Contains(a, x) /\ Contains(b, x))
  <2>1. Distinct(a)
    BY <1>1, <1>2, <1>6 DEF Distinct
  <2>2. Distinct(b)
    <3>1. \A i \in 1 .. Len(b) : n + i \in 1 .. Len(q)
      BY <1>1, <1>3
    <3> QED
      BY <1>1, <1>3, <1>6, <3>1 DEF Distinct
  <2>3. ASSUME NEW i \in 1 .. n, NEW j \in 1 .. Len(q) - n, a[i] = b[j]
        PROVE  FALSE
    <3>1. n + j \in 1 .. Len(q) /\ i \in 1 .. Len(q) /\ i # n + j
      BY <1>1
    <3> QED
      BY <1>2, <1>3, <1>6, <2>3, <3>1 DEF Distinct
  <2> QED
    BY <1>2, <1>3, <2>1, <2>2, <2>3 DEF Contains
<1> QED
  BY <1>2, <1>3, <1>4, <1>5, <1>6 DEF a, b

(* One queue behind another.                                               *)
LEMMA QueueConcat ==
    ASSUME NEW q \in Seq(Proc), NEW r \in Seq(Proc)
    PROVE  /\ q \o r \in Seq(Proc)
           /\ Len(q \o r) = Len(q) + Len(r)
           /\ \A x : Contains(q \o r, x) <=> Contains(q, x) \/ Contains(r, x)
           /\ (Distinct(q) /\ Distinct(r)
                   /\ \A x : ~(Contains(q, x) /\ Contains(r, x)))
              => Distinct(q \o r)
<1> DEFINE c == q \o r
<1>1. /\ c \in Seq(Proc) /\ Len(c) = Len(q) + Len(r)
      /\ \A i \in 1 .. Len(q) + Len(r) :
            c[i] = IF i <= Len(q) THEN q[i] ELSE r[i - Len(q)]
  BY ConcatProperties
<1>2. Len(q) \in Nat /\ Len(r) \in Nat
  BY LenProperties
<1> HIDE DEF c
<1>3. \A x : Contains(c, x) => Contains(q, x) \/ Contains(r, x)
  <2> SUFFICES ASSUME NEW i \in 1 .. Len(c)
               PROVE  Contains(q, c[i]) \/ Contains(r, c[i])
    BY DEF Contains
  <2>1. CASE i <= Len(q)
    BY <2>1, <1>1, <1>2 DEF Contains
  <2>2. CASE i > Len(q)
    <3>1. i - Len(q) \in 1 .. Len(r) /\ c[i] = r[i - Len(q)]
      BY <2>2, <1>1, <1>2
    <3> QED
      BY <3>1 DEF Contains
  <2> QED
    BY <2>1, <2>2, <1>2
<1>4. \A x : Contains(q, x) => Contains(c, x)
  <2>1. \A i \in 1 .. Len(q) : i \in 1 .. Len(c) /\ c[i] = q[i]
    BY <1>1, <1>2
  <2> QED
    BY <2>1 DEF Contains
<1>5. \A x : Contains(r, x) => Contains(c, x)
  <2>1. \A i \in 1 .. Len(r) :
           Len(q) + i \in 1 .. Len(c) /\ c[Len(q) + i] = r[i]
    BY <1>1, <1>2
  <2> QED
    BY <2>1 DEF Contains
<1>6. ASSUME Distinct(q), Distinct(r),
             \A x : ~(Contains(q, x) /\ Contains(r, x))
      PROVE  Distinct(c)
  <2> SUFFICES ASSUME NEW i \in 1 .. Len(c), NEW j \in 1 .. Len(c),
                      c[i] = c[j]
               PROVE  i = j
    BY DEF Distinct
  <2>1. CASE i <= Len(q) /\ j <= Len(q)
    BY <2>1, <1>1, <1>2, <1>6 DEF Distinct
  <2>2. CASE i > Len(q) /\ j > Len(q)
    <3>1. /\ i - Len(q) \in 1 .. Len(r) /\ c[i] = r[i - Len(q)]
          /\ j - Len(q) \in 1 .. Len(r) /\ c[j] = r[j - Len(q)]
      BY <2>2, <1>1, <1>2
    <3>2. i - Len(q) = j - Len(q)
      BY <3>1, <1>6 DEF Distinct
    <3> QED
      BY <3>2, <1>1, <1>2
  <2>3. CASE i <= Len(q) /\ j > Len(q)
    <3>1. i \in 1 .. Len(q) /\ c[i] = q[i]
      BY <2>3, <1>1, <1>2
    <3>2. j - Len(q) \in 1 .. Len(r) /\ c[j] = r[j - Len(q)]
      BY <2>3, <1>1, <1>2
    <3> QED
      BY <3>1, <3>2, <1>6 DEF Contains
  <2>4. CASE i > Len(q) /\ j <= Len(q)
    <3>1. j \in 1 .. Len(q) /\ c[j] = q[j]
      BY <2>4, <1>1, <1>2
    <3>2. i - Len(q) \in 1 .. Len(r) /\ c[i] = r[i - Len(q)]
      BY <2>4, <1>1, <1>2
    <3> QED
      BY <3>1, <3>2, <1>6 DEF Contains
  <2> QED
    BY <2>1, <2>2, <2>3, <2>4, <1>1, <1>2
<1> QED
  BY <1>1, <1>3, <1>4, <1>5, <1>6 DEF c

(* outProcQ: p leaves, nothing else changes; without p on it, nothing does.*)
LEMMA QueueOut ==
    ASSUME NEW q \in Seq(Proc), NEW p, Distinct(q)
    PROVE  /\ outProcQ(q, p) \in Seq(Proc)
           /\ Distinct(outProcQ(q, p))
           /\ \A x : Contains(outProcQ(q, p), x) <=> Contains(q, x) /\ x # p
           /\ Len(outProcQ(q, p)) =
                 IF Contains(q, p) THEN Len(q) - 1 ELSE Len(q)
<1>1. CASE ~Contains(q, p)
  BY <1>1 DEF outProcQ, RemoveFirst, Contains
<1>2. CASE Contains(q, p)
  <2>1. PICK k \in 1 .. Len(q) : q[k] = p
    BY <1>2 DEF Contains
  <2>2. Len(q) \in Nat /\ \A i \in 1 .. Len(q) : q[i] \in Proc
    BY LenProperties, ElementOfSeq
  <2>3. {i \in 1 .. Len(q) : q[i] = p} = {k}
    BY <2>1 DEF Distinct
  <2>4. SelectInSeq(q, LAMBDA v : v = p) = k
    <3>1. Min({k}) = k
      BY <2>1 DEF Min
    <3> QED
      BY <2>3, <3>1 DEF SelectInSeq
  <2>5. outProcQ(q, p) = SubSeq(q, 1, k - 1) \o SubSeq(q, k + 1, Len(q))
    BY <2>1, <2>4 DEF outProcQ, RemoveFirst, RemoveAt
  <2> DEFINE a == SubSeq(q, 1, k - 1)
             b == SubSeq(q, k, Len(q))
             c == SubSeq(q, k + 1, Len(q))
  <2>6. k - 1 \in 0 .. Len(q) /\ k \in 0 .. Len(q)
    BY <2>1, <2>2
  <2>7. /\ a \in Seq(Proc) /\ Len(a) = k - 1
        /\ b \in Seq(Proc) /\ Len(b) = Len(q) - (k - 1)
        /\ \A x : Contains(q, x) <=> Contains(a, x) \/ Contains(b, x)
        /\ Distinct(a) /\ Distinct(b)
        /\ \A x : ~(Contains(a, x) /\ Contains(b, x))
    <3>1. (k - 1) + 1 = k
      BY <2>1, <2>2
    <3> QED
      BY <2>6, <3>1, QueueSplit
  <2>8. b # <<>> /\ Head(b) = p /\ Tail(b) = c
    <3>1. b # <<>>
      BY <2>1, <2>2, <2>7, EmptySeq
    <3>2. Len(q) \in k .. Len(q)
      BY <2>1, <2>2
    <3>3. Head(b) = q[k] /\ Tail(b) = c
      BY <3>2, HeadTailOfSubSeq, Zenon
    <3> QED
      BY <2>1, <3>1, <3>3
  <2> HIDE DEF a, b, c
  <2>9. /\ c \in Seq(Proc) /\ Len(c) = Len(b) - 1
        /\ \A x : Contains(b, x) <=> x = p \/ Contains(c, x)
        /\ Distinct(c) /\ ~Contains(c, p)
    BY <2>7, <2>8, QueueRemove
  <2>10. /\ a \o c \in Seq(Proc) /\ Len(a \o c) = Len(a) + Len(c)
         /\ \A x : Contains(a \o c, x) <=> Contains(a, x) \/ Contains(c, x)
         /\ Distinct(a \o c)
    BY <2>7, <2>9, QueueConcat
  <2>11. Len(a \o c) = Len(q) - 1
    BY <2>1, <2>2, <2>7, <2>9, <2>10
  <2>12. outProcQ(q, p) = a \o c
    BY <2>5 DEF a, c
  <2> QED
    BY <1>2, <2>7, <2>9, <2>10, <2>11, <2>12
<1> QED
  BY <1>1, <1>2

-----------------------------------------------------------------------------
(* How the control state, the current process and the recursion of         *)
(* HoneyIKilledTheKids go together.                                        *)
ModeOK ==
    /\ mode = "run" => currentProcess \in Live /\ killing = <<>>
    /\ mode = "kill" =>
          /\ currentProcess \in Live
          /\ killing # <<>> /\ killing[1] = currentProcess
          /\ \A i \in 1 .. Len(killing) : killing[i] \in Live
    /\ mode \in Idle => currentProcess \notin Live /\ killing = <<>>
    /\ mode \in {"nulled", "wait"} => currentProcess = NULL

(* The parents have no cycle: some ranking of the pcbs by R grows from     *)
(* parent to child, and along the recursion.                               *)
Ranked(R) ==
    \E r \in [Proc -> R] :
       /\ \A p \in Live : p_prnt[p] # NULL => r[p_prnt[p]] < r[p]
       /\ \A i, j \in 1 .. Len(killing) :
             i < j => r[killing[i]] < r[killing[j]]

(* The inductive invariant: the checked invariants and what they rest on.  *)
NucleusInv ==
    /\ TypeOK
    /\ ModeOK
    /\ OnePlace
    /\ NoOrphan
    /\ Ranked(Nat)

-----------------------------------------------------------------------------
(* The constants, as the proofs use them.                                  *)
LEMMA ConstantFacts ==
    /\ NULL \notin Proc /\ NULL \notin Sem /\ NULL \notin Ctx
    /\ 0 \in Ctx /\ Entry \subseteq Ctx
    /\ \A c \in Ctx : Succ(c) \in Ctx
    /\ ITSEMINDEX \in SoftSem /\ DevSem \subseteq SoftSem /\ SoftSem \subseteq Sem
    /\ ITSEMINDEX \notin DevSem
    /\ UserSem \subseteq Sem /\ UserSem \cap SoftSem = {}
    /\ IoDevs \subseteq DevSem
<1>1. NUNIT \in Nat /\ NTERM \in 0 .. NUNIT /\ NCTX \in Nat \ {0}
  BY NucleusAssumption
<1>2. \A c \in Ctx : Succ(c) \in Ctx
  BY <1>1 DEF Ctx, Succ
<1>3. 0 \in Ctx
  BY <1>1 DEF Ctx
<1>4. ITSEMINDEX \in SoftSem /\ DevSem \subseteq SoftSem /\ ITSEMINDEX \notin DevSem
  BY <1>1 DEF ITSEMINDEX, DEVICECOUNT, SoftSem, DevSem
<1>5. SoftSem \subseteq Sem /\ UserSem \subseteq Sem
  BY DEF Sem
<1> QED
  BY <1>2, <1>3, <1>4, <1>5, NucleusAssumption

(* Scheduler(q, cur) when q and the semaphores' queues hold every process  *)
(* in use: its outcome is placed again, and a process runs or none is      *)
(* ready.                                                                  *)
LEMMA SchedulerStep ==
    ASSUME NEW q \in Seq(Proc), NEW cur \in Proc \cup {NULL},
           pcbFree' \subseteq Proc,
           p_s' \in [Proc -> Ctx], cpu \in Ctx, pltPending \in BOOLEAN,
           Placed(q, NULL, procQ', p_semAdd', pcbFree'),
           q # <<>> \/ cur \notin Proc \ pcbFree',
           Scheduler(q, cur)
    PROVE  /\ readyQ' \in Seq(Proc)
           /\ currentProcess' \in Proc \cup {NULL}
           /\ cpu' \in Ctx
           /\ pltPending' \in BOOLEAN
           /\ mode' \in {"run", "halt", "panic", "unmask"}
           /\ mode' = "run" => currentProcess' \in Proc \ pcbFree'
           /\ mode' # "run" => /\ currentProcess' \notin Proc \ pcbFree'
                               /\ readyQ' = <<>>
           /\ mode' = "halt" => processCount' = 0
           /\ mode' = "panic" => softBlockCount' = 0
           /\ Placed(readyQ', currentProcess', procQ', p_semAdd', pcbFree')
<1>1. CASE Dispatch(q)
  <2>1. /\ q # <<>> /\ currentProcess' = Head(q) /\ readyQ' = Tail(q)
        /\ cpu' = p_s'[Head(q)] /\ pltPending' = FALSE /\ mode' = "run"
    BY <1>1 DEF Dispatch
  <2>2. /\ Head(q) \in Proc /\ Tail(q) \in Seq(Proc)
        /\ \A x : Contains(q, x) <=> x = Head(q) \/ Contains(Tail(q), x)
        /\ Distinct(q) => Distinct(Tail(q)) /\ ~Contains(Tail(q), Head(q))
    BY <2>1, QueueRemove
  <2>3. Head(q) \notin pcbFree'
    BY <2>2 DEF Placed
  <2>4. Placed(Tail(q), Head(q), procQ', p_semAdd', pcbFree')
    BY <2>2, <2>3, ConstantFacts DEF Placed
  <2> QED
    BY <2>1, <2>2, <2>3, <2>4
<1>2. CASE NoReady(q, cur)
  <2>1. /\ q = <<>> /\ readyQ' = q /\ cpu' = cpu /\ pltPending' = pltPending
        /\ mode' \in {"halt", "panic", "unmask"}
        /\ currentProcess' \in {NULL, cur}
        /\ mode' = "halt" => processCount' = 0
        /\ mode' = "panic" => softBlockCount' = 0
    BY <1>2 DEF NoReady
  <2>2. currentProcess' \notin Proc \ pcbFree'
    BY <2>1, ConstantFacts
  <2>3. Placed(readyQ', currentProcess', procQ', p_semAdd', pcbFree')
    BY <2>1, <2>2, ConstantFacts DEF Placed
  <2> QED
    BY <2>1, <2>2, <2>3
<1> QED
  BY <1>1, <1>2 DEF Scheduler

(* n waiters of semaphore s go to the ready queue.                         *)
LEMMA WakeStep ==
    ASSUME NEW s \in Sem, TypeOK, NEW n \in 0 .. Len(procQ[s]),
           Placed(readyQ, currentProcess, procQ, p_semAdd, pcbFree)
    PROVE  /\ Woken(s, n) \in Seq(Proc)
           /\ Remaining(s, n) \in [Sem -> Seq(Proc)]
           /\ Len(Remaining(s, n)[s]) = Len(procQ[s]) - n
           /\ \A t \in Sem : t # s => Remaining(s, n)[t] = procQ[t]
           /\ Placed(Woken(s, n), currentProcess, Remaining(s, n), p_semAdd,
                     pcbFree)
<1> DEFINE a == SubSeq(procQ[s], 1, n)
           b == SubSeq(procQ[s], n + 1, Len(procQ[s]))
<1>1. procQ[s] \in Seq(Proc) /\ readyQ \in Seq(Proc)
      /\ procQ \in [Sem -> Seq(Proc)] /\ pcbFree \subseteq Proc
  BY DEF TypeOK
<1>2. /\ a \in Seq(Proc) /\ Len(a) = n
      /\ b \in Seq(Proc) /\ Len(b) = Len(procQ[s]) - n
      /\ \A x : Contains(procQ[s], x) <=> Contains(a, x) \/ Contains(b, x)
      /\ Distinct(procQ[s]) => /\ Distinct(a) /\ Distinct(b)
                               /\ \A x : ~(Contains(a, x) /\ Contains(b, x))
  BY <1>1, QueueSplit
<1> HIDE DEF a, b
<1>3. Woken(s, n) = readyQ \o a /\ Remaining(s, n) = [procQ EXCEPT ![s] = b]
  BY DEF Woken, Remaining, a, b
<1>4. \A x : Contains(a, x) => x \in Proc
  BY <1>2, QueueNonEmpty
<1>5. \A x : ~(Contains(readyQ, x) /\ Contains(a, x))
  BY <1>2, <1>4 DEF Placed
<1>6. /\ readyQ \o a \in Seq(Proc)
      /\ \A x : Contains(readyQ \o a, x) <=> Contains(readyQ, x) \/ Contains(a, x)
      /\ Distinct(readyQ \o a)
  BY <1>1, <1>2, <1>5, QueueConcat DEF Placed
<1>7. /\ Remaining(s, n) \in [Sem -> Seq(Proc)]
      /\ Remaining(s, n)[s] = b
      /\ \A t \in Sem : t # s => Remaining(s, n)[t] = procQ[t]
  BY <1>1, <1>2, <1>3
<1>8. Placed(readyQ \o a, currentProcess, Remaining(s, n), p_semAdd, pcbFree)
  <2>1. \A t \in Sem : \A x :
           Contains(Remaining(s, n)[t], x) =>
              Contains(procQ[t], x) /\ (t = s => ~Contains(a, x))
    BY <1>2, <1>7 DEF Placed
  <2>2. \A t \in Sem : Distinct(Remaining(s, n)[t])
    BY <1>2, <1>7 DEF Placed
  <2>3. \A x : Contains(a, x) => Contains(procQ[s], x) /\ ~Contains(b, x)
    BY <1>2 DEF Placed
  <2>4. \A x \in Proc, t \in Sem :
           ~(Contains(readyQ \o a, x) /\ Contains(Remaining(s, n)[t], x))
    BY <1>6, <2>1, <2>3 DEF Placed
  <2>5. \A x \in Proc \ pcbFree :
           \/ x = currentProcess
           \/ Contains(readyQ \o a, x)
           \/ \E t \in Sem : Contains(Remaining(s, n)[t], x)
    BY <1>2, <1>6, <1>7 DEF Placed
  <2>6. \A x \in pcbFree : ~Contains(readyQ \o a, x)
                         /\ \A t \in Sem : ~Contains(Remaining(s, n)[t], x)
    BY <1>1, <1>6, <2>1, <2>3 DEF Placed
  <2>7. currentProcess \in Proc \ pcbFree =>
           /\ ~Contains(readyQ \o a, currentProcess)
           /\ \A t \in Sem : ~Contains(Remaining(s, n)[t], currentProcess)
    BY <1>6, <2>1, <2>3 DEF Placed
  <2>8. \A x \in Proc, t \in Sem :
           Contains(Remaining(s, n)[t], x) => p_semAdd[x] = t
    BY <2>1 DEF Placed
  <2> QED
    BY <1>6, <2>2, <2>4, <2>5, <2>6, <2>7, <2>8 DEF Placed
<1> QED
  BY <1>2, <1>3, <1>6, <1>7, <1>8

(* The current process goes to the end of the queue of semaphore s.        *)
LEMMA BlockStep ==
    ASSUME NEW s \in Sem, TypeOK, currentProcess \in Live,
           Placed(readyQ, currentProcess, procQ, p_semAdd, pcbFree),
           NEW pq, pq = [procQ EXCEPT ![s] = insertProcQ(@, currentProcess)],
           NEW sa, sa = [p_semAdd EXCEPT ![currentProcess] = s]
    PROVE  /\ pq \in [Sem -> Seq(Proc)]
           /\ sa \in [Proc -> Sem \cup {NULL}]
           /\ Len(pq[s]) = Len(procQ[s]) + 1
           /\ \A t \in Sem : t # s => pq[t] = procQ[t]
           /\ Placed(readyQ, NULL, pq, sa, pcbFree)
<1> DEFINE r == insertProcQ(procQ[s], currentProcess)
<1>1. /\ procQ \in [Sem -> Seq(Proc)] /\ procQ[s] \in Seq(Proc)
      /\ currentProcess \in Proc /\ currentProcess \notin pcbFree
      /\ p_semAdd \in [Proc -> Sem \cup {NULL}] /\ pcbFree \subseteq Proc
  BY DEF TypeOK, Live
<1>2. /\ r \in Seq(Proc) /\ Len(r) = Len(procQ[s]) + 1
      /\ \A x : Contains(r, x) <=> Contains(procQ[s], x) \/ x = currentProcess
      /\ Distinct(procQ[s]) /\ ~Contains(procQ[s], currentProcess) => Distinct(r)
  BY <1>1, QueueInsert
<1> HIDE DEF r
<1>3. /\ pq \in [Sem -> Seq(Proc)] /\ pq[s] = r
      /\ \A t \in Sem : t # s => pq[t] = procQ[t]
  BY <1>1, <1>2 DEF r
<1>4. /\ sa \in [Proc -> Sem \cup {NULL}] /\ sa[currentProcess] = s
      /\ \A x \in Proc : x # currentProcess => sa[x] = p_semAdd[x]
  BY <1>1
<1>5. \A t \in Sem : \A x :
         Contains(pq[t], x) <=> Contains(procQ[t], x)
                                \/ (t = s /\ x = currentProcess)
  BY <1>2, <1>3
<1>6. /\ ~Contains(readyQ, currentProcess)
      /\ \A t \in Sem : ~Contains(procQ[t], currentProcess)
  BY <1>1 DEF Placed
<1>7. \A t \in Sem : Distinct(pq[t])
  BY <1>2, <1>3, <1>6 DEF Placed
<1>8. \A x \in Proc, t \in Sem : Contains(pq[t], x) => sa[x] = t
  BY <1>4, <1>5, <1>6 DEF Placed
<1>9. Placed(readyQ, NULL, pq, sa, pcbFree)
  <2>1. Distinct(readyQ)
    BY DEF Placed
  <2>2. \A p \in Proc, t \in Sem : ~(Contains(readyQ, p) /\ Contains(pq[t], p))
    BY <1>5, <1>6 DEF Placed
  <2>3. \A p \in pcbFree :
           ~Contains(readyQ, p) /\ \A t \in Sem : ~Contains(pq[t], p)
    BY <1>1, <1>5 DEF Placed
  <2>4. \A p \in Proc \ pcbFree :
           Contains(readyQ, p) \/ \E t \in Sem : Contains(pq[t], p)
    BY <1>5 DEF Placed
  <2>5. NULL \notin Proc
    BY ConstantFacts
  <2> QED
    BY <1>7, <1>8, <2>1, <2>2, <2>3, <2>4, <2>5 DEF Placed
<1> QED
  BY <1>2, <1>3, <1>4, <1>9

-----------------------------------------------------------------------------
(* Parts of the invariant that a step leaves alone.                        *)
LEMMA TreeUnchanged ==
    ASSUME NoOrphan, Ranked(Nat), UNCHANGED <<pcbFree, p_prnt, p_child>>,
           \/ killing' = killing
           \/ killing = <<>> /\ killing' = <<currentProcess>>
    PROVE  NoOrphan' /\ Ranked(Nat)'
<1>1. \A c : Orphaned(c)' <=> Orphaned(c)
  <2>1. CASE killing' = killing
    BY <2>1 DEF Orphaned
  <2>2. CASE killing = <<>> /\ killing' = <<currentProcess>>
    BY <2>2 DEF Orphaned, Contains
  <2> QED
    BY <2>1, <2>2
<1>2. Live' = Live
  BY DEF Live
<1>3. NoOrphan'
  BY <1>1, <1>2 DEF NoOrphan
<1>4. Ranked(Nat)'
  <2>1. PICK r \in [Proc -> Nat] :
           /\ \A p \in Live : p_prnt[p] # NULL => r[p_prnt[p]] < r[p]
           /\ \A i, j \in 1 .. Len(killing) :
                 i < j => r[killing[i]] < r[killing[j]]
    BY DEF Ranked
  <2>2. \A i, j \in 1 .. Len(killing') :
           i < j => r[killing'[i]] < r[killing'[j]]
    BY <2>1
  <2>3. \A p \in Live' : p_prnt'[p] # NULL => r[p_prnt'[p]] < r[p]
    BY <1>2, <2>1
  <2> QED
    BY <2>2, <2>3 DEF Ranked
<1> QED
  BY <1>3, <1>4

(* ... what ModeOK speaks of.                                              *)
LEMMA ModeUnchanged ==
    ASSUME ModeOK, UNCHANGED <<mode, currentProcess, killing, pcbFree>>
    PROVE  ModeOK'
BY DEF ModeOK, Live

(* ... what OnePlace speaks of.                                            *)
LEMMA PlaceUnchanged ==
    ASSUME OnePlace,
           UNCHANGED <<pcbFree, procQ, p_semAdd, readyQ, currentProcess, mode>>
    PROVE  OnePlace'
BY DEF OnePlace, Placed

(* A running process starts to be killed.                                  *)
LEMMA StartKillStep ==
    ASSUME NucleusInv, mode = "run", StartKill,
           UNCHANGED <<pcbFree, treeVars, queueVars>>
    PROVE  /\ readyQ' \in Seq(Proc) /\ currentProcess' \in Proc \cup {NULL}
           /\ cpu' \in Ctx /\ mode' \in Mode /\ pltPending' \in BOOLEAN
           /\ killing' \in Seq(Proc)
           /\ ModeOK' /\ OnePlace' /\ NoOrphan' /\ Ranked(Nat)'
<1>1. /\ mode' = "kill" /\ killing' = <<currentProcess>> /\ killing = <<>>
      /\ readyQ' = readyQ /\ currentProcess' = currentProcess
      /\ cpu' = cpu /\ pltPending' = pltPending /\ currentProcess \in Live
  BY DEF StartKill, NucleusInv, ModeOK
<1>2. currentProcess \in Proc
  BY <1>1 DEF Live
<1>3. /\ readyQ' \in Seq(Proc) /\ currentProcess' \in Proc \cup {NULL}
      /\ cpu' \in Ctx /\ mode' \in Mode /\ pltPending' \in BOOLEAN
      /\ killing' \in Seq(Proc)
  BY <1>1, <1>2 DEF NucleusInv, TypeOK, Mode
<1>4. ModeOK'
  BY <1>1 DEF ModeOK, Idle, Live
<1>5. OnePlace'
  BY <1>1 DEF NucleusInv, OnePlace, Placed, queueVars
<1>6. NoOrphan' /\ Ranked(Nat)'
  BY <1>1, TreeUnchanged DEF NucleusInv, treeVars
<1> QED
  BY <1>3, <1>4, <1>5, <1>6

(* A step that leaves the processes where they are and the mode alone.     *)
LEMMA QuietStep ==
    ASSUME NucleusInv, TypeOK',
           UNCHANGED <<pcbFree, treeVars, queueVars, readyQ, currentProcess,
                       mode, killing>>
    PROVE  NucleusInv'
<1>1. ModeOK'
  BY ModeUnchanged DEF NucleusInv
<1>2. OnePlace'
  BY PlaceUnchanged DEF NucleusInv, queueVars
<1>3. NoOrphan' /\ Ranked(Nat)'
  BY TreeUnchanged DEF NucleusInv, treeVars
<1> QED
  BY <1>1, <1>2, <1>3 DEF NucleusInv

(* A step that ends in the scheduler without a change to the tree.         *)
LEMMA ScheduledStep ==
    ASSUME NucleusInv, UNCHANGED <<pcbFree, treeVars, killing>>, killing = <<>>,
           procQ' \in [Sem -> Seq(Proc)],
           p_semAdd' \in [Proc -> Sem \cup {NULL}],
           p_s' \in [Proc -> Ctx],
           NEW q \in Seq(Proc), NEW cur \in Proc \cup {NULL},
           q # <<>> \/ cur \notin Live,
           Placed(q, NULL, procQ', p_semAdd', pcbFree),
           Scheduler(q, cur)
    PROVE  /\ readyQ' \in Seq(Proc) /\ currentProcess' \in Proc \cup {NULL}
           /\ cpu' \in Ctx /\ mode' \in Mode /\ pltPending' \in BOOLEAN
           /\ ModeOK' /\ OnePlace' /\ NoOrphan' /\ Ranked(Nat)'
<1>1. /\ pcbFree' = pcbFree /\ killing' = <<>> /\ pcbFree \subseteq Proc
      /\ cpu \in Ctx /\ pltPending \in BOOLEAN
  BY DEF NucleusInv, TypeOK
<1>2. /\ readyQ' \in Seq(Proc) /\ currentProcess' \in Proc \cup {NULL}
      /\ cpu' \in Ctx /\ pltPending' \in BOOLEAN
      /\ mode' \in {"run", "halt", "panic", "unmask"}
      /\ mode' = "run" => currentProcess' \in Proc \ pcbFree'
      /\ mode' # "run" => currentProcess' \notin Proc \ pcbFree'
      /\ Placed(readyQ', currentProcess', procQ', p_semAdd', pcbFree')
  BY <1>1, SchedulerStep DEF Live
<1>3. mode' \in Mode
  BY <1>2 DEF Mode, Idle, Stopped
<1>4. ModeOK'
  BY <1>1, <1>2 DEF ModeOK, Idle, Live
<1>5. OnePlace'
  BY <1>2 DEF OnePlace, Placed
<1>6. NoOrphan' /\ Ranked(Nat)'
  BY TreeUnchanged DEF NucleusInv, treeVars
<1> QED
  BY <1>2, <1>3, <1>4, <1>5, <1>6
-----------------------------------------------------------------------------
(* The initial states.                                                     *)
LEMMA InitInv == Init => NucleusInv
<1> SUFFICES ASSUME Init PROVE NucleusInv
  OBVIOUS
<1>1. PICK p \in Proc :
         /\ pcbFree = Proc \ {p} /\ currentProcess = p
         /\ procQ = [s \in Sem |-> <<>>] /\ readyQ = <<>> /\ killing = <<>>
         /\ p_prnt = [q \in Proc |-> NULL] /\ p_child = [q \in Proc |-> {}]
         /\ p_semAdd = [q \in Proc |-> NULL] /\ p_s = [q \in Proc |-> 0]
         /\ newAreas = [q \in Proc |-> [t \in ExcType |-> NULL]]
         /\ processCount = 1 /\ softBlockCount = 0
         /\ semaphore \in [Sem -> 0 .. MaxSem]
         /\ mode = "run" /\ cpu = 0
         /\ dev = [d \in DevSem |-> "ready"]
         /\ itPending = FALSE /\ pltPending = FALSE
  BY DEF Init
<1>2. Live = {p}
  BY <1>1 DEF Live
<1>3. TypeOK
  <2>1. semaphore \in [Sem -> Int]
    BY <1>1, NucleusAssumption
  <2>2. "ready" \in DevStatus /\ mode \in Mode
    BY <1>1 DEF DevStatus, Mode
  <2>3. newAreas \in [Proc -> [ExcType -> Ctx \cup {NULL}]]
    BY <1>1
  <2>4. dev \in [DevSem -> DevStatus]
    BY <1>1, <2>2
  <2>5. procQ \in [Sem -> Seq(Proc)] /\ readyQ \in Seq(Proc)
        /\ killing \in Seq(Proc)
    BY <1>1, QueueEmpty
  <2>6. /\ p_prnt \in [Proc -> Proc \cup {NULL}]
        /\ p_child \in [Proc -> SUBSET Proc]
        /\ p_semAdd \in [Proc -> Sem \cup {NULL}] /\ p_s \in [Proc -> Ctx]
    BY <1>1, ConstantFacts
  <2>7. /\ pcbFree \subseteq Proc /\ processCount \in Int
        /\ softBlockCount \in Int /\ currentProcess \in Proc \cup {NULL}
    BY <1>1
  <2>8. cpu \in Ctx /\ itPending \in BOOLEAN /\ pltPending \in BOOLEAN
    BY <1>1, ConstantFacts, Zenon
  <2> QED
    BY <2>1, <2>2, <2>3, <2>4, <2>5, <2>6, <2>7, <2>8 DEF TypeOK
<1>4. ModeOK
  BY <1>1, <1>2 DEF ModeOK, Idle
<1>5. OnePlace
  BY <1>1, QueueEmpty DEF OnePlace, Placed
<1>6. NoOrphan
  BY <1>1, <1>2, ConstantFacts DEF NoOrphan
<1>7. Ranked(Nat)
  <2> DEFINE r == [q \in Proc |-> 0]
  <2>1. r \in [Proc -> Nat]
    OBVIOUS
  <2>2. \A q \in Live : p_prnt[q] # NULL => r[p_prnt[q]] < r[q]
    BY <1>1, <1>2
  <2>3. \A i, j \in 1 .. Len(killing) : i < j => r[killing[i]] < r[killing[j]]
    BY <1>1
  <2> HIDE DEF r
  <2> QED
    BY <2>1, <2>2, <2>3 DEF Ranked
<1> QED
  BY <1>3, <1>4, <1>5, <1>6, <1>7 DEF NucleusInv

-----------------------------------------------------------------------------
(* System calls and the other exceptions.                                  *)
LEMMA InvCreateFails == NucleusInv /\ CreateFails => NucleusInv'
<1> SUFFICES ASSUME NucleusInv, CreateFails PROVE NucleusInv'
  OBVIOUS
<1>1. TypeOK'
  BY ConstantFacts DEF NucleusInv, TypeOK, CreateFails, LoadCaller, treeVars,
     queueVars, countVars, procVars, devVars
<1> QED
  BY <1>1, QuietStep DEF CreateFails, LoadCaller

(* SYS1: the new process gets its place and its parent.                    *)
LEMMA InvCreateProcess ==
    ASSUME NucleusInv, NEW p \in Proc, NEW c \in Entry, CreateProcess(p, c)
    PROVE  NucleusInv'
<1>1. /\ mode = "run" /\ mode' = "run" /\ killing = <<>> /\ killing' = <<>>
      /\ currentProcess' = currentProcess /\ currentProcess \in Live
      /\ p \in pcbFree /\ pcbFree' = pcbFree \ {p}
      /\ p_prnt' = [p_prnt EXCEPT ![p] = currentProcess]
      /\ p_child' = [p_child EXCEPT ![p] = {},
                                    ![currentProcess] = @ \cup {p}]
      /\ readyQ' = insertProcQ(readyQ, p) /\ procQ' = procQ
      /\ p_semAdd' = [p_semAdd EXCEPT ![p] = NULL]
  BY DEF CreateProcess, Running, LoadCaller, NucleusInv, ModeOK
<1>2. /\ currentProcess \in Proc /\ p # currentProcess /\ currentProcess # NULL
      /\ Live' = Live \cup {p} /\ p \notin Live /\ Live \subseteq Proc
  BY <1>1, ConstantFacts DEF Live
<1>3. TypeOK'
  <2>1. TypeOK
    BY DEF NucleusInv
  <2>2. /\ pcbFree' \subseteq Proc /\ readyQ' \in Seq(Proc)
        /\ p_prnt' \in [Proc -> Proc \cup {NULL}]
        /\ p_child' \in [Proc -> SUBSET Proc]
        /\ p_semAdd' \in [Proc -> Sem \cup {NULL}]
    <3>1. pcbFree \subseteq Proc /\ readyQ \in Seq(Proc)
      BY <2>1 DEF TypeOK
    <3>2. pcbFree' \subseteq Proc /\ readyQ' \in Seq(Proc)
      BY <1>1, <3>1, QueueInsert
    <3>3. /\ p_prnt' \in [Proc -> Proc \cup {NULL}]
          /\ p_semAdd' \in [Proc -> Sem \cup {NULL}]
      BY <1>1, <1>2, <2>1 DEF TypeOK
    <3>4. p_child' \in [Proc -> SUBSET Proc]
      BY <1>1, <1>2, <2>1 DEF TypeOK
    <3> QED
      BY <3>2, <3>3, <3>4
  <2>3. /\ newAreas' \in [Proc -> [ExcType -> Ctx \cup {NULL}]]
        /\ p_s' \in [Proc -> Ctx] /\ cpu' \in Ctx /\ processCount' \in Int
    BY <2>1, ConstantFacts DEF TypeOK, CreateProcess, LoadCaller
  <2>4. UNCHANGED <<procQ, softBlockCount, semaphore, killing, dev, itPending,
                    currentProcess, mode, pltPending>>
    BY DEF CreateProcess, LoadCaller, devVars
  <2> QED
    BY <2>1, <2>2, <2>3, <2>4 DEF TypeOK
<1>4. ModeOK'
  BY <1>1, <1>2 DEF ModeOK, Idle
<1>5. OnePlace'
  <2>1. Placed(readyQ, currentProcess, procQ, p_semAdd, pcbFree)
    BY <1>1 DEF NucleusInv, OnePlace
  <2>2. /\ \A x : Contains(readyQ', x) <=> Contains(readyQ, x) \/ x = p
        /\ Distinct(readyQ) /\ ~Contains(readyQ, p) => Distinct(readyQ')
    BY <1>1, QueueInsert DEF NucleusInv, TypeOK
  <2>3. Distinct(readyQ')
    BY <1>1, <2>1, <2>2 DEF Placed
  <2>4. \A x \in Proc, s \in Sem : Contains(procQ[s], x) => p_semAdd'[x] = s
    BY <1>1, <2>1 DEF Placed, NucleusInv, TypeOK
  <2>5. Placed(readyQ', currentProcess, procQ, p_semAdd', pcbFree')
    BY <1>1, <1>2, <2>1, <2>2, <2>3, <2>4 DEF Placed
  <2> QED
    BY <1>1, <2>5 DEF OnePlace, Placed
<1>6. NoOrphan'
  <2>1. \A x : ~Orphaned(x) /\ ~Orphaned(x)'
    BY <1>1 DEF Orphaned, Contains
  <2>2. /\ \A x \in Live : p_prnt[x] # NULL => p_prnt[x] \in Live
        /\ \A x \in Live, y \in Proc :
              y \in p_child[x] <=> y \in Live /\ p_prnt[y] = x
    BY <2>1 DEF NucleusInv, NoOrphan
  <2>3. /\ p_prnt'[p] = currentProcess
        /\ \A x \in Proc : x # p => p_prnt'[x] = p_prnt[x]
        /\ p_child'[p] = {}
        /\ p_child'[currentProcess] = p_child[currentProcess] \cup {p}
        /\ \A x \in Proc : x # p /\ x # currentProcess =>
                              p_child'[x] = p_child[x]
    BY <1>1, <1>2 DEF NucleusInv, TypeOK
  <2>4. \A x \in Live' : p_prnt'[x] # NULL => p_prnt'[x] \in Live'
    BY <1>1, <1>2, <2>2, <2>3
  <2>5. ASSUME NEW x \in Live', NEW y \in Proc
        PROVE  y \in p_child'[x] <=> y \in Live' /\ p_prnt'[y] = x
    <3>1. CASE x = p
      <4>1. \A z \in Live : p_prnt[z] # p
        BY <1>2, <2>2, ConstantFacts
      <4> QED
        BY <1>2, <2>3, <3>1, <4>1
    <3>2. CASE x = currentProcess
      <4>1. y \in p_child[x] <=> y \in Live /\ p_prnt[y] = x
        BY <1>1, <2>2, <3>2
      <4>2. CASE y = p
        BY <1>2, <2>3, <3>2, <4>2
      <4>3. CASE y # p
        BY <1>2, <2>3, <3>2, <4>1, <4>3
      <4> QED
        BY <4>2, <4>3
    <3>3. CASE x # p /\ x # currentProcess
      <4>1. x \in Proc /\ (y \in p_child[x] <=> y \in Live /\ p_prnt[y] = x)
        BY <1>2, <2>2, <3>3
      <4>2. CASE y = p
        BY <1>2, <2>3, <3>3, <4>1, <4>2
      <4>3. CASE y # p
        BY <1>2, <2>3, <3>3, <4>1, <4>3
      <4> QED
        BY <4>2, <4>3
    <3> QED
      BY <3>1, <3>2, <3>3
  <2> QED
    BY <2>1, <2>4, <2>5 DEF NoOrphan
<1>7. Ranked(Nat)'
  <2>1. PICK r \in [Proc -> Nat] :
           \A x \in Live : p_prnt[x] # NULL => r[p_prnt[x]] < r[x]
    BY DEF NucleusInv, Ranked
  <2> DEFINE r2 == [r EXCEPT ![p] = r[currentProcess] + 1]
  <2>2. /\ r2 \in [Proc -> Nat] /\ r2[p] = r2[currentProcess] + 1
        /\ \A x \in Proc : x # p => r2[x] = r[x]
    BY <1>2, <2>1
  <2> HIDE DEF r2
  <2>3. \A x \in Live : p_prnt[x] # NULL => p_prnt[x] \in Live
    BY DEF NucleusInv, NoOrphan
  <2>4. \A x \in Live' : p_prnt'[x] # NULL => r2[p_prnt'[x]] < r2[x]
    <3> SUFFICES ASSUME NEW x \in Live', p_prnt'[x] # NULL
                 PROVE  r2[p_prnt'[x]] < r2[x]
      OBVIOUS
    <3>1. CASE x = p
      <4>1. p_prnt'[x] = currentProcess
        BY <1>1, <3>1 DEF NucleusInv, TypeOK
      <4>2. r2[currentProcess] \in Nat
        BY <1>2, <2>2
      <4> QED
        BY <2>2, <3>1, <4>1, <4>2
    <3>2. CASE x # p
      <4>1. x \in Live /\ p_prnt'[x] = p_prnt[x]
        BY <1>1, <1>2, <3>2 DEF NucleusInv, TypeOK
      <4>2. p_prnt[x] \in Live /\ p_prnt[x] # p
        BY <1>2, <2>3, <4>1
      <4> QED
        BY <1>2, <2>1, <2>2, <3>2, <4>1, <4>2
    <3> QED
      BY <3>1, <3>2
  <2>5. \A i, j \in 1 .. Len(killing') :
           i < j => r2[killing'[i]] < r2[killing'[j]]
    BY <1>1
  <2> QED
    BY <2>2, <2>4, <2>5 DEF Ranked
<1> QED
  BY <1>3, <1>4, <1>5, <1>6, <1>7 DEF NucleusInv

(* SYS2 up to the first call of HoneyIKilledTheKids.                       *)
LEMMA InvTerminateProcess == NucleusInv /\ TerminateProcess => NucleusInv'
<1> SUFFICES ASSUME NucleusInv, TerminateProcess PROVE NucleusInv'
  OBVIOUS
<1>1. /\ readyQ' \in Seq(Proc) /\ currentProcess' \in Proc \cup {NULL}
      /\ cpu' \in Ctx /\ mode' \in Mode /\ pltPending' \in BOOLEAN
      /\ killing' \in Seq(Proc)
      /\ ModeOK' /\ OnePlace' /\ NoOrphan' /\ Ranked(Nat)'
  BY StartKillStep DEF TerminateProcess, Running
<1>2. TypeOK'
  BY <1>1 DEF NucleusInv, TypeOK, TerminateProcess, treeVars, queueVars,
     countVars, procVars, devVars
<1> QED
  BY <1>1, <1>2 DEF NucleusInv

(* BlockHelperFunction, whoever calls it.                                  *)
LEMMA BlockHelperStep ==
    ASSUME NucleusInv, mode = "run", NEW s \in Sem, BlockHelperFunction(s),
           UNCHANGED <<pcbFree, treeVars, killing>>
    PROVE  /\ procQ' \in [Sem -> Seq(Proc)]
           /\ p_semAdd' \in [Proc -> Sem \cup {NULL}]
           /\ p_s' \in [Proc -> Ctx]
           /\ readyQ' \in Seq(Proc) /\ currentProcess' \in Proc \cup {NULL}
           /\ cpu' \in Ctx /\ mode' \in Mode /\ pltPending' \in BOOLEAN
           /\ ModeOK' /\ OnePlace' /\ NoOrphan' /\ Ranked(Nat)'
<1>1. /\ TypeOK /\ killing = <<>> /\ currentProcess \in Live
      /\ Placed(readyQ, currentProcess, procQ, p_semAdd, pcbFree)
  BY DEF NucleusInv, ModeOK, OnePlace
<1>2. /\ p_s' = [p_s EXCEPT ![currentProcess] = Succ(cpu)]
      /\ procQ' = [procQ EXCEPT ![s] = insertProcQ(@, currentProcess)]
      /\ p_semAdd' = [p_semAdd EXCEPT ![currentProcess] = s]
      /\ Scheduler(readyQ, NULL)
  BY DEF BlockHelperFunction
<1>3. /\ procQ' \in [Sem -> Seq(Proc)]
      /\ p_semAdd' \in [Proc -> Sem \cup {NULL}]
      /\ Placed(readyQ, NULL, procQ', p_semAdd', pcbFree)
  BY <1>1, <1>2, BlockStep
<1>4. p_s' \in [Proc -> Ctx]
  BY <1>1, <1>2, ConstantFacts DEF TypeOK
<1>5. readyQ \in Seq(Proc) /\ NULL \notin Live
  BY <1>1, ConstantFacts DEF TypeOK, Live
<1> QED
  BY <1>1, <1>2, <1>3, <1>4, <1>5, ScheduledStep

(* The part of a P operation that SYS4 and SYS7 share.                     *)
LEMMA PStep ==
    ASSUME NucleusInv, mode = "run", NEW s \in Sem, P(s),
           UNCHANGED <<pcbFree, treeVars, killing>>
    PROVE  /\ procQ' \in [Sem -> Seq(Proc)]
           /\ p_semAdd' \in [Proc -> Sem \cup {NULL}]
           /\ p_s' \in [Proc -> Ctx] /\ semaphore' \in [Sem -> Int]
           /\ readyQ' \in Seq(Proc) /\ currentProcess' \in Proc \cup {NULL}
           /\ cpu' \in Ctx /\ mode' \in Mode /\ pltPending' \in BOOLEAN
           /\ ModeOK' /\ OnePlace' /\ NoOrphan' /\ Ranked(Nat)'
<1>1. semaphore' \in [Sem -> Int]
  BY DEF P, NucleusInv, TypeOK
<1>2. CASE semaphore[s] - 1 < 0
  BY <1>1, <1>2, BlockHelperStep DEF P
<1>3. CASE ~(semaphore[s] - 1 < 0)
  <2>1. /\ UNCHANGED <<procQ, p_semAdd, p_s, readyQ, currentProcess, mode,
                       pltPending>>
        /\ cpu' = Succ(cpu)
    BY <1>3 DEF P, LoadCaller
  <2>2. ModeOK' /\ OnePlace' /\ NoOrphan' /\ Ranked(Nat)'
    BY <2>1, ModeUnchanged, PlaceUnchanged, TreeUnchanged
       DEF NucleusInv, treeVars
  <2> QED
    BY <1>1, <2>1, <2>2, ConstantFacts DEF NucleusInv, TypeOK
<1> QED
  BY <1>2, <1>3

(* SYS4                                                                    *)
LEMMA InvPasseren ==
    ASSUME NucleusInv, NEW s \in UserSem, Passeren(s)
    PROVE  NucleusInv'
<1>1. /\ mode = "run" /\ s \in Sem /\ P(s)
      /\ UNCHANGED <<pcbFree, treeVars, countVars, newAreas, killing, devVars>>
  BY ConstantFacts DEF Passeren, Running
<1>2. /\ procQ' \in [Sem -> Seq(Proc)]
      /\ p_semAdd' \in [Proc -> Sem \cup {NULL}]
      /\ p_s' \in [Proc -> Ctx] /\ semaphore' \in [Sem -> Int]
      /\ readyQ' \in Seq(Proc) /\ currentProcess' \in Proc \cup {NULL}
      /\ cpu' \in Ctx /\ mode' \in Mode /\ pltPending' \in BOOLEAN
      /\ ModeOK' /\ OnePlace' /\ NoOrphan' /\ Ranked(Nat)'
  BY <1>1, PStep
<1>3. TypeOK'
  BY <1>1, <1>2 DEF NucleusInv, TypeOK, treeVars, countVars, devVars
<1> QED
  BY <1>2, <1>3 DEF NucleusInv

(* SYS7                                                                    *)
LEMMA InvWaitForClock == NucleusInv /\ WaitForClock => NucleusInv'
<1> SUFFICES ASSUME NucleusInv, WaitForClock PROVE NucleusInv'
  OBVIOUS
<1>1. /\ mode = "run" /\ ITSEMINDEX \in Sem /\ P(ITSEMINDEX)
      /\ softBlockCount' = softBlockCount + 1
      /\ UNCHANGED <<pcbFree, treeVars, processCount, newAreas, killing,
                     devVars>>
  BY ConstantFacts DEF WaitForClock, Running
<1>2. /\ procQ' \in [Sem -> Seq(Proc)]
      /\ p_semAdd' \in [Proc -> Sem \cup {NULL}]
      /\ p_s' \in [Proc -> Ctx] /\ semaphore' \in [Sem -> Int]
      /\ readyQ' \in Seq(Proc) /\ currentProcess' \in Proc \cup {NULL}
      /\ cpu' \in Ctx /\ mode' \in Mode /\ pltPending' \in BOOLEAN
      /\ ModeOK' /\ OnePlace' /\ NoOrphan' /\ Ranked(Nat)'
  BY <1>1, PStep
<1>3. TypeOK'
  BY <1>1, <1>2 DEF NucleusInv, TypeOK, treeVars, devVars
<1> QED
  BY <1>2, <1>3 DEF NucleusInv

(* SYS8; st is the state of the devices when it is issued.                 *)
LEMMA InvIoWait ==
    ASSUME NucleusInv, mode = "run", NEW d \in IoDevs,
           NEW st \in [DevSem -> DevStatus], IoWait(d, st)
    PROVE  NucleusInv'
<1>1. /\ d \in Sem /\ dev' = st
      /\ semaphore' = [semaphore EXCEPT ![d] = @ - 1]
      /\ UNCHANGED <<pcbFree, treeVars, processCount, newAreas, itPending>>
  BY ConstantFacts DEF IoWait
<1>2. semaphore' \in [Sem -> Int] /\ dev' \in [DevSem -> DevStatus]
  BY <1>1 DEF NucleusInv, TypeOK
<1>3. CASE semaphore[d] - 1 < 0
  <2>1. /\ softBlockCount' = softBlockCount + 1
        /\ UNCHANGED killing /\ BlockHelperFunction(d)
    BY <1>3 DEF IoWait
  <2>2. /\ procQ' \in [Sem -> Seq(Proc)]
        /\ p_semAdd' \in [Proc -> Sem \cup {NULL}]
        /\ p_s' \in [Proc -> Ctx]
        /\ readyQ' \in Seq(Proc) /\ currentProcess' \in Proc \cup {NULL}
        /\ cpu' \in Ctx /\ mode' \in Mode /\ pltPending' \in BOOLEAN
        /\ ModeOK' /\ OnePlace' /\ NoOrphan' /\ Ranked(Nat)'
    BY <1>1, <2>1, BlockHelperStep
  <2>3. TypeOK'
    BY <1>1, <1>2, <2>1, <2>2 DEF NucleusInv, TypeOK, treeVars
  <2> QED
    BY <2>2, <2>3 DEF NucleusInv
<1>4. CASE ~(semaphore[d] - 1 < 0)
  <2>1. StartKill /\ UNCHANGED <<softBlockCount, p_s, queueVars>>
    BY <1>4 DEF IoWait
  <2>2. /\ readyQ' \in Seq(Proc) /\ currentProcess' \in Proc \cup {NULL}
        /\ cpu' \in Ctx /\ mode' \in Mode /\ pltPending' \in BOOLEAN
        /\ killing' \in Seq(Proc)
        /\ ModeOK' /\ OnePlace' /\ NoOrphan' /\ Ranked(Nat)'
    BY <1>1, <2>1, StartKillStep
  <2>3. TypeOK'
    BY <1>1, <1>2, <2>1, <2>2 DEF NucleusInv, TypeOK, treeVars, queueVars
  <2> QED
    BY <2>2, <2>3 DEF NucleusInv
<1> QED
  BY <1>3, <1>4

(* Device commands and SYS8, the two apart or in one piece.                *)
LEMMA InvDeviceCalls ==
    ASSUME NucleusInv, NEW d \in IoDevs,
           Command(d) \/ WaitForIo(d) \/ IoRequest(d)
    PROVE  NucleusInv'
<1>1. /\ dev \in [DevSem -> DevStatus]
      /\ [dev EXCEPT ![d] = "busy"] \in [DevSem -> DevStatus]
  BY ConstantFacts DEF NucleusInv, TypeOK, DevStatus
<1>2. CASE Command(d)
  <2>1. TypeOK'
    BY <1>1, <1>2, ConstantFacts DEF Command, NucleusInv, TypeOK, treeVars,
       queueVars, countVars, procVars
  <2> QED
    BY <1>2, <2>1, QuietStep DEF Command
<1>3. CASE WaitForIo(d)
  BY <1>1, <1>3, InvIoWait DEF WaitForIo, Running
<1>4. CASE IoRequest(d)
  BY <1>1, <1>4, InvIoWait DEF IoRequest, Running
<1> QED
  BY <1>2, <1>3, <1>4

(* SYS3                                                                    *)
LEMMA InvVerhogen ==
    ASSUME NucleusInv, NEW s \in UserSem, Verhogen(s)
    PROVE  NucleusInv'
<1> DEFINE n == IF semaphore[s] + 1 <= 0 THEN Waiting(s) ELSE 0
<1>1. /\ mode = "run" /\ s \in Sem
      /\ semaphore' = [semaphore EXCEPT ![s] = @ + 1]
      /\ readyQ' = Woken(s, n) /\ procQ' = Remaining(s, n)
      /\ cpu' = Succ(cpu) /\ UNCHANGED <<currentProcess, mode, pltPending>>
      /\ UNCHANGED <<pcbFree, treeVars, p_semAdd, countVars, procVars, killing,
                     devVars>>
  BY ConstantFacts DEF Verhogen, Running, LoadCaller
<1>2. TypeOK /\ Placed(readyQ, currentProcess, procQ, p_semAdd, pcbFree)
  BY <1>1 DEF NucleusInv, OnePlace
<1>3. n \in 0 .. Len(procQ[s])
  BY <1>1, <1>2, QueueNonEmpty DEF Waiting, TypeOK
<1> HIDE DEF n
<1>4. /\ readyQ' \in Seq(Proc) /\ procQ' \in [Sem -> Seq(Proc)]
      /\ Placed(readyQ', currentProcess', procQ', p_semAdd', pcbFree')
  BY <1>1, <1>2, <1>3, WakeStep
<1>5. TypeOK'
  BY <1>1, <1>2, <1>4, ConstantFacts DEF TypeOK, treeVars, countVars, procVars,
     devVars
<1>6. ModeOK' /\ NoOrphan' /\ Ranked(Nat)'
  BY <1>1, ModeUnchanged, TreeUnchanged DEF NucleusInv, treeVars
<1>7. OnePlace'
  BY <1>4 DEF OnePlace, Placed
<1> QED
  BY <1>5, <1>6, <1>7 DEF NucleusInv

(* SYS5                                                                    *)
LEMMA InvExceptionStateVec ==
    ASSUME NucleusInv, NEW t \in ExcType, NEW c \in Entry,
           ExceptionStateVec(t, c)
    PROVE  NucleusInv'
<1>1. /\ mode = "run" /\ currentProcess \in Live /\ currentProcess \in Proc
      /\ UNCHANGED <<pcbFree, treeVars, queueVars, countVars, p_s, semaphore,
                     devVars>>
  BY DEF ExceptionStateVec, Running, NucleusInv, ModeOK, Live
<1>2. CASE newAreas[currentProcess][t] = NULL
  <2>1. /\ newAreas' = [newAreas EXCEPT ![currentProcess][t] = c]
        /\ cpu' = Succ(cpu)
        /\ UNCHANGED <<currentProcess, mode, pltPending, readyQ, killing>>
    BY <1>2 DEF ExceptionStateVec, LoadCaller
  <2>2. newAreas' \in [Proc -> [ExcType -> Ctx \cup {NULL}]]
    BY <1>1, <2>1, ConstantFacts DEF NucleusInv, TypeOK
  <2>3. TypeOK'
    BY <1>1, <2>1, <2>2, ConstantFacts DEF NucleusInv, TypeOK, treeVars,
       queueVars, countVars, devVars
  <2> QED
    BY <1>1, <2>1, <2>3, QuietStep
<1>3. CASE newAreas[currentProcess][t] # NULL
  <2>1. UNCHANGED newAreas /\ StartKill
    BY <1>3 DEF ExceptionStateVec
  <2>2. /\ readyQ' \in Seq(Proc) /\ currentProcess' \in Proc \cup {NULL}
        /\ cpu' \in Ctx /\ mode' \in Mode /\ pltPending' \in BOOLEAN
        /\ killing' \in Seq(Proc)
        /\ ModeOK' /\ OnePlace' /\ NoOrphan' /\ Ranked(Nat)'
    BY <1>1, <2>1, StartKillStep
  <2>3. TypeOK'
    BY <1>1, <2>1, <2>2 DEF NucleusInv, TypeOK, treeVars, queueVars, countVars,
       devVars
  <2> QED
    BY <2>2, <2>3 DEF NucleusInv
<1> QED
  BY <1>2, <1>3

(* Traps and SYS9 and above.                                               *)
LEMMA InvPassUpOrDie ==
    ASSUME NucleusInv, mode = "run", NEW t \in ExcType, PassUpOrDie(t)
    PROVE  NucleusInv'
<1>1. /\ currentProcess \in Live /\ currentProcess \in Proc
      /\ UNCHANGED <<pcbFree, treeVars, queueVars, countVars, newAreas,
                     semaphore, devVars>>
  BY DEF PassUpOrDie, NucleusInv, ModeOK, Live
<1>2. CASE newAreas[currentProcess][t] = NULL
  <2>1. UNCHANGED p_s /\ StartKill
    BY <1>2 DEF PassUpOrDie
  <2>2. /\ readyQ' \in Seq(Proc) /\ currentProcess' \in Proc \cup {NULL}
        /\ cpu' \in Ctx /\ mode' \in Mode /\ pltPending' \in BOOLEAN
        /\ killing' \in Seq(Proc)
        /\ ModeOK' /\ OnePlace' /\ NoOrphan' /\ Ranked(Nat)'
    BY <1>1, <2>1, StartKillStep
  <2>3. TypeOK'
    BY <1>1, <2>1, <2>2 DEF NucleusInv, TypeOK, treeVars, queueVars, countVars,
       devVars
  <2> QED
    BY <2>2, <2>3 DEF NucleusInv
<1>3. CASE newAreas[currentProcess][t] # NULL
  <2>1. newAreas[currentProcess][t] \in Ctx
    BY <1>1, <1>3 DEF NucleusInv, TypeOK
  <2>2. /\ p_s' = [p_s EXCEPT ![currentProcess] =
                                  newAreas[currentProcess][t]]
        /\ cpu' = newAreas[currentProcess][t]
        /\ UNCHANGED <<readyQ, currentProcess, mode, pltPending, killing>>
    BY <1>3 DEF PassUpOrDie
  <2>3. TypeOK'
    BY <1>1, <2>1, <2>2 DEF NucleusInv, TypeOK, treeVars, queueVars, countVars,
       devVars
  <2> QED
    BY <1>1, <2>2, <2>3, QuietStep
<1> QED
  BY <1>2, <1>3

(* All of them.                                                            *)
LEMMA InvException == NucleusInv /\ Exception => NucleusInv'
<1> SUFFICES ASSUME NucleusInv, Exception PROVE NucleusInv'
  OBVIOUS
<1>1. CASE SyscallPassUp \/ ProgramTrapHandler \/ TLBManagementHandler
  BY <1>1, InvPassUpOrDie DEF SyscallPassUp, ProgramTrapHandler,
     TLBManagementHandler, Running, ExcType, TLBEXCEPTION,
     PROGRAMTRAPEXCEPTION, SYSCALLEXCEPTION
<1>2. CASE Syscall /\ ~SyscallPassUp
  BY <1>2, InvCreateFails, InvCreateProcess, InvTerminateProcess, InvVerhogen,
     InvPasseren, InvExceptionStateVec, InvWaitForClock, InvDeviceCalls
     DEF Syscall
<1> QED
  BY <1>1, <1>2 DEF Exception

(* An instruction changes only the context.                                *)
LEMMA InvInstruction == NucleusInv /\ Instruction => NucleusInv'
<1> SUFFICES ASSUME NucleusInv, Instruction PROVE NucleusInv'
  OBVIOUS
<1>1. TypeOK'
  BY ConstantFacts DEF NucleusInv, TypeOK, Instruction, treeVars, queueVars,
     countVars, procVars, devVars
<1> QED
  BY <1>1, QuietStep DEF Instruction
-----------------------------------------------------------------------------
(* The recursion of HoneyIKilledTheKids.                                   *)
(* The pcbs on its call stack are distinct, in use, and only the first is  *)
(* the current process.                                                    *)
LEMMA KillFacts ==
    ASSUME NucleusInv, mode = "kill"
    PROVE  /\ Len(killing) \in Nat \ {0} /\ Victim = killing[Len(killing)]
           /\ Victim \in Live /\ Victim \in Proc /\ Contains(killing, Victim)
           /\ currentProcess \in Live /\ killing[1] = currentProcess
           /\ \A i \in 1 .. Len(killing) : killing[i] \in Live
           /\ \A i, j \in 1 .. Len(killing) : killing[i] = killing[j] => i = j
           /\ Victim = currentProcess <=> Len(killing) = 1
           /\ Front(killing) \in Seq(Proc)
           /\ Len(Front(killing)) = Len(killing) - 1
           /\ \A i \in 1 .. Len(killing) - 1 : Front(killing)[i] = killing[i]
<1>1. /\ killing \in Seq(Proc) /\ killing # <<>>
      /\ currentProcess \in Live /\ killing[1] = currentProcess
      /\ \A i \in 1 .. Len(killing) : killing[i] \in Live
  BY DEF NucleusInv, TypeOK, ModeOK
<1>2. Len(killing) \in Nat \ {0}
  BY <1>1, LenProperties, EmptySeq
<1>3. Victim = killing[Len(killing)] /\ Victim \in Live /\ Victim \in Proc
  BY <1>1, <1>2 DEF Victim, Last, Live
<1>4. Contains(killing, Victim)
  BY <1>2, <1>3 DEF Contains
<1>5. ASSUME NEW i \in 1 .. Len(killing), NEW j \in 1 .. Len(killing),
             killing[i] = killing[j]
      PROVE  i = j
  <2>1. PICK r \in [Proc -> Nat] : \A k, l \in 1 .. Len(killing) :
           k < l => r[killing[k]] < r[killing[l]]
    BY DEF NucleusInv, Ranked
  <2>2. r[killing[i]] \in Nat
    BY <1>1, <2>1 DEF Live
  <2> QED
    BY <1>2, <1>5, <2>1, <2>2
<1>6. Victim = currentProcess <=> Len(killing) = 1
  <2>1. 1 \in 1 .. Len(killing) /\ Len(killing) \in 1 .. Len(killing)
    BY <1>2
  <2>2. killing[Len(killing)] = killing[1] => Len(killing) = 1
    BY <1>5, <2>1
  <2> QED
    BY <1>1, <1>3, <2>2
<1>7. /\ Front(killing) \in Seq(Proc)
      /\ Len(Front(killing)) = Len(killing) - 1
      /\ \A i \in 1 .. Len(killing) - 1 : Front(killing)[i] = killing[i]
  <2> DEFINE n == Len(killing) - 1
  <2>1. n \in 0 .. Len(killing) /\ n \in Nat /\ Front(killing) = SubSeq(killing, 1, n)
    BY <1>2 DEF Front
  <2> HIDE DEF n
  <2>2. /\ SubSeq(killing, 1, n) \in Seq(Proc)
        /\ Len(SubSeq(killing, 1, n)) = n
        /\ \A i \in 1 .. n : SubSeq(killing, 1, n)[i] = killing[i]
    BY <1>1, <1>2, <2>1, SubSeqProperties
  <2> QED
    BY <2>1, <2>2 DEF n
<1> QED
  BY <1>1, <1>2, <1>3, <1>4, <1>5, <1>6, <1>7

(* Whose parent is the victim is on its list of children, or was killed.   *)
LEMMA VictimHasNoChild ==
    ASSUME NucleusInv, mode = "kill", p_child[Victim] = {}
    PROVE  \A p \in Live : p_prnt[p] # Victim
<1> SUFFICES ASSUME NEW p \in Live, p_prnt[p] = Victim PROVE FALSE
  OBVIOUS
<1>1. Victim \in Live /\ p \in Proc
  BY KillFacts DEF Live
<1>2. Orphaned(p)
  BY <1>1 DEF NucleusInv, NoOrphan
<1>3. PICK i \in 1 .. Len(killing) : killing[i] = p
  BY <1>2 DEF Orphaned, Contains
<1>4. PICK r \in [Proc -> Nat] :
         /\ \A x \in Live : p_prnt[x] # NULL => r[p_prnt[x]] < r[x]
         /\ \A k, l \in 1 .. Len(killing) :
               k < l => r[killing[k]] < r[killing[l]]
  BY DEF NucleusInv, Ranked
<1>5. r[Victim] < r[p]
  BY <1>1, <1>4, ConstantFacts DEF Live
<1>6. i < Len(killing)
  BY <1>1, <1>3, <1>4, <1>5, KillFacts
<1>7. r[p] < r[Victim]
  BY <1>3, <1>4, <1>6, KillFacts
<1> QED
  BY <1>1, <1>4, <1>5, <1>7 DEF Live

(* A child is taken from its parent and becomes the innermost victim.      *)
LEMMA InvKillChild ==
    ASSUME NucleusInv, NEW c \in Proc, KillChild(c)
    PROVE  NucleusInv'
<1>1. /\ mode = "kill" /\ c \in p_child[Victim]
      /\ p_child' = [p_child EXCEPT ![Victim] = @ \ {c}]
      /\ killing' = Append(killing, c)
      /\ UNCHANGED <<pcbFree, p_prnt, queueVars, countVars, procVars, schedVars,
                     semaphore, devVars>>
  BY DEF KillChild
<1>2. /\ Len(killing) \in Nat \ {0} /\ Victim = killing[Len(killing)]
      /\ Victim \in Live /\ Victim \in Proc
      /\ killing \in Seq(Proc) /\ killing[1] = currentProcess
      /\ \A i \in 1 .. Len(killing) : killing[i] \in Live
  BY <1>1, KillFacts DEF NucleusInv, TypeOK
<1>3. c \in Live /\ p_prnt[c] = Victim /\ ~Orphaned(c)
  BY <1>1, <1>2 DEF NucleusInv, NoOrphan
<1>4. /\ killing' \in Seq(Proc) /\ killing' # <<>>
      /\ Len(killing') = Len(killing) + 1
      /\ \A i \in 1 .. Len(killing) : killing'[i] = killing[i]
      /\ killing'[Len(killing) + 1] = c
      /\ killing'[1] = killing[1]
  BY <1>1, <1>2, AppendProperties
<1>5. TypeOK'
  BY <1>1, <1>2, <1>4 DEF NucleusInv, TypeOK, queueVars, countVars, procVars,
     schedVars, devVars
<1>6. ModeOK'
  <2>1. \A i \in 1 .. Len(killing') : killing'[i] \in Live
    BY <1>2, <1>3, <1>4
  <2>2. mode' = "kill" /\ currentProcess' \in Live' /\ Live' = Live
    BY <1>1, KillFacts DEF schedVars, Live
  <2>3. killing' # <<>> /\ killing'[1] = currentProcess'
    BY <1>1, <1>2, <1>4 DEF schedVars
  <2> QED
    BY <2>1, <2>2, <2>3 DEF ModeOK, Idle
<1>7. OnePlace'
  BY <1>1, PlaceUnchanged DEF NucleusInv, queueVars, schedVars
<1>8. PICK r \in [Proc -> Nat] :
         /\ \A x \in Live : p_prnt[x] # NULL => r[p_prnt[x]] < r[x]
         /\ \A k, l \in 1 .. Len(killing) :
               k < l => r[killing[k]] < r[killing[l]]
  BY DEF NucleusInv, Ranked
<1>9. r[Victim] < r[c] /\ c # currentProcess
  <2>1. r[Victim] < r[c]
    BY <1>2, <1>3, <1>8, ConstantFacts DEF Live
  <2>2. /\ r[killing[1]] \in Nat /\ r[Victim] \in Nat /\ r[c] \in Nat
        /\ 1 \in 1 .. Len(killing) /\ Len(killing) \in 1 .. Len(killing)
    BY <1>2, <1>3, <1>8 DEF Live
  <2>3. CASE Len(killing) = 1
    BY <1>2, <2>1, <2>2, <2>3
  <2>4. CASE 1 < Len(killing)
    <3>1. r[killing[1]] < r[Victim]
      BY <1>2, <1>8, <2>2, <2>4
    <3> QED
      BY <1>2, <2>1, <2>2, <3>1
  <2>5. Len(killing) = 1 \/ 1 < Len(killing)
    <3>1. \A n \in Nat \ {0} : n = 1 \/ 1 < n
      OBVIOUS
    <3> QED
      BY <1>2, <3>1
  <2> QED
    BY <2>3, <2>4, <2>5
<1>10. NoOrphan'
  <2>1. \A x : Orphaned(x)' <=> Orphaned(x) \/ x = c
    <3>1. 1 .. Len(killing') = (1 .. Len(killing)) \cup {Len(killing) + 1}
      BY <1>2, <1>4
    <3>2. \A x : Contains(killing', x) <=> Contains(killing, x) \/ x = c
      BY <1>4, <3>1 DEF Contains
    <3> QED
      BY <1>2, <1>4, <1>9, <3>2 DEF Orphaned
  <2>2. Live' = Live /\ p_prnt' = p_prnt
    BY <1>1 DEF Live
  <2>3. p_child'[Victim] = p_child[Victim] \ {c}
        /\ \A x \in Proc : x # Victim => p_child'[x] = p_child[x]
    BY <1>1, <1>2 DEF NucleusInv, TypeOK
  <2>4. ASSUME NEW x \in Live, NEW y \in Proc
        PROVE  y \in p_child'[x] <=> y \in Live /\ p_prnt[y] = x /\ ~Orphaned(y)'
    <3>1. y \in p_child[x] <=> y \in Live /\ p_prnt[y] = x /\ ~Orphaned(y)
      BY DEF NucleusInv, NoOrphan
    <3>2. x \in Proc
      BY DEF Live
    <3> QED
      BY <1>3, <2>1, <2>3, <3>1, <3>2
  <2>5. \A x \in Live : p_prnt[x] # NULL => p_prnt[x] \in Live
    BY DEF NucleusInv, NoOrphan
  <2> QED
    BY <2>2, <2>4, <2>5 DEF NoOrphan
<1>11. Ranked(Nat)'
  <2>1. \A i, j \in 1 .. Len(killing') :
           i < j => r[killing'[i]] < r[killing'[j]]
    <3> SUFFICES ASSUME NEW i \in 1 .. Len(killing'), NEW j \in 1 .. Len(killing'),
                        i < j
                 PROVE  r[killing'[i]] < r[killing'[j]]
      OBVIOUS
    <3>1. CASE j <= Len(killing)
      <4>1. i \in 1 .. Len(killing) /\ j \in 1 .. Len(killing)
        BY <1>2, <1>4, <3>1
      <4> QED
        BY <1>4, <1>8, <4>1
    <3>2. CASE j = Len(killing) + 1
      <4>1. /\ i \in 1 .. Len(killing) /\ killing'[i] = killing[i]
            /\ killing'[j] = c
        BY <1>2, <1>4, <3>2
      <4>2. i = Len(killing) \/ r[killing[i]] < r[Victim]
        <5>1. Len(killing) \in 1 .. Len(killing)
          BY <1>2
        <5>2. i = Len(killing) \/ i < Len(killing)
          BY <1>2, <4>1
        <5> QED
          BY <1>2, <1>8, <4>1, <5>1, <5>2
      <4>3. killing[i] \in Proc
        BY <1>2, <4>1 DEF Live
      <4>4. r[killing[i]] \in Nat /\ r[Victim] \in Nat /\ r[c] \in Nat
        BY <1>2, <1>8, <4>3
      <4> QED
        BY <1>2, <1>9, <4>1, <4>2, <4>4
    <3>3. j <= Len(killing) \/ j = Len(killing) + 1
      <4>1. Len(killing') = Len(killing) + 1 /\ Len(killing) \in Nat
        BY <1>2, <1>4
      <4> QED
        BY <4>1
    <3> QED
      BY <3>1, <3>2, <3>3
  <2>2. Live' = Live /\ p_prnt' = p_prnt
    BY <1>1 DEF Live
  <2> QED
    BY <1>8, <2>1, <2>2 DEF Ranked
<1> QED
  BY <1>5, <1>6, <1>7, <1>10, <1>11 DEF NucleusInv

(* The pcb v leaves whatever queue it is on and is freed.  The current     *)
(* process remains unless it is v.                                         *)
LEMMA ReapPlaced ==
    ASSUME TypeOK, NEW v \in Live,
           Placed(readyQ, currentProcess, procQ, p_semAdd, pcbFree),
           NEW q \in Seq(Proc), Distinct(q),
           \A x : Contains(q, x) <=> Contains(readyQ, x) /\ x # v,
           NEW pq \in [Sem -> Seq(Proc)], \A s \in Sem : Distinct(pq[s]),
           \A s \in Sem : \A x :
              Contains(pq[s], x) <=> Contains(procQ[s], x) /\ x # v,
           NEW cur, cur = IF v = currentProcess THEN NULL ELSE currentProcess
    PROVE  Placed(q, cur, pq, p_semAdd, pcbFree \cup {v})
<1>1. pcbFree \subseteq Proc /\ v \in Proc /\ NULL \notin Proc
  BY ConstantFacts DEF TypeOK, Live
<1>2. \A p \in Proc \ (pcbFree \cup {v}) :
         p = cur \/ Contains(q, p) \/ \E s \in Sem : Contains(pq[s], p)
  BY <1>1 DEF Placed
<1>3. \A p \in pcbFree \cup {v} :
         ~Contains(q, p) /\ \A s \in Sem : ~Contains(pq[s], p)
  BY <1>1 DEF Placed
<1>4. cur \in Proc \ (pcbFree \cup {v}) =>
         ~Contains(q, cur) /\ \A s \in Sem : ~Contains(pq[s], cur)
  BY <1>1 DEF Placed
<1>5. /\ \A p \in Proc, s \in Sem : Contains(pq[s], p) => p_semAdd[p] = s
      /\ \A p \in Proc, s \in Sem : ~(Contains(q, p) /\ Contains(pq[s], p))
  BY DEF Placed
<1> QED
  BY <1>2, <1>3, <1>4, <1>5 DEF Placed

(* The tree when the innermost victim is freed.                            *)
LEMMA ReapTree ==
    ASSUME NucleusInv, mode = "kill", p_child[Victim] = {},
           p_prnt' = p_prnt, pcbFree' = pcbFree \cup {Victim},
           killing' = Front(killing),
           p_child' = IF Victim = currentProcess THEN outChild(Victim)
                                                 ELSE p_child
    PROVE  /\ Live' = Live \ {Victim}
           /\ p_child' \in [Proc -> SUBSET Proc]
           /\ NoOrphan' /\ Ranked(Nat)'
<1>1. /\ Victim \in Live /\ Victim \in Proc /\ Live' = Live \ {Victim}
      /\ Contains(killing, Victim) /\ Len(killing) \in Nat \ {0}
      /\ Victim = killing[Len(killing)]
      /\ Victim = currentProcess <=> Len(killing) = 1
      /\ killing[1] = currentProcess
      /\ Len(killing') = Len(killing) - 1
      /\ \A i \in 1 .. Len(killing) - 1 : killing'[i] = killing[i]
  BY KillFacts DEF Live
<1>2. p_child \in [Proc -> SUBSET Proc] /\ Live \subseteq Proc
  BY DEF NucleusInv, TypeOK, Live
<1>3. /\ p_child' \in [Proc -> SUBSET Proc]
      /\ \A p \in Live : p_child'[p] = IF Victim = currentProcess
                                          /\ p = p_prnt[Victim]
                                       THEN p_child[p] \ {Victim}
                                       ELSE p_child[p]
  BY <1>1, <1>2 DEF outChild
<1>4. \A p \in Live : p_prnt[p] # Victim
  BY VictimHasNoChild
<1>5. /\ \A p \in Live : p_prnt[p] # NULL => p_prnt[p] \in Live
      /\ \A p \in Live, c \in Proc :
            c \in p_child[p] <=> c \in Live /\ p_prnt[c] = p /\ ~Orphaned(c)
  BY DEF NucleusInv, NoOrphan
<1>6. \A x : x # Victim => (Orphaned(x)' <=> Orphaned(x))
  <2>1. CASE Len(killing) = 1
    <3>1. \A x : ~Contains(killing', x)
      BY <1>1, <2>1 DEF Contains
    <3>2. \A x : Contains(killing, x) => x = killing[1]
      BY <2>1 DEF Contains
    <3> QED
      BY <3>1, <3>2 DEF Orphaned
  <2>2. CASE Len(killing) # 1
    <3>1. 1 \in 1 .. Len(killing) - 1 /\ killing'[1] = killing[1]
      BY <1>1, <2>2
    <3>2. 1 .. Len(killing) = (1 .. Len(killing')) \cup {Len(killing)}
      BY <1>1
    <3>3. \A x : x # Victim => (Contains(killing', x) <=> Contains(killing, x))
      BY <1>1, <3>2 DEF Contains
    <3> QED
      BY <3>1, <3>3 DEF Orphaned
  <2> QED
    BY <2>1, <2>2
<1>7. \A p \in Live : Victim \in p_child[p] =>
         Victim = currentProcess /\ p = p_prnt[Victim]
  <2>1. Orphaned(Victim) \/ Victim = currentProcess
    BY <1>1 DEF Orphaned
  <2> QED
    BY <1>1, <1>5, <2>1
<1>8. NoOrphan'
  <2>1. \A p \in Live' : p_prnt'[p] # NULL => p_prnt'[p] \in Live'
    BY <1>1, <1>4, <1>5
  <2>2. ASSUME NEW p \in Live', NEW c \in Proc
        PROVE  c \in p_child'[p] <=>
                  c \in Live' /\ p_prnt[c] = p /\ ~Orphaned(c)'
    <3>1. p \in Live /\ (c \in p_child[p] <=> c \in Live /\ p_prnt[c] = p
                                              /\ ~Orphaned(c))
      BY <1>1, <1>5
    <3>2. CASE c = Victim
      BY <1>1, <1>3, <1>7, <3>1, <3>2
    <3>3. CASE c # Victim
      BY <1>1, <1>3, <1>6, <3>1, <3>3
    <3> QED
      BY <3>2, <3>3
  <2> QED
    BY <2>1, <2>2 DEF NoOrphan
<1>9. Ranked(Nat)'
  <2>1. PICK r \in [Proc -> Nat] :
           /\ \A x \in Live : p_prnt[x] # NULL => r[p_prnt[x]] < r[x]
           /\ \A k, l \in 1 .. Len(killing) :
                 k < l => r[killing[k]] < r[killing[l]]
    BY DEF NucleusInv, Ranked
  <2>2. ASSUME NEW i \in 1 .. Len(killing'), NEW j \in 1 .. Len(killing'), i < j
        PROVE  r[killing'[i]] < r[killing'[j]]
    <3>1. /\ i \in 1 .. Len(killing) - 1 /\ j \in 1 .. Len(killing) - 1
          /\ i \in 1 .. Len(killing) /\ j \in 1 .. Len(killing)
      BY <1>1
    <3> QED
      BY <1>1, <2>1, <2>2, <3>1
  <2> QED
    BY <1>1, <2>1, <2>2 DEF Ranked
<1> QED
  BY <1>1, <1>3, <1>8, <1>9

(* processCount--, freePcb, return; q is the ready queue by then.          *)
LEMMA FreeVictimStep ==
    ASSUME NucleusInv, mode = "kill", NEW q \in Seq(Proc), FreeVictim(q),
           p_child[Victim] = {}, p_prnt' = p_prnt,
           p_child' = IF Victim = currentProcess THEN outChild(Victim)
                                                 ELSE p_child,
           UNCHANGED <<procVars, p_semAdd>>,
           procQ' \in [Sem -> Seq(Proc)],
           semaphore' \in [Sem -> Int], softBlockCount' \in Int,
           UNCHANGED devVars,
           ~Contains(q, Victim) =>
              Placed(q, IF Victim = currentProcess THEN NULL
                                                   ELSE currentProcess,
                     procQ', p_semAdd, pcbFree \cup {Victim})
    PROVE  NucleusInv'
<1>1. /\ processCount' = processCount - 1
      /\ pcbFree' = pcbFree \cup {Victim} /\ killing' = Front(killing)
  BY DEF FreeVictim
<1>2. /\ Live' = Live \ {Victim} /\ p_child' \in [Proc -> SUBSET Proc]
      /\ NoOrphan' /\ Ranked(Nat)'
  BY <1>1, ReapTree
<1>3. /\ Victim \in Live /\ Victim \in Proc /\ Len(killing) \in Nat \ {0}
      /\ Victim = currentProcess <=> Len(killing) = 1
      /\ currentProcess \in Live /\ currentProcess \in Proc
      /\ killing[1] = currentProcess
      /\ killing' \in Seq(Proc) /\ Len(killing') = Len(killing) - 1
      /\ \A i \in 1 .. Len(killing) - 1 : killing'[i] = killing[i]
      /\ \A i \in 1 .. Len(killing) : killing[i] \in Live
      /\ \A i, j \in 1 .. Len(killing) : killing[i] = killing[j] => i = j
      /\ Victim = killing[Len(killing)]
  BY <1>1, KillFacts DEF Live
<1>4. /\ readyQ' \in Seq(Proc) /\ currentProcess' \in Proc \cup {NULL}
      /\ cpu' \in Ctx /\ mode' \in Mode /\ pltPending' \in BOOLEAN
      /\ ModeOK' /\ OnePlace'
  <2>1. /\ cpu \in Ctx /\ pltPending \in BOOLEAN /\ pcbFree \subseteq Proc
        /\ p_s \in [Proc -> Ctx]
    BY DEF NucleusInv, TypeOK
  <2>2. CASE Contains(q, Victim)
    <3>1. /\ mode' = "corrupt" /\ readyQ' = q
          /\ UNCHANGED <<currentProcess, cpu, pltPending>>
      BY <2>2 DEF FreeVictim
    <3>2. ModeOK' /\ OnePlace'
      BY <3>1 DEF ModeOK, OnePlace, Idle
    <3> QED
      BY <1>3, <2>1, <3>1, <3>2 DEF Mode, Stopped
  <2>3. CASE ~Contains(q, Victim) /\ Len(killing) > 1
    <3>1. readyQ' = q /\ UNCHANGED <<currentProcess, cpu, mode, pltPending>>
      BY <1>3, <2>3 DEF FreeVictim
    <3>2. Victim # currentProcess
      BY <1>3, <2>3
    <3>3. OnePlace'
      BY <1>1, <2>3, <3>1, <3>2 DEF OnePlace, Placed
    <3>4. killing' # <<>> /\ killing'[1] = currentProcess'
      <4>1. 1 \in 1 .. Len(killing) - 1 /\ Len(killing') # 0
        BY <1>3, <2>3
      <4>2. killing' # <<>>
        BY <4>1
      <4>3. killing'[1] = killing[1] /\ killing[1] = currentProcess
        <5>1. /\ \A i \in 1 .. Len(killing) - 1 : killing'[i] = killing[i]
              /\ killing[1] = currentProcess
          BY <1>3
        <5> QED
          BY <4>1, <5>1
      <4>4. currentProcess' = currentProcess
        BY <3>1
      <4> QED
        BY <4>2, <4>3, <4>4
    <3>5. \A i \in 1 .. Len(killing') : killing'[i] \in Live'
      <4>1. ASSUME NEW i \in 1 .. Len(killing') PROVE killing'[i] \in Live'
        <5>1. /\ i \in 1 .. Len(killing) - 1 /\ i \in 1 .. Len(killing)
              /\ i # Len(killing) /\ Len(killing) \in 1 .. Len(killing)
          BY <1>3
        <5> QED
          BY <1>2, <1>3, <5>1
      <4> QED
        BY <4>1
    <3>6. ModeOK'
      BY <1>2, <1>3, <3>1, <3>2, <3>4, <3>5 DEF ModeOK, Idle
    <3> QED
      BY <1>3, <2>1, <3>1, <3>3, <3>6 DEF Mode
  <2>4. CASE ~Contains(q, Victim) /\ Len(killing) = 1
    <3>1. Scheduler(q, currentProcess) /\ Victim = currentProcess
      BY <1>3, <2>4 DEF FreeVictim
    <3>2. Placed(q, NULL, procQ', p_semAdd', pcbFree')
      BY <1>1, <2>4, <3>1
    <3>3. /\ pcbFree' \subseteq Proc /\ p_s' \in [Proc -> Ctx]
          /\ currentProcess \notin Proc \ pcbFree'
      BY <1>1, <1>3, <2>1, <3>1 DEF procVars
    <3>4. /\ readyQ' \in Seq(Proc) /\ currentProcess' \in Proc \cup {NULL}
          /\ cpu' \in Ctx /\ pltPending' \in BOOLEAN
          /\ mode' \in {"run", "halt", "panic", "unmask"}
          /\ mode' = "run" => currentProcess' \in Proc \ pcbFree'
          /\ mode' # "run" => currentProcess' \notin Proc \ pcbFree'
          /\ Placed(readyQ', currentProcess', procQ', p_semAdd', pcbFree')
      BY <1>3, <2>1, <3>1, <3>2, <3>3, SchedulerStep
    <3>5. killing' = <<>>
      BY <1>3, <2>4, EmptySeq
    <3>6. ModeOK'
      BY <3>4, <3>5 DEF ModeOK, Idle, Live
    <3>7. OnePlace'
      BY <3>4 DEF OnePlace, Placed
    <3> QED
      BY <3>4, <3>6, <3>7 DEF Mode, Idle, Stopped
  <2> QED
    BY <1>3, <2>2, <2>3, <2>4
<1>5. TypeOK'
  <2>1. TypeOK
    BY DEF NucleusInv
  <2>2. pcbFree' \subseteq Proc /\ processCount' \in Int
    BY <1>1, <1>3, <2>1 DEF TypeOK
  <2> QED
    BY <1>2, <1>3, <1>4, <2>1, <2>2 DEF TypeOK, procVars, devVars
<1> QED
  BY <1>2, <1>4, <1>5 DEF NucleusInv

(* The root of the killed subtree is freed last.                           *)
LEMMA InvKillCurrent == NucleusInv /\ KillCurrent => NucleusInv'
<1> SUFFICES ASSUME NucleusInv, KillCurrent PROVE NucleusInv'
  OBVIOUS
<1>1. /\ mode = "kill" /\ p_child[Victim] = {} /\ Victim = currentProcess
      /\ p_child' = outChild(Victim) /\ FreeVictim(readyQ)
      /\ UNCHANGED <<p_prnt, queueVars, softBlockCount, procVars, semaphore,
                     devVars>>
  BY DEF KillCurrent
<1>2. /\ TypeOK /\ Placed(readyQ, currentProcess, procQ, p_semAdd, pcbFree)
      /\ Victim \in Live
  BY <1>1, KillFacts DEF NucleusInv, OnePlace
<1>3. /\ readyQ \in Seq(Proc) /\ procQ' \in [Sem -> Seq(Proc)]
      /\ procQ \in [Sem -> Seq(Proc)]
      /\ semaphore' \in [Sem -> Int] /\ softBlockCount' \in Int
      /\ procQ' = procQ /\ p_semAdd' = p_semAdd
  BY <1>1, <1>2 DEF TypeOK, queueVars
<1>4. /\ Distinct(readyQ) /\ \A s \in Sem : Distinct(procQ[s])
      /\ ~Contains(readyQ, Victim)
      /\ \A s \in Sem : ~Contains(procQ[s], Victim)
  BY <1>1, <1>2 DEF Placed, Live
<1>5. /\ \A x : Contains(readyQ, x) <=> Contains(readyQ, x) /\ x # Victim
      /\ \A s \in Sem : \A x :
            Contains(procQ[s], x) <=> Contains(procQ[s], x) /\ x # Victim
  BY <1>4
<1>6. Placed(readyQ, NULL, procQ, p_semAdd, pcbFree \cup {Victim})
  BY <1>1, <1>2, <1>3, <1>4, <1>5, ReapPlaced
<1> QED
  BY <1>1, <1>3, <1>6, FreeVictimStep

(* A ready process is killed.                                              *)
LEMMA InvKillReady == NucleusInv /\ KillReady => NucleusInv'
<1> SUFFICES ASSUME NucleusInv, KillReady PROVE NucleusInv'
  OBVIOUS
<1> DEFINE q == outProcQ(readyQ, Victim)
<1>1. /\ mode = "kill" /\ p_child[Victim] = {} /\ Victim # currentProcess
      /\ p_semAdd[Victim] = NULL /\ FreeVictim(q)
      /\ UNCHANGED <<treeVars, queueVars, softBlockCount, procVars, semaphore,
                     devVars>>
  BY DEF KillReady
<1>2. /\ TypeOK /\ Placed(readyQ, currentProcess, procQ, p_semAdd, pcbFree)
      /\ Victim \in Live /\ Victim \in Proc
  BY <1>1, KillFacts DEF NucleusInv, OnePlace
<1>3. /\ readyQ \in Seq(Proc) /\ procQ' \in [Sem -> Seq(Proc)]
      /\ procQ \in [Sem -> Seq(Proc)]
      /\ semaphore' \in [Sem -> Int] /\ softBlockCount' \in Int
      /\ procQ' = procQ /\ p_semAdd' = p_semAdd
      /\ p_prnt' = p_prnt /\ p_child' = p_child
  BY <1>1, <1>2 DEF TypeOK, queueVars, treeVars
<1>4. /\ Distinct(readyQ) /\ \A s \in Sem : Distinct(procQ[s])
      /\ \A s \in Sem : ~Contains(procQ[s], Victim)
  BY <1>1, <1>2, ConstantFacts DEF Placed
<1>5. /\ q \in Seq(Proc) /\ Distinct(q)
      /\ \A x : Contains(q, x) <=> Contains(readyQ, x) /\ x # Victim
  BY <1>3, <1>4, QueueOut
<1> HIDE DEF q
<1>6. \A s \in Sem : \A x :
         Contains(procQ[s], x) <=> Contains(procQ[s], x) /\ x # Victim
  BY <1>4
<1>7. Placed(q, currentProcess, procQ, p_semAdd, pcbFree \cup {Victim})
  BY <1>1, <1>2, <1>3, <1>4, <1>5, <1>6, ReapPlaced
<1> QED
  BY <1>1, <1>3, <1>5, <1>7, FreeVictimStep

(* A blocked process is killed, or one taken for blocked.                  *)
LEMMA InvKillBlocked == NucleusInv /\ KillBlocked => NucleusInv'
<1> SUFFICES ASSUME NucleusInv, KillBlocked PROVE NucleusInv'
  OBVIOUS
<1>1. /\ mode = "kill" /\ p_child[Victim] = {} /\ Victim # currentProcess
      /\ FreeVictim(readyQ)
      /\ UNCHANGED <<treeVars, p_semAdd, procVars, devVars>>
  BY DEF KillBlocked
<1>2. PICK s \in Sem :
         /\ s = p_semAdd[Victim]
         /\ procQ' = [procQ EXCEPT ![s] = outProcQ(@, Victim)]
         /\ IF IsDeviceSem(s)
            THEN /\ softBlockCount' = softBlockCount - 1
                 /\ UNCHANGED semaphore
            ELSE /\ semaphore' = [semaphore EXCEPT ![s] = @ + 1]
                 /\ UNCHANGED softBlockCount
  BY DEF KillBlocked
<1>3. /\ TypeOK /\ Placed(readyQ, currentProcess, procQ, p_semAdd, pcbFree)
      /\ Victim \in Live /\ Victim \in Proc
  BY <1>1, KillFacts DEF NucleusInv, OnePlace
<1>4. /\ readyQ \in Seq(Proc) /\ procQ \in [Sem -> Seq(Proc)]
      /\ semaphore' \in [Sem -> Int] /\ softBlockCount' \in Int
      /\ p_prnt' = p_prnt /\ p_child' = p_child /\ p_semAdd' = p_semAdd
  BY <1>1, <1>2, <1>3 DEF TypeOK, treeVars
<1>5. /\ Distinct(readyQ) /\ \A t \in Sem : Distinct(procQ[t])
      /\ \A t \in Sem : t # s => ~Contains(procQ[t], Victim)
  BY <1>2, <1>3 DEF Placed
<1>6. /\ outProcQ(procQ[s], Victim) \in Seq(Proc)
      /\ Distinct(outProcQ(procQ[s], Victim))
      /\ \A x : Contains(outProcQ(procQ[s], Victim), x) <=>
                   Contains(procQ[s], x) /\ x # Victim
  BY <1>4, <1>5, QueueOut
<1>7. /\ procQ' \in [Sem -> Seq(Proc)] /\ \A t \in Sem : Distinct(procQ'[t])
      /\ \A t \in Sem : \A x :
            Contains(procQ'[t], x) <=> Contains(procQ[t], x) /\ x # Victim
  BY <1>2, <1>4, <1>5, <1>6
<1>8. ~Contains(readyQ, Victim) =>
         Placed(readyQ, currentProcess, procQ', p_semAdd, pcbFree \cup {Victim})
  <2> SUFFICES ASSUME ~Contains(readyQ, Victim)
               PROVE  Placed(readyQ, currentProcess, procQ', p_semAdd,
                             pcbFree \cup {Victim})
    OBVIOUS
  <2>1. \A x : Contains(readyQ, x) <=> Contains(readyQ, x) /\ x # Victim
    OBVIOUS
  <2>2. currentProcess = IF Victim = currentProcess THEN NULL ELSE currentProcess
    BY <1>1
  <2> QED
    BY <1>3, <1>4, <1>5, <1>7, <2>1, <2>2, ReapPlaced
<1> QED
  BY <1>1, <1>4, <1>7, <1>8, FreeVictimStep
-----------------------------------------------------------------------------
(* The scheduler's idle path, and interrupts.                              *)
LEMMA InvIdle == NucleusInv /\ (SchedulerNull \/ SchedulerWait) => NucleusInv'
<1> SUFFICES ASSUME NucleusInv, SchedulerNull \/ SchedulerWait
             PROVE  NucleusInv'
  OBVIOUS
<1>1. /\ mode \in Idle /\ mode' \in {"nulled", "wait"} /\ killing = <<>>
      /\ currentProcess' = NULL /\ currentProcess \notin Live
      /\ pltPending' \in BOOLEAN
      /\ UNCHANGED idleFrame
  BY DEF SchedulerNull, SchedulerWait, NucleusInv, ModeOK, Idle, TypeOK
<1>2. /\ UNCHANGED <<pcbFree, p_prnt, p_child, procQ, p_semAdd, readyQ,
                     processCount, softBlockCount, p_s, newAreas, semaphore,
                     killing, dev, itPending, cpu>>
  BY <1>1 DEF idleFrame, treeVars, queueVars, countVars, procVars, devVars
<1>3. TypeOK'
  BY <1>1, <1>2 DEF NucleusInv, TypeOK, Mode, Idle
<1>4. ModeOK'
  BY <1>1, <1>2, ConstantFacts DEF ModeOK, Idle, Live
<1>5. OnePlace'
  <2>1. Placed(readyQ, currentProcess, procQ, p_semAdd, pcbFree)
    BY <1>1 DEF NucleusInv, OnePlace, Idle
  <2>2. Placed(readyQ, NULL, procQ, p_semAdd, pcbFree)
    BY <1>1, <2>1, ConstantFacts DEF Placed, Live
  <2> QED
    BY <1>1, <1>2, <2>2 DEF OnePlace, Placed
<1>6. NoOrphan' /\ Ranked(Nat)'
  BY <1>2, TreeUnchanged DEF NucleusInv
<1> QED
  BY <1>3, <1>4, <1>5, <1>6 DEF NucleusInv

(* The local timer's interrupt.                                            *)
LEMMA InvPLT == NucleusInv /\ (PLTPreempt \/ PLTIdle) => NucleusInv'
<1> SUFFICES ASSUME NucleusInv, PLTPreempt \/ PLTIdle PROVE NucleusInv'
  OBVIOUS
<1>1. /\ TypeOK /\ killing = <<>> /\ mode \in {"run"} \cup Idle
      /\ Placed(readyQ, currentProcess, procQ, p_semAdd, pcbFree)
  BY DEF PLTPreempt, PLTIdle, Interruptible, NucleusInv, ModeOK, OnePlace, Idle
<1>2. CASE PLTPreempt
  <2> DEFINE q == insertProcQ(readyQ, currentProcess)
  <2>1. /\ currentProcess \in Live /\ currentProcess \in Proc
        /\ currentProcess \notin pcbFree
        /\ Scheduler(q, currentProcess)
        /\ UNCHANGED <<pcbFree, treeVars, queueVars, countVars, procVars,
                       semaphore, killing, devVars>>
    BY <1>2 DEF PLTPreempt, Live
  <2>2. /\ q \in Seq(Proc) /\ q # <<>>
        /\ \A x : Contains(q, x) <=> Contains(readyQ, x) \/ x = currentProcess
        /\ Distinct(readyQ) /\ ~Contains(readyQ, currentProcess) => Distinct(q)
    BY <1>1, <2>1, QueueInsert DEF TypeOK
  <2> HIDE DEF q
  <2>3. Placed(q, NULL, procQ, p_semAdd, pcbFree)
    BY <1>1, <2>1, <2>2, ConstantFacts DEF Placed, TypeOK
  <2>4. /\ procQ' \in [Sem -> Seq(Proc)] /\ p_s' \in [Proc -> Ctx]
        /\ p_semAdd' \in [Proc -> Sem \cup {NULL}]
        /\ procQ' = procQ /\ p_semAdd' = p_semAdd
    BY <1>1, <2>1 DEF TypeOK, queueVars, procVars
  <2>5. /\ readyQ' \in Seq(Proc) /\ currentProcess' \in Proc \cup {NULL}
        /\ cpu' \in Ctx /\ mode' \in Mode /\ pltPending' \in BOOLEAN
        /\ ModeOK' /\ OnePlace' /\ NoOrphan' /\ Ranked(Nat)'
    BY <1>1, <2>1, <2>2, <2>3, <2>4, ScheduledStep
  <2>6. TypeOK'
    BY <1>1, <2>1, <2>5 DEF TypeOK, treeVars, queueVars, countVars, procVars,
       devVars
  <2> QED
    BY <2>5, <2>6 DEF NucleusInv
<1>3. CASE PLTIdle
  <2>1. /\ UNCHANGED <<pcbFree, treeVars, queueVars, countVars, procVars,
                       semaphore, killing, devVars, currentProcess, cpu,
                       pltPending>>
        /\ \/ mode' = "fault" /\ UNCHANGED readyQ
           \/ mode' = "corrupt" /\ currentProcess # NULL
              /\ readyQ' = insertProcQ(readyQ, currentProcess)
    BY <1>3 DEF PLTIdle
  <2>2. readyQ' \in Seq(Proc) /\ mode' \in Mode
    BY <1>1, <2>1, QueueInsert DEF TypeOK, Mode, Stopped
  <2>3. TypeOK'
    BY <1>1, <2>1, <2>2 DEF TypeOK, treeVars, queueVars, countVars, procVars,
       devVars
  <2>4. ModeOK'
    BY <2>1 DEF ModeOK, Idle
  <2>5. OnePlace'
    BY <1>1, <2>1 DEF OnePlace, Placed, queueVars
  <2>6. NoOrphan' /\ Ranked(Nat)'
    BY <2>1, TreeUnchanged DEF NucleusInv, treeVars
  <2> QED
    BY <2>3, <2>4, <2>5, <2>6 DEF NucleusInv
<1> QED
  BY <1>2, <1>3

(* n waiters of s become ready and the interrupt handler is left.          *)
LEMMA ExitStep ==
    ASSUME NucleusInv, Interruptible, NEW s \in Sem,
           NEW n \in 0 .. Len(procQ[s]),
           ExitInterruptHandler(Woken(s, n)), procQ' = Remaining(s, n),
           UNCHANGED <<pcbFree, treeVars, p_semAdd, procVars, killing>>
    PROVE  /\ procQ' \in [Sem -> Seq(Proc)]
           /\ readyQ' \in Seq(Proc) /\ currentProcess' \in Proc \cup {NULL}
           /\ cpu' \in Ctx /\ mode' \in Mode /\ pltPending' \in BOOLEAN
           /\ ModeOK' /\ OnePlace' /\ NoOrphan' /\ Ranked(Nat)'
<1>1. /\ TypeOK /\ killing = <<>>
      /\ Placed(readyQ, currentProcess, procQ, p_semAdd, pcbFree)
  BY DEF Interruptible, NucleusInv, ModeOK, OnePlace, Idle
<1> DEFINE q == Woken(s, n)
<1>2. /\ q \in Seq(Proc) /\ procQ' \in [Sem -> Seq(Proc)]
      /\ Placed(q, currentProcess, procQ', p_semAdd, pcbFree)
  BY <1>1, WakeStep
<1> HIDE DEF q
<1>3. /\ p_s' \in [Proc -> Ctx] /\ p_semAdd' = p_semAdd
      /\ p_semAdd' \in [Proc -> Sem \cup {NULL}]
  BY <1>1 DEF TypeOK, procVars
<1>4. CASE currentProcess = NULL
  <2>1. Scheduler(q, NULL)
    BY <1>4 DEF ExitInterruptHandler, q
  <2>2. NULL \notin Live /\ Placed(q, NULL, procQ', p_semAdd', pcbFree)
    BY <1>2, <1>3, <1>4, ConstantFacts DEF Live
  <2> QED
    BY <1>1, <1>2, <1>3, <2>1, <2>2, ScheduledStep
<1>5. CASE currentProcess # NULL
  <2>1. readyQ' = q /\ UNCHANGED <<currentProcess, cpu, mode, pltPending>>
    BY <1>5 DEF ExitInterruptHandler, q
  <2>2. OnePlace'
    BY <1>2, <1>3, <2>1 DEF OnePlace, Placed
  <2>3. ModeOK' /\ NoOrphan' /\ Ranked(Nat)'
    BY <2>1, ModeUnchanged, TreeUnchanged DEF NucleusInv, treeVars
  <2> QED
    BY <1>1, <1>2, <2>1, <2>2, <2>3 DEF TypeOK
<1> QED
  BY <1>4, <1>5

(* The interval timer's interrupt.                                         *)
LEMMA InvIT == NucleusInv /\ ITInterruptHandler => NucleusInv'
<1> SUFFICES ASSUME NucleusInv, ITInterruptHandler PROVE NucleusInv'
  OBVIOUS
<1>1. /\ TypeOK /\ Interruptible /\ ITSEMINDEX \in Sem
      /\ UNCHANGED <<pcbFree, treeVars, p_semAdd, processCount, procVars,
                     killing, dev>>
  BY ConstantFacts DEF ITInterruptHandler, NucleusInv
<1>2. Due \in Nat
  BY <1>1 DEF Due, TypeOK
<1>3. CASE Due <= Len(procQ[ITSEMINDEX])
  <2>1. /\ procQ' = Remaining(ITSEMINDEX, Due)
        /\ semaphore' = [semaphore EXCEPT ![ITSEMINDEX] = 0]
        /\ softBlockCount' = softBlockCount - Due
        /\ itPending' = FALSE
        /\ ExitInterruptHandler(Woken(ITSEMINDEX, Due))
    BY <1>3 DEF ITInterruptHandler
  <2>2. Due \in 0 .. Len(procQ[ITSEMINDEX])
    BY <1>1, <1>2, <1>3, QueueNonEmpty DEF TypeOK
  <2>3. /\ procQ' \in [Sem -> Seq(Proc)]
        /\ readyQ' \in Seq(Proc) /\ currentProcess' \in Proc \cup {NULL}
        /\ cpu' \in Ctx /\ mode' \in Mode /\ pltPending' \in BOOLEAN
        /\ ModeOK' /\ OnePlace' /\ NoOrphan' /\ Ranked(Nat)'
    BY <1>1, <2>1, <2>2, ExitStep
  <2>4. TypeOK'
    <3>1. semaphore \in [Sem -> Int] /\ softBlockCount \in Int
      BY <1>1 DEF TypeOK
    <3>2. semaphore' \in [Sem -> Int]
      <4>1. semaphore' = [semaphore EXCEPT ![ITSEMINDEX] = 0]
        BY <2>1
      <4>2. semaphore' = [t \in Sem |->
                             IF t = ITSEMINDEX THEN 0 ELSE semaphore[t]]
        BY <3>1, <4>1
      <4>3. \A t \in Sem :
               (IF t = ITSEMINDEX THEN 0 ELSE semaphore[t]) \in Int
        BY <3>1
      <4> QED
        BY <4>2, <4>3
    <3>3. softBlockCount' \in Int
      BY <1>2, <2>1, <3>1
    <3>4. itPending' \in BOOLEAN
      BY <2>1
    <3> QED
      BY <1>1, <2>3, <3>2, <3>3, <3>4 DEF TypeOK, treeVars, procVars
  <2> QED
    BY <2>3, <2>4 DEF NucleusInv
<1>4. CASE ~(Due <= Len(procQ[ITSEMINDEX]))
  <2>1. /\ mode' = "fault"
        /\ UNCHANGED <<procQ, semaphore, softBlockCount, itPending, readyQ,
                       currentProcess, cpu, pltPending>>
    BY <1>4 DEF ITInterruptHandler
  <2>2. TypeOK'
    BY <1>1, <2>1 DEF TypeOK, treeVars, procVars, Mode, Stopped
  <2>3. ModeOK'
    BY <2>1 DEF ModeOK, Idle
  <2>4. OnePlace'
    <3>1. mode # "corrupt"
      BY <1>1 DEF Interruptible, Idle
    <3> QED
      BY <1>1, <2>1, <3>1 DEF NucleusInv, OnePlace, Placed
  <2>5. NoOrphan' /\ Ranked(Nat)'
    BY <1>1, TreeUnchanged DEF NucleusInv, treeVars
  <2> QED
    BY <2>2, <2>3, <2>4, <2>5 DEF NucleusInv
<1> QED
  BY <1>3, <1>4

(* A device's interrupt.                                                   *)
LEMMA InvDevice ==
    ASSUME NucleusInv, NEW u \in Unit, DeviceInterrupt(u)
    PROVE  NucleusInv'
<1> DEFINE d == SubDevice(u)
           n == IF semaphore[d] + 1 <= 0 THEN Waiting(d) ELSE 0
<1>1. /\ TypeOK /\ Interruptible /\ d \in DevSem /\ d \in Sem
  <2>1. NUNIT \in Nat /\ NTERM \in 0 .. NUNIT /\ u \in 0 .. NUNIT - 1
    BY NucleusAssumption DEF Unit
  <2>2. d \in DevSem
    BY <2>1 DEF SubDevice, IsTerminal, Receiver, DevSem, DEVICECOUNT
  <2> QED
    BY <2>2, ConstantFacts DEF DeviceInterrupt, NucleusInv
<1> HIDE DEF d
<1>2. /\ semaphore' = [semaphore EXCEPT ![d] = @ + 1]
      /\ UNCHANGED <<pcbFree, treeVars, p_semAdd, processCount, procVars,
                     killing, itPending>>
  BY DEF DeviceInterrupt, ServeDevice, d
<1>3. Waiting(d) \in 0 .. Len(procQ[d]) /\ 0 \in 0 .. Len(procQ[d])
  BY <1>1, QueueNonEmpty DEF Waiting, TypeOK
<1>4. n \in 0 .. Len(procQ[d]) /\ n \in Nat
  BY <1>1, <1>3, QueueNonEmpty DEF TypeOK
<1>5. /\ procQ' = Remaining(d, n) /\ ExitInterruptHandler(Woken(d, n))
      /\ softBlockCount' = softBlockCount - n
      /\ dev' \in {dev, Acked(d)}
  <2>1. CASE semaphore[d] + 1 <= 0
    BY <2>1 DEF DeviceInterrupt, ServeDevice, d
  <2>2. CASE ~(semaphore[d] + 1 <= 0)
    <3>1. /\ procQ' = procQ /\ softBlockCount' = softBlockCount /\ dev' = dev
          /\ ExitInterruptHandler(readyQ)
      BY <2>2 DEF DeviceInterrupt, ServeDevice, d
    <3>2. procQ[d] \in Seq(Proc) /\ procQ \in [Sem -> Seq(Proc)]
          /\ readyQ \in Seq(Proc)
      BY <1>1 DEF TypeOK
    <3>3. /\ SubSeq(procQ[d], 1, 0) = <<>>
          /\ SubSeq(procQ[d], 1, Len(procQ[d])) = procQ[d]
      BY <3>2, SubSeqEmpty, SubSeqFull
    <3>4. Woken(d, 0) = readyQ /\ Remaining(d, 0) = procQ
      BY <3>2, <3>3, ConcatEmptySeq DEF Woken, Remaining
    <3>5. softBlockCount - 0 = softBlockCount
      BY <1>1 DEF TypeOK
    <3> QED
      BY <2>2, <3>1, <3>4, <3>5
  <2> QED
    BY <2>1, <2>2
<1> HIDE DEF n
<1>6. /\ procQ' \in [Sem -> Seq(Proc)]
      /\ readyQ' \in Seq(Proc) /\ currentProcess' \in Proc \cup {NULL}
      /\ cpu' \in Ctx /\ mode' \in Mode /\ pltPending' \in BOOLEAN
      /\ ModeOK' /\ OnePlace' /\ NoOrphan' /\ Ranked(Nat)'
  BY <1>1, <1>2, <1>4, <1>5, ExitStep
<1>7. dev' \in [DevSem -> DevStatus]
  BY <1>1, <1>5 DEF TypeOK, Acked, DevStatus
<1>8. TypeOK'
  <2>1. semaphore' \in [Sem -> Int] /\ softBlockCount' \in Int
    BY <1>1, <1>2, <1>4, <1>5 DEF TypeOK
  <2> QED
    BY <1>1, <1>2, <1>6, <1>7, <2>1 DEF TypeOK, treeVars, procVars
<1> QED
  BY <1>6, <1>8 DEF NucleusInv

(* Hardware changes nothing the nucleus keeps.                             *)
LEMMA InvHardware == NucleusInv /\ Hardware => NucleusInv'
<1> SUFFICES ASSUME NucleusInv, Hardware PROVE NucleusInv'
  OBVIOUS
<1>1. UNCHANGED hwFrame
  BY DEF Hardware, DeviceCompletes, IntervalExpires, QuantumExpires
<1>2. /\ dev' \in [DevSem -> DevStatus]
      /\ itPending' \in BOOLEAN /\ pltPending' \in BOOLEAN
  BY DEF Hardware, DeviceCompletes, IntervalExpires, QuantumExpires, DevStatus,
     NucleusInv, TypeOK, devVars
<1>3. TypeOK'
  <2>1. UNCHANGED <<pcbFree, procQ, p_prnt, p_child, p_semAdd, p_s, newAreas,
                    readyQ, processCount, softBlockCount, currentProcess,
                    semaphore, mode, killing, cpu>>
    BY <1>1 DEF hwFrame, treeVars, queueVars, countVars, procVars
  <2>2. TypeOK
    BY DEF NucleusInv
  <2> QED
    BY <1>2, <2>1, <2>2 DEF TypeOK
<1> QED
  BY <1>1, <1>3, QuietStep DEF hwFrame

-----------------------------------------------------------------------------
(* NucleusInv is inductive.                                                *)
LEMMA NextInv == NucleusInv /\ [Next]_vars => NucleusInv'
<1> SUFFICES ASSUME NucleusInv, [Next]_vars PROVE NucleusInv'
  OBVIOUS
<1>1. CASE Exception \/ Instruction
  BY <1>1, InvException, InvInstruction
<1>2. CASE Kill
  BY <1>2, InvKillChild, InvKillCurrent, InvKillReady, InvKillBlocked DEF Kill
<1>3. CASE SchedulerNull \/ SchedulerWait
  BY <1>3, InvIdle
<1>4. CASE Interrupt
  BY <1>4, InvPLT, InvIT, InvDevice DEF Interrupt
<1>5. CASE Hardware
  BY <1>5, InvHardware
<1>6. CASE UNCHANGED vars
  <2>1. TypeOK'
    BY <1>6 DEF NucleusInv, TypeOK, vars
  <2> QED
    BY <1>6, <2>1, QuietStep DEF vars, treeVars, queueVars
<1> QED
  BY <1>1, <1>2, <1>3, <1>4, <1>5, <1>6 DEF Next, Halted

(* Every reachable state satisfies the inductive invariant: types, modes,  *)
(* one place per pcb, a tree of the processes in use.                      *)
THEOREM Invariance == Spec => []NucleusInv
BY InitInv, NextInv, PTL DEF Spec

(* The variables always have their types, whatever the processes do.       *)
THEOREM TypeCorrect == Spec => []TypeOK
<1>1. NucleusInv => TypeOK
  BY DEF NucleusInv
<1> QED
  BY <1>1, Invariance, PTL

(* No process is lost by a handler or put on two queues, until a run gets  *)
(* into the state that MCKillReady shows.                                  *)
THEOREM EveryProcessInOnePlace == Spec => []OnePlace
<1>1. NucleusInv => OnePlace
  BY DEF NucleusInv
<1> QED
  BY <1>1, Invariance, PTL

(* SYS2 kills the whole subtree and leaves the tree of the others intact.  *)
THEOREM NoOrphanIsLeft == Spec => []NoOrphan
<1>1. NucleusInv => NoOrphan
  BY DEF NucleusInv
<1> QED
  BY <1>1, Invariance, PTL
=============================================================================
