----------------------------- MODULE ListLemmas ------------------------------
(***************************************************************************)
(* What the operations on the ASL and on the process tree do to the        *)
(* sequences they stand for, and what initPcbs and initASL set up.         *)
(***************************************************************************)
EXTENDS Phase1, RingLemmas

(* The ASL as a sequence asl and the free descriptors as a sequence fr.    *)
Shape(l, asl, fr) ==
    /\ l \in Heap
    /\ List(l.next, l.head, asl) /\ List(l.next, l.free, fr)
    /\ \A x : In(x, asl) => ~In(x, fr)
    /\ Len(asl) >= 2 /\ l.add[asl[1]] = 0 /\ l.add[asl[Len(asl)]] = NULL
    /\ \A i, j \in 1 .. Len(asl) : i < j => l.add[asl[i]] < l.add[asl[j]]
    /\ Len(asl) + Len(fr) = MAXPROC + 2

(* No descriptor on the ASL has an empty queue.                            *)
Waited(l, asl) == \A i \in 2 .. Len(asl) - 1 : l.q[asl[i]] # NULL

(* Where the search for address a stops.                                   *)
Stops(l, asl, a, n) ==
    /\ n \in 1 .. Len(asl) - 1
    /\ l.add[asl[n + 1]] >= a
    /\ \A m \in 1 .. n : l.add[asl[m]] < a

(* A function on 1 .. n is a sequence of length n.                         *)
LEMMA SeqFrom ==
    ASSUME NEW S, NEW n \in Nat, NEW s \in [1 .. n -> S]
    PROVE  s \in Seq(S) /\ Len(s) = n
<1>1. s \in Seq(S)
  BY SeqDef
<1>2. Len(s) \in Nat /\ DOMAIN s = 1 .. Len(s) /\ DOMAIN s = 1 .. n
  BY <1>1, LenProperties
<1> DEFINE k == Len(s)
<1>3. k \in Nat /\ 1 .. k = 1 .. n
  BY <1>2
<1> HIDE DEF k
<1>4. k = n
  <2>1. (k >= 1 => k \in 1 .. n) /\ (n >= 1 => n \in 1 .. k)
    BY <1>3
  <2> QED
    BY <1>3, <2>1
<1> QED
  BY <1>1, <1>4 DEF k

(* The table of descriptors, and addresses as numbers.                     *)
LEMMA Descriptors ==
    /\ MAXPROC \in Nat /\ IsFiniteSet(Semd) /\ NULL \notin Semd /\ NULL \in Nat
    /\ Addr \subseteq 1 .. NULL - 1
    /\ Addr \cup {0, NULL} \subseteq Nat
<1>1. MAXPROC \in Nat
  BY RingsAssumption, FS_CardinalityType DEF MAXPROC
<1>2. IsFiniteSet(Semd)
  BY <1>1, FS_Interval DEF Semd
<1>3. NULL \in Nat /\ 1 .. NULL - 1 \subseteq Nat
  BY RingsAssumption
<1>4. Addr \cup {0, NULL} \subseteq Nat
  BY <1>3, RingsAssumption
<1> QED
  BY <1>1, <1>2, <1>4, RingsAssumption DEF Semd

(* What the later proofs use of Shape.                                     *)
LEMMA ShapeParts ==
    ASSUME NEW l, NEW asl, NEW fr, Shape(l, asl, fr)
    PROVE  /\ l.next \in [Semd -> Semd \cup {NULL}]
           /\ l.add \in [Semd -> Addr \cup {0, NULL}]
           /\ \A s \in Semd : l.add[s] \in Nat
           /\ l.q \in [Semd -> Proc \cup {NULL}]
           /\ l.head \in Semd /\ l.free \in Semd \cup {NULL}
           /\ l = [next |-> l.next, add |-> l.add, q |-> l.q,
                   head |-> l.head, free |-> l.free]
           /\ Len(asl) \in Nat /\ Len(fr) \in Nat
           /\ asl \in Seq(Semd) /\ fr \in Seq(Semd)
           /\ \A i \in 1 .. Len(asl) : asl[i] \in Semd
           /\ \A i \in 1 .. Len(fr) : fr[i] \in Semd
           /\ \A i, j \in 1 .. Len(asl) : asl[i] = asl[j] => i = j
           /\ \A i, j \in 1 .. Len(fr) : fr[i] = fr[j] => i = j
           /\ \A i \in 1 .. Len(asl), j \in 1 .. Len(fr) : asl[i] # fr[j]
           /\ \A i \in 1 .. Len(asl) :
                 l.next[asl[i]] = IF i = Len(asl) THEN NULL ELSE asl[i + 1]
           /\ \A i \in 1 .. Len(fr) :
                 l.next[fr[i]] = IF i = Len(fr) THEN NULL ELSE fr[i + 1]
           /\ l.head = asl[1]
           /\ l.free = IF Len(fr) = 0 THEN NULL ELSE fr[1]
           /\ Len(asl) >= 2 /\ l.add[asl[1]] = 0 /\ l.add[asl[Len(asl)]] = NULL
           /\ Chain(l.next, l.head) = asl /\ Chain(l.next, l.free) = fr
<1>1. /\ l.next \in [Semd -> Semd \cup {NULL}]
      /\ l.add \in [Semd -> Addr \cup {0, NULL}]
      /\ l.q \in [Semd -> Proc \cup {NULL}]
      /\ l.head \in Semd /\ l.free \in Semd \cup {NULL}
      /\ l = [next |-> l.next, add |-> l.add, q |-> l.q,
              head |-> l.head, free |-> l.free]
  BY DEF Shape, Heap
<1>2. /\ List(l.next, l.head, asl) /\ List(l.next, l.free, fr)
      /\ Len(asl) >= 2 /\ l.add[asl[1]] = 0 /\ l.add[asl[Len(asl)]] = NULL
      /\ \A x : In(x, asl) => ~In(x, fr)
  BY DEF Shape
<1>3. asl \in Seq(Semd) /\ fr \in Seq(Semd)
  BY <1>1, <1>2 DEF List
<1>4. /\ Len(asl) \in Nat /\ Len(fr) \in Nat
      /\ asl = <<>> <=> Len(asl) = 0
      /\ fr = <<>> <=> Len(fr) = 0
      /\ \A i \in 1 .. Len(asl) : asl[i] \in Semd
      /\ \A i \in 1 .. Len(fr) : fr[i] \in Semd
  BY <1>3, SeqFacts
<1>5. /\ \A i, j \in 1 .. Len(asl) : asl[i] = asl[j] => i = j
      /\ \A i, j \in 1 .. Len(fr) : fr[i] = fr[j] => i = j
  BY <1>2 DEF List, Simple
<1>6. \A i \in 1 .. Len(asl), j \in 1 .. Len(fr) : asl[i] # fr[j]
  BY <1>2 DEF In
<1>7. Chain(l.next, l.head) = asl /\ Chain(l.next, l.free) = fr
  BY <1>1, <1>2, Descriptors, ListIsChain
<1>8. /\ \A i \in 1 .. Len(asl) :
            l.next[asl[i]] = IF i = Len(asl) THEN NULL ELSE asl[i + 1]
      /\ \A i \in 1 .. Len(fr) :
            l.next[fr[i]] = IF i = Len(fr) THEN NULL ELSE fr[i + 1]
      /\ l.head = IF asl = <<>> THEN NULL ELSE asl[1]
      /\ l.free = IF fr = <<>> THEN NULL ELSE fr[1]
  BY <1>2 DEF List
<1>9. l.head = asl[1] /\ l.free = IF Len(fr) = 0 THEN NULL ELSE fr[1]
  BY <1>2, <1>4, <1>8
<1>10. \A s \in Semd : l.add[s] \in Nat
  BY <1>1, Descriptors
<1> QED
  BY <1>1, <1>10, <1>2, <1>3, <1>4, <1>5, <1>6, <1>7, <1>8, <1>9

(* searchASL stops before the first address that is not below a.           *)
LEMMA Search ==
    ASSUME NEW l, NEW asl, NEW fr, Shape(l, asl, fr), NEW a \in Addr
    PROVE  \E n : /\ Stops(l, asl, a, n)
                  /\ searchASL(l, a) = asl[n]
                  /\ Found(l, a) = asl[n + 1]
<1> DEFINE T == {n \in 1 .. Len(asl) - 1 : l.add[asl[n + 1]] >= a}
           k == Len(asl)
<1>1. /\ \A s \in Semd : l.add[s] \in Nat
      /\ Len(asl) \in Nat
      /\ \A i \in 1 .. Len(asl) : asl[i] \in Semd
      /\ Len(asl) >= 2 /\ l.add[asl[1]] = 0 /\ l.add[asl[Len(asl)]] = NULL
      /\ Chain(l.next, l.head) = asl
      /\ \A i \in 1 .. Len(asl) :
            l.next[asl[i]] = IF i = Len(asl) THEN NULL ELSE asl[i + 1]
  BY ShapeParts
<1>2. a \in Nat /\ a > 0 /\ a < NULL /\ NULL \in Nat
  BY Descriptors
<1>3. PICK n \in T : \A m \in T : n <= m
  <2>1. k - 1 \in T
    <3>1. k - 1 \in 1 .. k - 1 /\ (k - 1) + 1 = k /\ l.add[asl[k]] >= a
      BY <1>1, <1>2
    <3> QED
      BY <3>1
  <2>2. T \in SUBSET Nat
    BY <1>1
  <2> QED
    BY <2>1, <2>2, Least
<1>4. Stops(l, asl, a, n)
  <2>1. n \in 1 .. Len(asl) - 1 /\ l.add[asl[n + 1]] >= a
    OBVIOUS
  <2>2. ASSUME NEW m \in 1 .. n
        PROVE  l.add[asl[m]] < a
    <3>1. CASE m = 1
      BY <1>1, <1>2, <3>1
    <3>2. CASE m # 1
      <4>1. /\ m - 1 \in 1 .. Len(asl) - 1 /\ m - 1 < n /\ (m - 1) + 1 = m
            /\ m \in 1 .. Len(asl)
        BY <1>1, <2>1, <3>2
      <4>2. ~(l.add[asl[m]] >= a)
        <5>1. m - 1 \notin T
          BY <1>3, <4>1
        <5> QED
          BY <4>1, <5>1
      <4>3. l.add[asl[m]] \in Nat
        BY <1>1, <4>1
      <4> QED
        BY <1>2, <4>2, <4>3
    <3> QED
      BY <3>1, <3>2
  <2> QED
    BY <2>1, <2>2 DEF Stops
<1>5. searchASL(l, a) = asl[n]
  <2> DEFINE P(i) == /\ i \in 1 .. Len(asl) - 1
                     /\ l.add[asl[i + 1]] >= a
                     /\ \A m \in 2 .. i : l.add[asl[m]] < a
             c == CHOOSE i \in 1 .. Len(asl) - 1 :
                      /\ l.add[asl[i + 1]] >= a
                      /\ \A m \in 2 .. i : l.add[asl[m]] < a
  <2>1. P(n)
    BY <1>4 DEF Stops
  <2>2. P(c)
    BY <2>1
  <2>3. searchASL(l, a) = asl[c]
    BY <1>1 DEF searchASL
  <2> HIDE DEF c
  <2>4. c = n
    <3>1. c \in T /\ n \in Nat /\ c \in Nat /\ n <= c
      <4>1. c \in T
        BY <2>2
      <4>2. n \in T /\ T \subseteq Nat
        BY <1>1
      <4> HIDE DEF T, P
      <4> QED
        BY <1>3, <4>1, <4>2
    <3>2. CASE n < c
      <4>1. n + 1 \in 2 .. c /\ n + 1 \in 1 .. Len(asl)
        BY <1>1, <2>1, <2>2, <3>1, <3>2
      <4>2. l.add[asl[n + 1]] < a /\ l.add[asl[n + 1]] >= a
        BY <2>1, <2>2, <4>1
      <4>3. l.add[asl[n + 1]] \in Nat
        BY <1>1, <4>1
      <4> QED
        BY <1>2, <4>2, <4>3
    <3> QED
      BY <3>1, <3>2
  <2> QED
    BY <2>3, <2>4
<1>6. Found(l, a) = asl[n + 1]
  <2>1. n \in 1 .. Len(asl) /\ n # Len(asl)
    BY <1>1
  <2> QED
    BY <1>1, <1>5, <2>1 DEF Found
<1> QED
  BY <1>4, <1>5, <1>6

(* The descriptor of an address on the ASL is what searchASL leads to.     *)
LEMMA FoundIs ==
    ASSUME NEW l, NEW asl, NEW fr, Shape(l, asl, fr), NEW a \in Addr,
           NEW i \in 2 .. Len(asl) - 1, l.add[asl[i]] = a
    PROVE  /\ Active(l, a) /\ Found(l, a) = asl[i]
           /\ searchASL(l, a) = asl[i - 1]
<1>1. /\ Len(asl) \in Nat /\ \A s \in Semd : l.add[s] \in Nat
      /\ \A j \in 1 .. Len(asl) : asl[j] \in Semd
  BY ShapeParts
<1>2. \A j, k \in 1 .. Len(asl) : j < k => l.add[asl[j]] < l.add[asl[k]]
  BY DEF Shape
<1>3. PICK n : /\ Stops(l, asl, a, n) /\ searchASL(l, a) = asl[n]
               /\ Found(l, a) = asl[n + 1]
  BY Search
<1>4. /\ n \in 1 .. Len(asl) - 1 /\ l.add[asl[n + 1]] >= a
      /\ \A m \in 1 .. n : l.add[asl[m]] < a
  BY <1>3 DEF Stops
<1>5. /\ i \in 1 .. Len(asl) /\ n + 1 \in 1 .. Len(asl)
      /\ l.add[asl[i]] \in Nat /\ l.add[asl[n + 1]] \in Nat
  BY <1>1, <1>4
<1>6. i = n + 1
  <2>1. ~(i <= n)
    <3>1. i \in 1 .. n => l.add[asl[i]] < a
      BY <1>4
    <3> QED
      BY <1>4, <1>5, <3>1
  <2>2. ~(n + 1 < i)
    <3>1. n + 1 < i => l.add[asl[n + 1]] < l.add[asl[i]]
      BY <1>2, <1>5
    <3> QED
      BY <1>4, <1>5, <3>1
  <2> QED
    BY <1>4, <2>1, <2>2
<1>7. n = i - 1
  BY <1>4, <1>6
<1> QED
  BY <1>3, <1>6, <1>7 DEF Active

(* An active address is on the ASL, between the dummies.                   *)
LEMMA ActiveIs ==
    ASSUME NEW l, NEW asl, NEW fr, Shape(l, asl, fr), NEW a \in Addr,
           Active(l, a)
    PROVE  \E i \in 2 .. Len(asl) - 1 :
               /\ l.add[asl[i]] = a
               /\ Found(l, a) = asl[i] /\ searchASL(l, a) = asl[i - 1]
<1>1. Len(asl) \in Nat /\ l.add[asl[Len(asl)]] = NULL
  BY ShapeParts
<1>2. PICK n : /\ Stops(l, asl, a, n) /\ searchASL(l, a) = asl[n]
               /\ Found(l, a) = asl[n + 1]
  BY Search
<1>3. n \in 1 .. Len(asl) - 1 /\ l.add[asl[n + 1]] = a
  BY <1>2 DEF Stops, Active
<1>4. a # NULL
  BY Descriptors
<1>5. n + 1 \in 2 .. Len(asl) - 1 /\ n = (n + 1) - 1
  BY <1>1, <1>3, <1>4
<1> QED
  BY <1>2, <1>3, <1>5

(* The tail pointer of the queue of each address.                          *)
TailOf(l) == [a \in Addr |-> IF Active(l, a) THEN Queue(l, a) ELSE NULL]

Entry(l, asl, a, tp) ==
    \E i \in 2 .. Len(asl) - 1 : l.add[asl[i]] = a /\ l.q[asl[i]] = tp

(* The tail pointer of an address is that of its entry, if it has one.     *)
LEMMA EntryIs ==
    ASSUME NEW l, NEW asl, NEW fr, Shape(l, asl, fr), NEW a \in Addr
    PROVE  /\ \A tp : Entry(l, asl, a, tp) =>
                  Active(l, a) /\ Queue(l, a) = tp /\ TailOf(l)[a] = tp
           /\ Active(l, a) => Entry(l, asl, a, Queue(l, a))
           /\ ~Active(l, a) => TailOf(l)[a] = NULL
           /\ TailOf(l)[a] \in Proc \cup {NULL}
<1>1. ASSUME NEW tp, Entry(l, asl, a, tp)
      PROVE  Active(l, a) /\ Queue(l, a) = tp /\ TailOf(l)[a] = tp
  <2>1. PICK i \in 2 .. Len(asl) - 1 : l.add[asl[i]] = a /\ l.q[asl[i]] = tp
    BY <1>1 DEF Entry
  <2>2. Active(l, a) /\ Found(l, a) = asl[i]
    BY <2>1, FoundIs
  <2> QED
    BY <2>1, <2>2 DEF Queue, TailOf
<1>2. ASSUME Active(l, a)
      PROVE  Entry(l, asl, a, Queue(l, a)) /\ Queue(l, a) \in Proc \cup {NULL}
  <2>1. PICK i \in 2 .. Len(asl) - 1 : l.add[asl[i]] = a /\ Found(l, a) = asl[i]
    BY <1>2, ActiveIs
  <2>2. /\ Len(asl) \in Nat /\ l.q \in [Semd -> Proc \cup {NULL}]
        /\ \A j \in 1 .. Len(asl) : asl[j] \in Semd
    BY ShapeParts
  <2>3. i \in 1 .. Len(asl)
    BY <2>2
  <2> QED
    BY <2>1, <2>2, <2>3 DEF Queue, Entry
<1>3. ~Active(l, a) => TailOf(l)[a] = NULL
  BY DEF TailOf
<1>4. Active(l, a) => TailOf(l)[a] = Queue(l, a)
  BY DEF TailOf
<1> QED
  BY <1>1, <1>2, <1>3, <1>4

(* The queue of one address changes.                                       *)
LEMMA TailChanges ==
    ASSUME NEW l, NEW asl, NEW fr, Shape(l, asl, fr),
           NEW m, NEW bsl, NEW gr, Shape(m, bsl, gr),
           NEW a \in Addr, NEW tp,
           \A b \in Addr \ {a} : \A v :
               Entry(l, asl, b, v) <=> Entry(m, bsl, b, v),
           TailOf(m)[a] = tp
    PROVE  TailOf(m) = [TailOf(l) EXCEPT ![a] = tp]
<1>2. ASSUME NEW b \in Addr \ {a}
      PROVE  TailOf(m)[b] = TailOf(l)[b]
  <2>1. CASE Active(l, b)
    <3>1. Entry(l, asl, b, Queue(l, b)) /\ Entry(m, bsl, b, Queue(l, b))
      BY <1>2, <2>1, EntryIs
    <3> QED
      BY <3>1, EntryIs
  <2>2. CASE ~Active(l, b)
    <3>1. ~Active(m, b)
      <4>1. Active(m, b) => Entry(m, bsl, b, Queue(m, b))
        BY EntryIs
      <4>2. Entry(m, bsl, b, Queue(m, b)) => Entry(l, asl, b, Queue(m, b))
        BY <1>2
      <4>3. ~Entry(l, asl, b, Queue(m, b))
        BY <2>2, EntryIs
      <4> QED
        BY <4>1, <4>2, <4>3
    <3> QED
      BY <2>2, <3>1, EntryIs
  <2> QED
    BY <2>1, <2>2
<1>3. /\ TailOf(m) = [b \in Addr |-> TailOf(m)[b]]
      /\ DOMAIN TailOf(l) = Addr
  BY DEF TailOf
<1> QED
  BY <1>2, <1>3

(* The descriptor of an address gets another queue.                        *)
LEMMA PutKept ==
    ASSUME NEW l, NEW asl, NEW fr, Shape(l, asl, fr), NEW a \in Addr,
           NEW i \in 2 .. Len(asl) - 1, l.add[asl[i]] = a,
           \A j \in 2 .. Len(asl) - 1 : j # i => l.q[asl[j]] # NULL,
           NEW tp \in Proc
    PROVE  LET m == PutQueue(l, a, tp)
           IN  /\ Shape(m, asl, fr) /\ Waited(m, asl)
               /\ TailOf(m) = [TailOf(l) EXCEPT ![a] = tp]
<1> DEFINE m == PutQueue(l, a, tp)
           q == [l.q EXCEPT ![asl[i]] = tp]
<1>1. /\ l.q \in [Semd -> Proc \cup {NULL}] /\ l.next \in [Semd -> Semd \cup {NULL}]
      /\ l.add \in [Semd -> Addr \cup {0, NULL}]
      /\ l.head \in Semd /\ l.free \in Semd \cup {NULL}
      /\ l = [next |-> l.next, add |-> l.add, q |-> l.q,
              head |-> l.head, free |-> l.free]
      /\ Len(asl) \in Nat
      /\ \A j \in 1 .. Len(asl) : asl[j] \in Semd
      /\ \A j, k \in 1 .. Len(asl) : asl[j] = asl[k] => j = k
  BY ShapeParts
<1>2. i \in 1 .. Len(asl) /\ asl[i] \in Semd /\ tp # NULL
      /\ \A j \in 2 .. Len(asl) - 1 : j \in 1 .. Len(asl)
  BY <1>1, RingsAssumption
<1>3. m = [next |-> l.next, add |-> l.add, q |-> q,
           head |-> l.head, free |-> l.free]
  <2>1. Found(l, a) = asl[i]
    BY FoundIs
  <2>2. m = [l EXCEPT !.q[asl[i]] = tp]
    BY <1>2, <2>1 DEF PutQueue, emptyProcQ
  <2> QED
    BY <1>1, <2>2
<1>4. /\ q \in [Semd -> Proc \cup {NULL}] /\ q[asl[i]] = tp
      /\ \A j \in 2 .. Len(asl) - 1 : j # i => q[asl[j]] = l.q[asl[j]]
  BY <1>1, <1>2
<1> HIDE DEF m, q
<1>5. m.next = l.next /\ m.add = l.add /\ m.q = q
      /\ m.head = l.head /\ m.free = l.free
  BY <1>3
<1>6. m \in Heap
  BY <1>1, <1>3, <1>4 DEF Heap
<1>7. Shape(m, asl, fr)
  BY <1>5, <1>6 DEF Shape
<1>8. Waited(m, asl)
  BY <1>2, <1>4, <1>5 DEF Waited
<1>9. Entry(m, asl, a, tp)
  BY <1>4, <1>5 DEF Entry
<1>10. \A b \in Addr \ {a} : \A v : Entry(l, asl, b, v) <=> Entry(m, asl, b, v)
  BY <1>4, <1>5 DEF Entry
<1>11. TailOf(m) = [TailOf(l) EXCEPT ![a] = tp]
  BY <1>7, <1>9, <1>10, EntryIs, TailChanges
<1> QED
  BY <1>7, <1>8, <1>11 DEF m

(* The descriptor of an empty queue leaves the ASL.                        *)
LEMMA PutFreed ==
    ASSUME NEW l, NEW asl, NEW fr, Shape(l, asl, fr), NEW a \in Addr,
           NEW i \in 2 .. Len(asl) - 1, l.add[asl[i]] = a,
           \A j \in 2 .. Len(asl) - 1 : j # i => l.q[asl[j]] # NULL
    PROVE  LET m == PutQueue(l, a, NULL)
           IN  /\ \E bsl, gr : Shape(m, bsl, gr) /\ Waited(m, bsl)
               /\ TailOf(m) = [TailOf(l) EXCEPT ![a] = NULL]
<1> DEFINE m == PutQueue(l, a, NULL)
           s == asl[i]
           p == asl[i - 1]
           k == Len(asl)
           h == Len(fr)
           next == [l.next EXCEPT ![p] = asl[i + 1], ![s] = l.free]
           q == [l.q EXCEPT ![s] = NULL]
           bsl == [j \in 1 .. k - 1 |-> IF j < i THEN asl[j] ELSE asl[j + 1]]
           gr == [j \in 1 .. h + 1 |-> IF j = 1 THEN s ELSE fr[j - 1]]
<1>1. /\ l.q \in [Semd -> Proc \cup {NULL}] /\ l.next \in [Semd -> Semd \cup {NULL}]
      /\ l.add \in [Semd -> Addr \cup {0, NULL}]
      /\ l.head \in Semd /\ l.free \in Semd \cup {NULL}
      /\ l = [next |-> l.next, add |-> l.add, q |-> l.q,
              head |-> l.head, free |-> l.free]
      /\ k \in Nat /\ h \in Nat /\ k >= 2
      /\ \A j \in 1 .. k : asl[j] \in Semd
      /\ \A j \in 1 .. h : fr[j] \in Semd
      /\ \A j, n \in 1 .. k : asl[j] = asl[n] => j = n
      /\ \A j, n \in 1 .. h : fr[j] = fr[n] => j = n
      /\ \A j \in 1 .. k, n \in 1 .. h : asl[j] # fr[n]
      /\ \A j \in 1 .. k : l.next[asl[j]] = IF j = k THEN NULL ELSE asl[j + 1]
      /\ \A j \in 1 .. h : l.next[fr[j]] = IF j = h THEN NULL ELSE fr[j + 1]
      /\ l.head = asl[1] /\ l.free = IF h = 0 THEN NULL ELSE fr[1]
      /\ l.add[asl[1]] = 0 /\ l.add[asl[k]] = NULL
  BY ShapeParts, SMTT(30)
<1>2. /\ \A j, n \in 1 .. k : j < n => l.add[asl[j]] < l.add[asl[n]]
      /\ k + h = MAXPROC + 2
  BY DEF Shape
<1>3. searchASL(l, a) = p /\ Found(l, a) = s
  BY FoundIs
<1> HIDE DEF k, h
<1>0. i \in 2 .. k - 1
  BY DEF k
<1>4. /\ i \in 1 .. k /\ i - 1 \in 1 .. k /\ i + 1 \in 1 .. k /\ i # k
      /\ s \in Semd /\ p \in Semd /\ asl[i + 1] \in Semd /\ p # s
      /\ l.next[s] = asl[i + 1]
  BY <1>0, <1>1
<1>5. m = [next |-> next, add |-> l.add, q |-> q, head |-> l.head, free |-> s]
  <2>1. [l EXCEPT !.q[s] = NULL] =
            [next |-> l.next, add |-> l.add, q |-> q, head |-> l.head,
             free |-> l.free]
    BY <1>1, <1>4
  <2> DEFINE b == [l EXCEPT !.q[s] = NULL]
  <2>2. b.next = l.next /\ b.free = l.free /\ b.add = l.add /\ b.q = q
        /\ b.head = l.head
    BY <2>1
  <2>6. b = [next |-> l.next, add |-> l.add, q |-> q, head |-> l.head,
             free |-> l.free]
    BY <2>1
  <2>3. m = freeSemd([b EXCEPT !.next[p] = b.next[s]], s)
    BY <1>3 DEF PutQueue, emptyProcQ
  <2>4. [b EXCEPT !.next[p] = b.next[s]] =
            [next |-> [l.next EXCEPT ![p] = asl[i + 1]], add |-> l.add, q |-> q,
             head |-> l.head, free |-> l.free]
    <3> HIDE DEF b, q
    <3> QED
      BY <1>1, <1>4, <2>2, <2>6
  <2> HIDE DEF b
  <2>5. m = [[next |-> [l.next EXCEPT ![p] = asl[i + 1]], add |-> l.add, q |-> q,
              head |-> l.head, free |-> l.free]
                 EXCEPT !.next[s] = l.free, !.free = s]
    BY <2>3, <2>4 DEF freeSemd
  <2> QED
    BY <1>1, <1>4, <2>5
<1>6. /\ next \in [Semd -> Semd \cup {NULL}] /\ q \in [Semd -> Proc \cup {NULL}]
      /\ next[p] = asl[i + 1] /\ next[s] = l.free
      /\ \A x \in Semd : x # p /\ x # s => next[x] = l.next[x]
      /\ \A x \in Semd : x # s => q[x] = l.q[x]
  BY <1>1, <1>4
<1> HIDE DEF m, q, next
<1>7. m.next = next /\ m.add = l.add /\ m.q = q /\ m.head = l.head /\ m.free = s
  BY <1>5
<1>8. /\ bsl \in Seq(Semd) /\ Len(bsl) = k - 1
      /\ gr \in Seq(Semd) /\ Len(gr) = h + 1
  <2>1. k - 1 \in Nat /\ h + 1 \in Nat
    BY <1>1
  <2>2. bsl \in [1 .. k - 1 -> Semd]
    <3>1. \A j \in 1 .. k - 1 : j \in 1 .. k /\ j + 1 \in 1 .. k
      BY <1>1
    <3> QED
      BY <1>1, <3>1
  <2>3. gr \in [1 .. h + 1 -> Semd]
    BY <1>1, <1>4
  <2> HIDE DEF bsl, gr
  <2> QED
    BY <2>1, <2>2, <2>3, SeqFrom
<1>9. /\ \A j \in 1 .. k - 1 : bsl[j] = IF j < i THEN asl[j] ELSE asl[j + 1]
      /\ gr[1] = s /\ \A j \in 2 .. h + 1 : gr[j] = fr[j - 1]
  BY <1>1
<1> HIDE DEF bsl, gr, s, p
(* Where the remaining ones were.                                          *)
<1> DEFINE old(j) == IF j < i THEN j ELSE j + 1
<1>10. \A j \in 1 .. k - 1 : /\ old(j) \in 1 .. k /\ old(j) # i
                             /\ bsl[j] = asl[old(j)] /\ bsl[j] # s
  BY <1>1, <1>0, <1>9, <1>4 DEF s
<1>11. \A j, n \in 1 .. k - 1 : (old(j) = old(n) => j = n) /\ (j < n => old(j) < old(n))
  BY <1>0, <1>1
<1>12. Simple(bsl) /\ \A x : In(x, bsl) => In(x, asl) /\ x # s
  <2>1. Simple(bsl)
    <3>1. ASSUME NEW j \in 1 .. k - 1, NEW n \in 1 .. k - 1, bsl[j] = bsl[n]
          PROVE  j = n
      <4>1. old(j) = old(n)
        <5> HIDE DEF old
        <5> QED
          BY <1>1, <1>10, <3>1
      <4> HIDE DEF old
      <4> QED
        BY <1>11, <4>1
    <3> QED
      BY <1>8, <3>1 DEF Simple
  <2>2. \A x : In(x, bsl) => In(x, asl) /\ x # s
    BY <1>1, <1>8, <1>10 DEF In, k
  <2> QED
    BY <2>1, <2>2
<1>13. List(m.next, m.head, bsl)
  <2>1. ASSUME NEW j \in 1 .. k - 1
        PROVE  next[bsl[j]] = IF j = k - 1 THEN NULL ELSE bsl[j + 1]
    <3>1. CASE j = i - 1
      <4>1. bsl[j] = p /\ j # k - 1 /\ bsl[j + 1] = asl[i + 1]
        <5>1. /\ j < i /\ j # k - 1 /\ j + 1 \in 1 .. k - 1 /\ ~(j + 1 < i)
              /\ (j + 1) + 1 = i + 1
          BY <1>0, <1>1, <3>1
        <5> QED
          BY <1>9, <3>1, <5>1 DEF p
      <4> QED
        BY <1>6, <4>1
    <3>2. CASE j < i - 1
      <4>1. /\ bsl[j] = asl[j] /\ j # k - 1 /\ bsl[j + 1] = asl[j + 1]
            /\ j \in 1 .. k /\ j # i /\ j # i - 1 /\ j # k
        <5>1. /\ j < i /\ j # k - 1 /\ j + 1 \in 1 .. k - 1 /\ j + 1 < i
              /\ j \in 1 .. k /\ j # i /\ j # i - 1 /\ j # k
          BY <1>0, <1>1, <3>2
        <5> QED
          BY <1>9, <5>1
      <4>2. asl[j] \in Semd /\ asl[j] # s /\ asl[j] # p /\ l.next[asl[j]] = asl[j + 1]
        BY <1>1, <1>4, <4>1 DEF s, p
      <4> QED
        BY <1>6, <4>1, <4>2
    <3>3. CASE j > i - 1
      <4>1. /\ bsl[j] = asl[j + 1] /\ j + 1 \in 1 .. k /\ j + 1 # i /\ j + 1 # i - 1
            /\ j # k - 1 => bsl[j + 1] = asl[(j + 1) + 1]
            /\ j = k - 1 <=> j + 1 = k
        BY <1>0, <1>1, <1>9, <3>3
      <4>2. /\ asl[j + 1] \in Semd /\ asl[j + 1] # s /\ asl[j + 1] # p
            /\ l.next[asl[j + 1]] = IF j + 1 = k THEN NULL ELSE asl[(j + 1) + 1]
        BY <1>1, <1>4, <4>1 DEF s, p
      <4> QED
        BY <1>6, <4>1, <4>2
    <3> QED
      BY <1>0, <1>1, <3>1, <3>2, <3>3
  <2>2. l.head = IF bsl = <<>> THEN NULL ELSE bsl[1]
    <3>1. bsl # <<>> /\ bsl[1] = asl[1]
      <4>1. Len(bsl) # 0 /\ 1 \in 1 .. k - 1 /\ 1 < i
        BY <1>0, <1>1, <1>8
      <4> QED
        BY <1>8, <1>9, <4>1, SeqFacts
    <3> QED
      BY <1>1, <3>1
  <2>3. DOMAIN next = Semd
    BY <1>6
  <2> QED
    BY <1>7, <1>8, <1>12, <2>1, <2>2, <2>3 DEF List
<1>14. List(m.next, m.free, gr)
  <2>1. Simple(gr)
    <3>1. ASSUME NEW j \in 1 .. h + 1, NEW n \in 1 .. h + 1, gr[j] = gr[n]
          PROVE  j = n
      <4>1. \A x \in 1 .. h + 1 : x # 1 => x \in 2 .. h + 1 /\ x - 1 \in 1 .. h
        BY <1>1
      <4>2. \A x \in 1 .. h + 1 : x # 1 => gr[x] = fr[x - 1] /\ gr[x] # s
        BY <1>1, <1>4, <1>9, <4>1 DEF s
      <4>3. CASE j = 1 \/ n = 1
        BY <1>9, <3>1, <4>2, <4>3
      <4>4. CASE j # 1 /\ n # 1
        <5>1. fr[j - 1] = fr[n - 1] /\ j - 1 \in 1 .. h /\ n - 1 \in 1 .. h
          BY <3>1, <4>1, <4>2, <4>4
        <5>2. j - 1 = n - 1
          BY <1>1, <5>1
        <5> QED
          BY <1>1, <5>2
      <4> QED
        BY <4>3, <4>4
    <3> QED
      BY <1>8, <3>1 DEF Simple
  <2>2. ASSUME NEW j \in 1 .. h + 1
        PROVE  next[gr[j]] = IF j = h + 1 THEN NULL ELSE gr[j + 1]
    <3>1. CASE j = 1
      <4>1. h # 0 => 2 \in 2 .. h + 1 /\ gr[2] = fr[2 - 1]
        <5>1. h # 0 => 2 \in 2 .. h + 1
          BY <1>1
        <5> QED
          BY <1>9, <5>1
      <4>2. h # 0 <=> j # h + 1
        BY <1>1, <3>1
      <4> QED
        BY <1>1, <1>6, <1>9, <3>1, <4>1, <4>2
    <3>2. CASE j # 1
      <4>1. /\ j \in 2 .. h + 1 /\ j - 1 \in 1 .. h
            /\ j # h + 1 => j + 1 \in 2 .. h + 1 /\ (j + 1) - 1 = (j - 1) + 1
            /\ j = h + 1 <=> j - 1 = h
        BY <1>1, <3>2
      <4>2. gr[j] = fr[j - 1] /\ fr[j - 1] \in Semd /\ fr[j - 1] # s /\ fr[j - 1] # p
        BY <1>1, <1>4, <1>9, <4>1 DEF s, p
      <4>3. j # h + 1 => gr[j + 1] = fr[(j - 1) + 1]
        BY <1>9, <4>1
      <4> QED
        BY <1>1, <1>6, <4>1, <4>2, <4>3
    <3> QED
      BY <3>1, <3>2
  <2>3. s = IF gr = <<>> THEN NULL ELSE gr[1]
    <3>1. Len(gr) # 0
      BY <1>1, <1>8
    <3> QED
      BY <1>8, <1>9, <3>1, SeqFacts
  <2>4. DOMAIN next = Semd
    BY <1>6
  <2> QED
    BY <1>7, <1>8, <2>1, <2>2, <2>3, <2>4 DEF List
<1>15. \A x : In(x, bsl) => ~In(x, gr)
  <2>1. \A x : In(x, gr) => x = s \/ In(x, fr)
    <3>1. \A j \in 1 .. h + 1 : j = 1 \/ (j \in 2 .. h + 1 /\ j - 1 \in 1 .. h)
      BY <1>1
    <3>2. \A j \in 1 .. h + 1 : gr[j] = s \/ gr[j] = fr[j - 1]
      BY <1>9, <3>1
    <3>3. ASSUME NEW x, NEW j \in 1 .. h + 1, gr[j] = x, x # s
          PROVE  In(x, fr)
      <4>1. j - 1 \in 1 .. h /\ fr[j - 1] = x
        BY <1>9, <3>1, <3>3
      <4> QED
        BY <4>1 DEF In, h
    <3> QED
      BY <1>8, <3>3 DEF In
  <2>2. \A x : In(x, asl) => ~In(x, fr)
    BY DEF Shape
  <2> QED
    BY <1>12, <2>1, <2>2
<1>16. Shape(m, bsl, gr)
  <2>1. Len(bsl) >= 2 /\ Len(bsl) + Len(gr) = MAXPROC + 2
    <3>1. k >= 3 /\ MAXPROC \in Nat
      BY <1>0, <1>1, Descriptors
    <3>2. k \in Nat /\ h \in Nat
      BY <1>1
    <3>3. k + h = MAXPROC + 2
      BY <1>2
    <3>4. Len(bsl) = k - 1 /\ Len(gr) = h + 1
      BY <1>8
    <3>5. Len(bsl) >= 2
      BY <3>1, <3>2, <3>4
    <3>6. Len(bsl) + Len(gr) = MAXPROC + 2
      BY <3>1, <3>2, <3>3, <3>4
    <3> QED
      BY <3>5, <3>6
  <2>2. m.add[bsl[1]] = 0 /\ m.add[bsl[Len(bsl)]] = NULL
    <3>1. /\ 1 \in 1 .. k - 1 /\ k - 1 \in 1 .. k - 1 /\ 1 < i /\ ~(k - 1 < i)
          /\ (k - 1) + 1 = k
      BY <1>0, <1>1
    <3>2. bsl[1] = asl[1] /\ bsl[k - 1] = asl[k]
      BY <1>9, <3>1
    <3> QED
      BY <1>1, <1>7, <1>8, <3>2
  <2>3. \A j, n \in 1 .. Len(bsl) : j < n => m.add[bsl[j]] < m.add[bsl[n]]
    <3>1. ASSUME NEW j \in 1 .. k - 1, NEW n \in 1 .. k - 1, j < n
          PROVE  m.add[bsl[j]] < m.add[bsl[n]]
      <4> HIDE DEF old
      <4>1. /\ old(j) \in 1 .. k /\ old(n) \in 1 .. k /\ old(j) < old(n)
            /\ bsl[j] = asl[old(j)] /\ bsl[n] = asl[old(n)]
        BY <1>10, <1>11, <3>1
      <4> QED
        BY <1>2, <1>7, <4>1
    <3> QED
      BY <1>8, <3>1
  <2>4. m \in Heap
    BY <1>1, <1>4, <1>5, <1>6 DEF Heap
  <2> QED
    BY <1>13, <1>14, <1>15, <2>1, <2>2, <2>3, <2>4 DEF Shape
(* Which inner ones are left.                                              *)
<1>17. /\ \A j \in 2 .. k - 2 : old(j) \in 2 .. k - 1 /\ j \in 1 .. k - 1
       /\ \A n \in 2 .. k - 1 : n # i => \E j \in 2 .. k - 2 : old(j) = n
  <2>1. \A j \in 2 .. k - 2 : old(j) \in 2 .. k - 1 /\ j \in 1 .. k - 1
    BY <1>0, <1>1
  <2>2. ASSUME NEW n \in 2 .. k - 1, n # i
        PROVE  \E j \in 2 .. k - 2 : old(j) = n
    <3>1. CASE n < i
      <4>1. n \in 2 .. k - 2 /\ old(n) = n
        BY <1>0, <1>1, <3>1
      <4> QED
        BY <4>1
    <3>2. CASE n > i
      <4>1. n - 1 \in 2 .. k - 2 /\ old(n - 1) = n
        BY <1>0, <1>1, <3>2
      <4> QED
        BY <4>1
    <3> QED
      BY <1>0, <1>1, <2>2, <3>1, <3>2
  <2> QED
    BY <2>1, <2>2
<1>18. /\ \A n \in 2 .. k - 1 : n # i => l.q[asl[n]] # NULL
       /\ 2 .. Len(asl) - 1 = 2 .. k - 1
  BY DEF k
<1>19. Len(bsl) - 1 = k - 2
  BY <1>1, <1>8
<1>20. 2 .. Len(bsl) - 1 = 2 .. k - 2
  BY <1>19
<1> HIDE DEF old
<1>21. \A j \in 2 .. k - 2 : m.q[bsl[j]] = l.q[asl[old(j)]] /\ old(j) # i
                             /\ m.add[bsl[j]] = l.add[asl[old(j)]]
  BY <1>1, <1>6, <1>7, <1>10, <1>17
<1>22. Waited(m, bsl)
  <2>1. \A j \in 2 .. k - 2 : m.q[bsl[j]] # NULL
    BY <1>17, <1>18, <1>21
  <2> QED
    BY <1>20, <2>1, Zenon DEF Waited
<1>23. \A b, v : /\ Entry(l, asl, b, v) <=>
                       \E n \in 2 .. k - 1 : l.add[asl[n]] = b /\ l.q[asl[n]] = v
                 /\ Entry(m, bsl, b, v) <=>
                       \E j \in 2 .. k - 2 : m.add[bsl[j]] = b /\ m.q[bsl[j]] = v
  <2> DEFINE I == 2 .. Len(asl) - 1
             J == 2 .. Len(bsl) - 1
  <2>1. \A b, v : /\ Entry(l, asl, b, v) <=>
                        \E n \in I : l.add[asl[n]] = b /\ l.q[asl[n]] = v
                  /\ Entry(m, bsl, b, v) <=>
                        \E j \in J : m.add[bsl[j]] = b /\ m.q[bsl[j]] = v
    BY DEF Entry
  <2>2. I = 2 .. k - 1 /\ J = 2 .. k - 2
    BY <1>18, <1>20
  <2> DEFINE K == 2 .. k - 1
             L == 2 .. k - 2
  <2>3. I = K /\ J = L
    BY <2>2
  <2> HIDE DEF I, J, K, L
  <2>4. \A b, v : /\ Entry(l, asl, b, v) <=>
                        \E n \in K : l.add[asl[n]] = b /\ l.q[asl[n]] = v
                  /\ Entry(m, bsl, b, v) <=>
                        \E j \in L : m.add[bsl[j]] = b /\ m.q[bsl[j]] = v
    BY <2>1, <2>3
  <2> QED
    BY <2>4 DEF K, L
<1>24. \A b \in Addr \ {a} : \A v : Entry(l, asl, b, v) <=> Entry(m, bsl, b, v)
  <2>1. ASSUME NEW b \in Addr \ {a}, NEW v
        PROVE  Entry(l, asl, b, v) <=> Entry(m, bsl, b, v)
    <3>1. ASSUME NEW n \in 2 .. k - 1, l.add[asl[n]] = b, l.q[asl[n]] = v
          PROVE  \E j \in 2 .. k - 2 : m.add[bsl[j]] = b /\ m.q[bsl[j]] = v
      <4>1. n # i
        BY <2>1, <3>1 DEF s
      <4> QED
        BY <1>17, <1>21, <3>1, <4>1
    <3>2. ASSUME NEW j \in 2 .. k - 2, m.add[bsl[j]] = b, m.q[bsl[j]] = v
          PROVE  \E n \in 2 .. k - 1 : l.add[asl[n]] = b /\ l.q[asl[n]] = v
      BY <1>17, <1>21, <3>2
    <3> QED
      BY <1>23, <3>1, <3>2
  <2> QED
    BY <2>1
<1>25. \A v : ~Entry(m, bsl, a, v)
  <2>1. ASSUME NEW n \in 2 .. k - 1, n # i
        PROVE  l.add[asl[n]] # a
    <3>1. n \in 1 .. k /\ i \in 1 .. k /\ (n < i \/ i < n)
      BY <1>0, <1>1, <2>1
    <3>2. l.add[asl[n]] < l.add[asl[i]] \/ l.add[asl[i]] < l.add[asl[n]]
      BY <1>2, <3>1
    <3>3. a \in Nat
      BY Descriptors
    <3> QED
      BY <3>2, <3>3
  <2>2. ASSUME NEW j \in 2 .. k - 2
        PROVE  m.add[bsl[j]] # a
    BY <1>17, <1>21, <2>1
  <2> QED
    BY <1>23, <2>2
<1>26. TailOf(m) = [TailOf(l) EXCEPT ![a] = NULL]
  <2>1. TailOf(m)[a] = NULL
    BY <1>16, <1>25, EntryIs
  <2> QED
    BY <1>16, <1>24, <2>1, TailChanges
<1> QED
  BY <1>16, <1>22, <1>26 DEF m

(* allocSemd, field by field.                                              *)
LEMMA AllocIs ==
    ASSUME NEW next, NEW add, NEW q, NEW head, NEW free
    PROVE  allocSemd([next |-> next, add |-> add, q |-> q,
                      head |-> head, free |-> free]) =
               [next |-> [next EXCEPT ![free] = NULL],
                add |-> [add EXCEPT ![free] = 0], q |-> [q EXCEPT ![free] = NULL],
                head |-> head, free |-> next[free]]
<1> DEFINE l == [next |-> next, add |-> add, q |-> q, head |-> head, free |-> free]
           n == [next EXCEPT ![free] = NULL]
           d == [add EXCEPT ![free] = 0]
           e == [q EXCEPT ![free] = NULL]
<1>1. l.next = next /\ l.add = add /\ l.q = q /\ l.head = head /\ l.free = free
  OBVIOUS
<1>2. allocSemd(l) = [l EXCEPT !.free = next[free], !.next[free] = NULL,
              !.add[free] = 0, !.q[free] = NULL]
  BY <1>1 DEF allocSemd
<1>3. allocSemd(l) = [l EXCEPT !.free = next[free], !.next = n,
              !.add = d, !.q = e]
  BY <1>2, <1>1
<1> HIDE DEF n, d, e
<1>4. allocSemd(l) = [next |-> n, add |-> d, q |-> e, head |-> head, free |-> next[free]]
  BY <1>3
<1> QED
  BY <1>4 DEF n, d, e

(* A free descriptor takes its place in the ASL, with an empty queue.      *)
LEMMA Added ==
    ASSUME NEW l, NEW asl, NEW fr, Shape(l, asl, fr), Waited(l, asl),
           NEW a \in Addr, ~Active(l, a), l.free # NULL
    PROVE  LET m == AddSemd(l, a)
           IN  /\ \E bsl, gr : \E i \in 2 .. Len(bsl) - 1 :
                      /\ Shape(m, bsl, gr) /\ m.add[bsl[i]] = a
                      /\ \A j \in 2 .. Len(bsl) - 1 :
                             j # i => m.q[bsl[j]] # NULL
               /\ Active(m, a) /\ Queue(m, a) = NULL
               /\ TailOf(m) = [TailOf(l) EXCEPT ![a] = NULL]
<1> DEFINE m == AddSemd(l, a)
           s == l.free
           k == Len(asl)
           h == Len(fr)
<1>1. /\ l.q \in [Semd -> Proc \cup {NULL}] /\ l.next \in [Semd -> Semd \cup {NULL}]
      /\ l.add \in [Semd -> Addr \cup {0, NULL}]
      /\ \A x \in Semd : l.add[x] \in Nat
      /\ l.head \in Semd /\ l.free \in Semd \cup {NULL}
      /\ l = [next |-> l.next, add |-> l.add, q |-> l.q,
              head |-> l.head, free |-> l.free]
      /\ k \in Nat /\ h \in Nat /\ k >= 2
      /\ \A j \in 1 .. k : asl[j] \in Semd
      /\ \A j \in 1 .. h : fr[j] \in Semd
      /\ \A j, n \in 1 .. k : asl[j] = asl[n] => j = n
      /\ \A j, n \in 1 .. h : fr[j] = fr[n] => j = n
      /\ \A j \in 1 .. k, n \in 1 .. h : asl[j] # fr[n]
      /\ \A j \in 1 .. k : l.next[asl[j]] = IF j = k THEN NULL ELSE asl[j + 1]
      /\ \A j \in 1 .. h : l.next[fr[j]] = IF j = h THEN NULL ELSE fr[j + 1]
      /\ l.head = asl[1] /\ l.free = IF h = 0 THEN NULL ELSE fr[1]
      /\ l.add[asl[1]] = 0 /\ l.add[asl[k]] = NULL
  BY ShapeParts
<1>2. /\ \A j, n \in 1 .. k : j < n => l.add[asl[j]] < l.add[asl[n]]
      /\ k + h = MAXPROC + 2
  BY DEF Shape
<1>3. PICK n : /\ Stops(l, asl, a, n) /\ searchASL(l, a) = asl[n]
               /\ Found(l, a) = asl[n + 1]
  BY Search
<1>4. a \in Nat /\ a > 0 /\ a < NULL
  BY Descriptors
<1> HIDE DEF k, h
<1>5. /\ n \in 1 .. k - 1 /\ n \in 1 .. k /\ n + 1 \in 1 .. k /\ n # k
      /\ l.add[asl[n + 1]] > a
      /\ \A j \in 1 .. n : l.add[asl[j]] < a
  <2>1. /\ n \in 1 .. k - 1 /\ l.add[asl[n + 1]] >= a
        /\ \A j \in 1 .. n : l.add[asl[j]] < a
    BY <1>3 DEF Stops, k
  <2>2. n \in 1 .. k /\ n + 1 \in 1 .. k /\ n # k
    BY <1>1, <2>1
  <2>3. l.add[asl[n + 1]] # a /\ l.add[asl[n + 1]] \in Nat
    BY <1>1, <1>3, <2>2 DEF Active
  <2> QED
    BY <1>4, <2>1, <2>2, <2>3
<1>6. h >= 1 /\ 1 \in 1 .. h /\ s = fr[1] /\ s \in Semd
      /\ \A j \in 1 .. k : asl[j] # s
  BY <1>1
<1> DEFINE next == [l.next EXCEPT ![s] = asl[n + 1], ![asl[n]] = s]
           add  == [l.add EXCEPT ![s] = a]
           q    == [l.q EXCEPT ![s] = NULL]
           free == l.next[s]
           bsl == [j \in 1 .. k + 1 |-> IF j <= n THEN asl[j]
                                        ELSE IF j = n + 1 THEN s ELSE asl[j - 1]]
           gr == [j \in 1 .. h - 1 |-> fr[j + 1]]
<1>7. m = [next |-> next, add |-> add, q |-> q, head |-> l.head, free |-> free]
  <2> DEFINE b == allocSemd(l)
  <2>1. b = [next |-> [l.next EXCEPT ![s] = NULL], add |-> [l.add EXCEPT ![s] = 0],
             q |-> q, head |-> l.head, free |-> free]
    <3>1. l = [next |-> l.next, add |-> l.add, q |-> l.q,
               head |-> l.head, free |-> l.free]
      BY <1>1
    <3>2. b = [next |-> [l.next EXCEPT ![l.free] = NULL],
               add |-> [l.add EXCEPT ![l.free] = 0],
               q |-> [l.q EXCEPT ![l.free] = NULL],
               head |-> l.head, free |-> l.next[l.free]]
      <4> DEFINE w == [next |-> l.next, add |-> l.add, q |-> l.q,
                       head |-> l.head, free |-> l.free]
      <4>1. allocSemd(w) = [next |-> [l.next EXCEPT ![l.free] = NULL],
               add |-> [l.add EXCEPT ![l.free] = 0],
               q |-> [l.q EXCEPT ![l.free] = NULL],
               head |-> l.head, free |-> l.next[l.free]]
        BY AllocIs
      <4>2. l = w
        BY <3>1
      <4> HIDE DEF w
      <4> QED
        BY <4>1, <4>2
    <3> QED
      BY <3>2
  <2> HIDE DEF b
  <2>2. /\ b.next = [l.next EXCEPT ![s] = NULL]
        /\ b.add = [l.add EXCEPT ![s] = 0] /\ b.q = q /\ b.head = l.head
        /\ b.free = free
    BY <2>1
  <2>3. b.next[asl[n]] = asl[n + 1]
    BY <1>1, <1>5, <1>6, <2>2
  <2>4. m = [b EXCEPT !.add[s] = a, !.q[s] = NULL,
                      !.next[s] = asl[n + 1], !.next[asl[n]] = s]
    BY <1>3, <2>3 DEF AddSemd, mkEmptyProcQ, b
  <2>5. /\ [b.add EXCEPT ![s] = a] = add /\ [b.q EXCEPT ![s] = NULL] = q
        /\ [b.next EXCEPT ![s] = asl[n + 1], ![asl[n]] = s] = next
    BY <1>1, <1>5, <1>6, <2>2
  <2>6. b = [next |-> b.next, add |-> b.add, q |-> b.q, head |-> b.head,
             free |-> b.free]
    BY <2>1, <2>2
  <2>7. m = [next |-> [b.next EXCEPT ![s] = asl[n + 1], ![asl[n]] = s],
             add |-> [b.add EXCEPT ![s] = a], q |-> [b.q EXCEPT ![s] = NULL],
             head |-> b.head, free |-> b.free]
    BY <2>4, <2>6
  <2> QED
    BY <2>2, <2>5, <2>7
<1>8. /\ next \in [Semd -> Semd \cup {NULL}] /\ q \in [Semd -> Proc \cup {NULL}]
      /\ add \in [Semd -> Addr \cup {0, NULL}] /\ free \in Semd \cup {NULL}
      /\ next[asl[n]] = s /\ next[s] = asl[n + 1] /\ add[s] = a /\ q[s] = NULL
      /\ \A x \in Semd : x # asl[n] /\ x # s => next[x] = l.next[x]
      /\ \A x \in Semd : x # s => q[x] = l.q[x] /\ add[x] = l.add[x]
  BY <1>1, <1>5, <1>6
<1>9. free = IF h = 1 THEN NULL ELSE fr[2]
  BY <1>1, <1>6
<1> HIDE DEF m, q, next, add, free
<1>10. m.next = next /\ m.add = add /\ m.q = q /\ m.head = l.head /\ m.free = free
  BY <1>7
<1>11. \A j \in 1 .. k + 1 : \/ j <= n /\ j \in 1 .. k
                             \/ j = n + 1
                             \/ j > n + 1 /\ j - 1 \in 1 .. k
  <2>1. k \in Nat /\ n \in 1 .. k
    BY <1>1, <1>5
  <2> QED
    BY <2>1
<1>12. \A j \in 1 .. h - 1 : j + 1 \in 1 .. h
  BY <1>1
<1>13. /\ bsl \in Seq(Semd) /\ Len(bsl) = k + 1
       /\ gr \in Seq(Semd) /\ Len(gr) = h - 1
  <2>1. k + 1 \in Nat /\ h - 1 \in Nat
    BY <1>1, <1>6
  <2>2. bsl \in [1 .. k + 1 -> Semd]
    <3>1. \A j \in 1 .. k + 1 : (IF j <= n THEN asl[j]
                   ELSE IF j = n + 1 THEN s ELSE asl[j - 1]) \in Semd
      BY <1>1, <1>5, <1>6, <1>11
    <3> QED
      BY <3>1
  <2>3. gr \in [1 .. h - 1 -> Semd]
    BY <1>1, <1>12
  <2> HIDE DEF bsl, gr
  <2> QED
    BY <2>1, <2>2, <2>3, SeqFrom
<1>14. /\ \A j \in 1 .. k + 1 : bsl[j] = IF j <= n THEN asl[j]
                                   ELSE IF j = n + 1 THEN s ELSE asl[j - 1]
       /\ \A j \in 1 .. h - 1 : gr[j] = fr[j + 1]
  OBVIOUS
<1> HIDE DEF bsl, gr, s
(* Where the old ones are now.                                             *)
<1> DEFINE at(j) == IF j <= n THEN j ELSE j + 1
<1>15. /\ \A j \in 1 .. k : /\ at(j) \in 1 .. k + 1 /\ at(j) # n + 1
                            /\ bsl[at(j)] = asl[j]
       /\ bsl[n + 1] = s /\ n + 1 \in 1 .. k + 1
       /\ \A j \in 1 .. k + 1 : j = n + 1 \/ \E i \in 1 .. k : j = at(i)
  <2>1. ASSUME NEW j \in 1 .. k
        PROVE  at(j) \in 1 .. k + 1 /\ at(j) # n + 1 /\ bsl[at(j)] = asl[j]
    <3>1. CASE j <= n
      <4>1. at(j) = j /\ j \in 1 .. k + 1 /\ j # n + 1
        BY <1>1, <1>5, <3>1
      <4> QED
        BY <1>14, <3>1, <4>1
    <3>2. CASE ~(j <= n)
      <4>1. /\ at(j) = j + 1 /\ j + 1 \in 1 .. k + 1 /\ j + 1 # n + 1
            /\ ~(j + 1 <= n) /\ (j + 1) - 1 = j
        BY <1>1, <1>5, <3>2
      <4> QED
        BY <1>14, <4>1
    <3> QED
      BY <3>1, <3>2
  <2>2. bsl[n + 1] = s /\ n + 1 \in 1 .. k + 1
    <3>1. n + 1 \in 1 .. k + 1 /\ ~(n + 1 <= n)
      BY <1>1, <1>5
    <3> QED
      BY <1>14, <3>1
  <2>3. ASSUME NEW j \in 1 .. k + 1, j # n + 1
        PROVE  \E i \in 1 .. k : j = at(i)
    <3>1. CASE j <= n
      <4>1. j \in 1 .. k /\ j = at(j)
        BY <1>1, <1>5, <3>1
      <4> QED
        BY <4>1
    <3>2. CASE j > n + 1
      <4>1. j - 1 \in 1 .. k /\ j = (j - 1) + 1 /\ ~(j - 1 <= n)
        BY <1>1, <1>5, <1>11, <3>2
      <4> QED
        BY <4>1
    <3> QED
      BY <1>1, <1>5, <2>3, <3>1, <3>2
  <2> QED
    BY <2>1, <2>2, <2>3
<1>16. \A i, j \in 1 .. k : i < j <=> at(i) < at(j)
  BY <1>1, <1>5
<1>17. /\ \A j \in 2 .. k - 1 : at(j) \in 2 .. k
       /\ n + 1 \in 2 .. k
       /\ \A j \in 2 .. k : j = n + 1 \/ \E i \in 2 .. k - 1 : j = at(i)
  <2>1. \A j \in 2 .. k - 1 : at(j) \in 2 .. k
    BY <1>1, <1>5
  <2>2. n + 1 \in 2 .. k
    BY <1>1, <1>5
  <2>3. ASSUME NEW j \in 2 .. k, j # n + 1
        PROVE  \E i \in 2 .. k - 1 : j = at(i)
    <3>1. CASE j <= n
      <4>1. j \in 2 .. k - 1 /\ at(j) = j
        BY <1>1, <1>5, <3>1
      <4> QED
        BY <4>1
    <3>2. CASE j > n + 1
      <4>1. j - 1 \in 2 .. k - 1 /\ at(j - 1) = j
        BY <1>1, <1>5, <3>2
      <4> QED
        BY <4>1
    <3> QED
      BY <1>1, <1>5, <2>3, <3>1, <3>2
  <2> QED
    BY <2>1, <2>2, <2>3
<1>18. \A i \in 1 .. k : i # k => /\ i + 1 \in 1 .. k
                                  /\ i # n => at(i + 1) = at(i) + 1
  <2>1. k \in Nat /\ n \in 1 .. k
    BY <1>1, <1>5
  <2> QED
    BY <2>1
<1>19. at(k) = k + 1 /\ at(1) = 1 /\ at(n) = n /\ at(n + 1) = (n + 1) + 1
       /\ k \in 1 .. k /\ 1 \in 1 .. k
  BY <1>1, <1>5
<1> HIDE DEF at
<1>20. \A j \in 2 .. k - 1 : j \in 1 .. k
  BY <1>1
<1>21. /\ \A j \in 1 .. k : add[bsl[at(j)]] = l.add[asl[j]]
                         /\ q[bsl[at(j)]] = l.q[asl[j]]
       /\ add[bsl[n + 1]] = a /\ q[bsl[n + 1]] = NULL
  BY <1>1, <1>6, <1>8, <1>15
<1>22. Simple(bsl)
  <2>1. ASSUME NEW i \in 1 .. k + 1, NEW j \in 1 .. k + 1, bsl[i] = bsl[j]
        PROVE  i = j
    <3>1. CASE i = n + 1 \/ j = n + 1
      BY <1>6, <1>15, <2>1, <3>1
    <3>2. CASE i # n + 1 /\ j # n + 1
      BY <1>1, <1>15, <2>1, <3>2
    <3> QED
      BY <3>1, <3>2
  <2> QED
    BY <1>13, <2>1 DEF Simple
<1>23. List(m.next, m.head, bsl)
  <2>1. ASSUME NEW j \in 1 .. k + 1
        PROVE  next[bsl[j]] = IF j = k + 1 THEN NULL ELSE bsl[j + 1]
    <3>1. CASE j = n + 1
      <4>1. j # k + 1 /\ bsl[j + 1] = asl[n + 1]
        BY <1>1, <1>5, <1>15, <1>19, <3>1
      <4> QED
        BY <1>8, <1>15, <3>1, <4>1
    <3>2. CASE j # n + 1
      <4>1. PICK i \in 1 .. k : j = at(i)
        BY <1>15, <3>2
      <4>2. bsl[j] = asl[i] /\ asl[i] \in Semd /\ asl[i] # s
        BY <1>1, <1>6, <1>15, <4>1
      <4>3. CASE i = n
        <5>1. j = n /\ j # k + 1
          BY <1>1, <1>5, <1>19, <4>1, <4>3
        <5> QED
          BY <1>8, <1>15, <4>2, <4>3, <5>1
      <4>4. CASE i # n
        <5>1. next[asl[i]] = IF i = k THEN NULL ELSE asl[i + 1]
          BY <1>1, <1>5, <1>8, <4>2, <4>4
        <5>2. i = k <=> j = k + 1
          BY <1>1, <1>16, <1>19, <4>1
        <5>3. i # k => bsl[j + 1] = asl[i + 1]
          BY <1>15, <1>18, <4>1, <4>4
        <5> QED
          BY <4>2, <5>1, <5>2, <5>3
      <4> QED
        BY <4>3, <4>4
    <3> QED
      BY <3>1, <3>2
  <2>2. l.head = IF bsl = <<>> THEN NULL ELSE bsl[1]
    <3>1. Len(bsl) # 0 /\ bsl[1] = asl[1]
      <4>1. Len(bsl) # 0
        BY <1>1, <1>13
      <4>2. bsl[at(1)] = asl[1]
        BY <1>15, <1>19
      <4> QED
        BY <1>19, <4>1, <4>2
    <3> QED
      BY <1>1, <1>13, <3>1, SeqFacts
  <2>3. DOMAIN next = Semd
    BY <1>8
  <2> QED
    BY <1>10, <1>13, <1>22, <2>1, <2>2, <2>3 DEF List
<1>24. List(m.next, m.free, gr)
  <2>1. Simple(gr)
    <3>1. ASSUME NEW i \in 1 .. h - 1, NEW j \in 1 .. h - 1, gr[i] = gr[j]
          PROVE  i = j
      <4>1. fr[i + 1] = fr[j + 1] /\ i + 1 \in 1 .. h /\ j + 1 \in 1 .. h
        BY <1>12, <1>14, <3>1
      <4>2. i + 1 = j + 1
        BY <1>1, <4>1
      <4> QED
        BY <4>2
    <3> QED
      BY <1>13, <3>1 DEF Simple
  <2>2. ASSUME NEW j \in 1 .. h - 1
        PROVE  next[gr[j]] = IF j = h - 1 THEN NULL ELSE gr[j + 1]
    <3>1. /\ j + 1 \in 1 .. h /\ j + 1 # 1 /\ (j = h - 1 <=> j + 1 = h)
          /\ j # h - 1 => j + 1 \in 1 .. h - 1
      BY <1>1
    <3>2. fr[j + 1] \in Semd /\ fr[j + 1] # s /\ fr[j + 1] # asl[n]
      BY <1>1, <1>5, <1>6, <3>1
    <3> QED
      BY <1>1, <1>8, <1>14, <3>1, <3>2
  <2>3. free = IF gr = <<>> THEN NULL ELSE gr[1]
    <3>1. h # 1 => 1 \in 1 .. h - 1 /\ 1 + 1 = 2
      BY <1>1, <1>6
    <3>2. gr = <<>> <=> h = 1
      BY <1>1, <1>13, SeqFacts
    <3> QED
      BY <1>9, <1>14, <3>1, <3>2
  <2>4. DOMAIN next = Semd
    BY <1>8
  <2> QED
    BY <1>10, <1>13, <2>1, <2>2, <2>3, <2>4 DEF List
<1>25. \A x : In(x, bsl) => ~In(x, gr)
  <2>1. \A i \in 1 .. k + 1, j \in 1 .. h - 1 : bsl[i] # gr[j]
    <3>1. ASSUME NEW i \in 1 .. k + 1, NEW j \in 1 .. h - 1
          PROVE  bsl[i] # gr[j]
      <4>1. gr[j] = fr[j + 1] /\ j + 1 \in 1 .. h /\ j + 1 # 1
        BY <1>1, <1>12, <1>14
      <4>2. fr[j + 1] # s
        BY <1>1, <1>6, <4>1
      <4>3. i # n + 1 => \E x \in 1 .. k : bsl[i] = asl[x]
        BY <1>15
      <4> QED
        BY <1>1, <1>15, <4>1, <4>2, <4>3
    <3> QED
      BY <3>1
  <2> QED
    BY <1>13, <2>1 DEF In
<1>26. Shape(m, bsl, gr)
  <2>1. Len(bsl) >= 2 /\ Len(bsl) + Len(gr) = MAXPROC + 2
    <3>1. k \in Nat /\ h \in Nat /\ k >= 2 /\ MAXPROC \in Nat
      BY <1>1, Descriptors
    <3>2. k + h = MAXPROC + 2
      BY <1>2
    <3>3. Len(bsl) = k + 1 /\ Len(gr) = h - 1
      BY <1>13
    <3> QED
      BY <3>1, <3>2, <3>3
  <2>2. m.add[bsl[1]] = 0 /\ m.add[bsl[Len(bsl)]] = NULL
    <3>1. add[bsl[at(1)]] = l.add[asl[1]] /\ add[bsl[at(k)]] = l.add[asl[k]]
      BY <1>19, <1>21
    <3> QED
      BY <1>1, <1>10, <1>13, <1>19, <3>1
  <2>3. ASSUME NEW i \in 1 .. k + 1, NEW j \in 1 .. k + 1, i < j
        PROVE  add[bsl[i]] < add[bsl[j]]
    <3>1. CASE i = n + 1
      <4>1. PICK y \in 1 .. k : j = at(y)
        BY <1>1, <1>5, <1>15, <2>3, <3>1
      <4>2. y \in Nat /\ ~(y <= n)
        BY <1>1, <1>5, <2>3, <3>1, <4>1 DEF at
      <4>3. l.add[asl[y]] >= l.add[asl[n + 1]]
        <5>1. y = n + 1 \/ n + 1 < y
          BY <1>1, <1>5, <4>2
        <5>2. l.add[asl[y]] \in Nat /\ l.add[asl[n + 1]] \in Nat
          BY <1>1, <1>5
        <5> QED
          BY <1>2, <1>5, <5>1, <5>2
      <4>4. l.add[asl[y]] \in Nat /\ l.add[asl[n + 1]] \in Nat
        BY <1>1, <1>5
      <4> QED
        BY <1>4, <1>5, <1>21, <3>1, <4>1, <4>3, <4>4
    <3>2. CASE j = n + 1
      <4>1. PICK x \in 1 .. k : i = at(x)
        BY <1>1, <1>5, <1>15, <2>3, <3>2
      <4>2. x \in 1 .. n
        BY <1>1, <1>5, <2>3, <3>2, <4>1 DEF at
      <4> QED
        BY <1>5, <1>21, <3>2, <4>1, <4>2
    <3>3. CASE i # n + 1 /\ j # n + 1
      <4>1. PICK x \in 1 .. k : i = at(x)
        BY <1>15, <3>3
      <4>2. PICK y \in 1 .. k : j = at(y)
        BY <1>15, <3>3
      <4>3. x < y
        BY <1>16, <2>3, <4>1, <4>2
      <4> QED
        BY <1>2, <1>21, <4>1, <4>2, <4>3
    <3> QED
      BY <3>1, <3>2, <3>3
  <2>4. m \in Heap
    BY <1>1, <1>7, <1>8 DEF Heap
  <2> QED
    BY <1>10, <1>13, <1>23, <1>24, <1>25, <2>1, <2>2, <2>3, <2>4 DEF Shape
<1>27. (Len(bsl) - 1 = k) /\ (2 .. Len(bsl) - 1 = 2 .. k)
       /\ (2 .. Len(asl) - 1 = 2 .. k - 1)
  BY <1>1, <1>13 DEF k
<1>28. ASSUME NEW j \in 2 .. Len(bsl) - 1, j # n + 1
       PROVE  m.q[bsl[j]] # NULL
  <2>1. PICK i \in 2 .. k - 1 : j = at(i)
    BY <1>17, <1>27, <1>28
  <2>2. l.q[asl[i]] # NULL
    BY <1>27 DEF Waited
  <2> QED
    BY <1>10, <1>20, <1>21, <2>1, <2>2
<1>29. n + 1 \in 2 .. Len(bsl) - 1 /\ m.add[bsl[n + 1]] = a
  BY <1>10, <1>17, <1>21, <1>27
<1>30. Active(m, a) /\ Queue(m, a) = NULL
  <2>1. Active(m, a) /\ Found(m, a) = bsl[n + 1]
    BY <1>26, <1>29, FoundIs
  <2> QED
    BY <1>10, <1>21, <2>1 DEF Queue
<1>31. ASSUME NEW b \in Addr \ {a}, NEW v
       PROVE  Entry(l, asl, b, v) <=> Entry(m, bsl, b, v)
  <2>1. ASSUME Entry(l, asl, b, v)
        PROVE  Entry(m, bsl, b, v)
    <3>1. PICK i \in 2 .. Len(asl) - 1 : l.add[asl[i]] = b /\ l.q[asl[i]] = v
      BY <2>1 DEF Entry
    <3>2. /\ at(i) \in 2 .. Len(bsl) - 1
          /\ m.add[bsl[at(i)]] = b /\ m.q[bsl[at(i)]] = v
      BY <1>10, <1>17, <1>20, <1>21, <1>27, <3>1
    <3> QED
      BY <3>2 DEF Entry
  <2>2. ASSUME Entry(m, bsl, b, v)
        PROVE  Entry(l, asl, b, v)
    <3>1. PICK j \in 2 .. Len(bsl) - 1 : m.add[bsl[j]] = b /\ m.q[bsl[j]] = v
      BY <2>2 DEF Entry
    <3>2. j # n + 1
      BY <1>10, <1>21, <3>1
    <3>3. PICK i \in 2 .. k - 1 : j = at(i)
      BY <1>17, <1>27, <3>2
    <3>4. i \in 2 .. Len(asl) - 1 /\ l.add[asl[i]] = b /\ l.q[asl[i]] = v
      BY <1>10, <1>20, <1>21, <1>27, <3>1, <3>3
    <3> QED
      BY <3>4 DEF Entry
  <2> QED
    BY <2>1, <2>2
<1>32. TailOf(m) = [TailOf(l) EXCEPT ![a] = NULL]
  <2>1. TailOf(m)[a] = NULL
    BY <1>30 DEF TailOf
  <2> QED
    BY <1>26, <1>31, <2>1, TailChanges
<1> QED
  BY <1>26, <1>28, <1>29, <1>30, <1>32 DEF m

-----------------------------------------------------------------------------
AslOK(l) == \E asl, fr : Shape(l, asl, fr) /\ Waited(l, asl)

(* An address is active just if it has a queue.                            *)
LEMMA ActiveTail ==
    ASSUME NEW l, AslOK(l), NEW a \in Addr
    PROVE  /\ Active(l, a) <=> TailOf(l)[a] # NULL
           /\ Active(l, a) => Queue(l, a) = TailOf(l)[a]
           /\ TailOf(l)[a] \in Proc \cup {NULL}
<1>1. PICK asl, fr : Shape(l, asl, fr) /\ Waited(l, asl)
  BY DEF AslOK
<1>2. Active(l, a) => Queue(l, a) = TailOf(l)[a] /\ TailOf(l)[a] # NULL
  <2>1. SUFFICES ASSUME Active(l, a)
                 PROVE  Queue(l, a) = TailOf(l)[a] /\ TailOf(l)[a] # NULL
    OBVIOUS
  <2>2. PICK i \in 2 .. Len(asl) - 1 : Found(l, a) = asl[i]
    BY <1>1, <2>1, ActiveIs
  <2>3. Queue(l, a) # NULL
    BY <1>1, <2>2 DEF Waited, Queue
  <2> QED
    BY <2>1, <2>3 DEF TailOf
<1> QED
  BY <1>1, <1>2, EntryIs

(* PutQueue keeps the ASL well formed and sets one tail pointer.           *)
LEMMA PutAsl ==
    ASSUME NEW l, AslOK(l), NEW a \in Addr, Active(l, a),
           NEW tp \in Proc \cup {NULL}
    PROVE  /\ AslOK(PutQueue(l, a, tp))
           /\ TailOf(PutQueue(l, a, tp)) = [TailOf(l) EXCEPT ![a] = tp]
<1>1. PICK asl, fr : Shape(l, asl, fr) /\ Waited(l, asl)
  BY DEF AslOK
<1>2. PICK i \in 2 .. Len(asl) - 1 : l.add[asl[i]] = a
  BY <1>1, ActiveIs
<1>3. \A j \in 2 .. Len(asl) - 1 : j # i => l.q[asl[j]] # NULL
  BY <1>1 DEF Waited
<1>4. CASE tp \in Proc
  <2>1. /\ Shape(PutQueue(l, a, tp), asl, fr) /\ Waited(PutQueue(l, a, tp), asl)
        /\ TailOf(PutQueue(l, a, tp)) = [TailOf(l) EXCEPT ![a] = tp]
    BY <1>1, <1>2, <1>3, <1>4, PutKept
  <2> QED
    BY <2>1 DEF AslOK
<1>5. CASE tp = NULL
  <2>1. /\ \E bsl, gr : /\ Shape(PutQueue(l, a, NULL), bsl, gr)
                        /\ Waited(PutQueue(l, a, NULL), bsl)
        /\ TailOf(PutQueue(l, a, NULL)) = [TailOf(l) EXCEPT ![a] = NULL]
    BY <1>1, <1>2, <1>3, PutFreed
  <2> QED
    BY <1>5, <2>1 DEF AslOK
<1> QED
  BY <1>4, <1>5

(* So it does when insertBlocked has just added the descriptor.            *)
LEMMA AddAsl ==
    ASSUME NEW l, AslOK(l), NEW a \in Addr, ~Active(l, a), l.free # NULL,
           NEW tp \in Proc
    PROVE  LET m == AddSemd(l, a)
           IN  /\ Queue(m, a) = NULL
               /\ AslOK(PutQueue(m, a, tp))
               /\ TailOf(PutQueue(m, a, tp)) = [TailOf(l) EXCEPT ![a] = tp]
<1> DEFINE m == AddSemd(l, a)
<1>1. PICK asl, fr : Shape(l, asl, fr) /\ Waited(l, asl)
  BY DEF AslOK
<1>2. /\ \E bsl, gr : \E i \in 2 .. Len(bsl) - 1 :
            /\ Shape(m, bsl, gr) /\ m.add[bsl[i]] = a
            /\ \A j \in 2 .. Len(bsl) - 1 : j # i => m.q[bsl[j]] # NULL
      /\ Active(m, a) /\ Queue(m, a) = NULL
      /\ TailOf(m) = [TailOf(l) EXCEPT ![a] = NULL]
  BY <1>1, Added
<1> HIDE DEF m
<1>3. PICK bsl, gr : \E i \in 2 .. Len(bsl) - 1 :
            /\ Shape(m, bsl, gr) /\ m.add[bsl[i]] = a
            /\ \A j \in 2 .. Len(bsl) - 1 : j # i => m.q[bsl[j]] # NULL
  BY <1>2
<1>4. /\ Shape(PutQueue(m, a, tp), bsl, gr) /\ Waited(PutQueue(m, a, tp), bsl)
      /\ TailOf(PutQueue(m, a, tp)) = [TailOf(m) EXCEPT ![a] = tp]
  BY <1>3, PutKept
<1>5. TailOf(PutQueue(m, a, tp)) = [TailOf(l) EXCEPT ![a] = tp]
  <2>1. TailOf(l) = [b \in Addr |-> TailOf(l)[b]]
    BY DEF TailOf
  <2> QED
    BY <1>2, <1>4, <2>1
<1> QED
  BY <1>2, <1>4, <1>5 DEF m, AslOK

(* Every descriptor on the ASL has a pcb of its own, so that one is free   *)
(* for a pcb that is on no queue.                                          *)
LEMMA DescriptorLeft ==
    ASSUME NEW l, AslOK(l), NEW p \in Proc,
           \A a \in Addr : TailOf(l)[a] # p,
           \A a, b \in Addr :
               TailOf(l)[a] = TailOf(l)[b] /\ TailOf(l)[a] # NULL => a = b
    PROVE  l.free # NULL
<1>1. PICK asl, fr : Shape(l, asl, fr) /\ Waited(l, asl)
  BY DEF AslOK
<1> DEFINE k == Len(asl)
           h == Len(fr)
           I == 2 .. k - 1
           f == [i \in I |-> l.q[asl[i]]]
<1>2. /\ k \in Nat /\ h \in Nat /\ k >= 2
      /\ l.free = IF h = 0 THEN NULL ELSE fr[1]
      /\ \A i \in 1 .. k : asl[i] \in Semd
      /\ \A i \in 1 .. h : fr[i] \in Semd
      /\ l.q \in [Semd -> Proc \cup {NULL}]
      /\ l.add \in [Semd -> Addr \cup {0, NULL}]
      /\ \A x \in Semd : l.add[x] \in Nat
      /\ l.add[asl[1]] = 0 /\ l.add[asl[k]] = NULL
  BY <1>1, ShapeParts
<1>3. /\ \A i, j \in 1 .. k : i < j => l.add[asl[i]] < l.add[asl[j]]
      /\ k + h = MAXPROC + 2
  BY <1>1 DEF Shape
<1>4. ASSUME NEW i \in I
      PROVE  /\ i \in 1 .. k /\ l.add[asl[i]] \in Addr
             /\ TailOf(l)[l.add[asl[i]]] = f[i] /\ f[i] \in Proc
  <2>1. i \in 1 .. k /\ 1 \in 1 .. k /\ k \in 1 .. k /\ 1 < i /\ i < k
    BY <1>2
  <2>2. l.add[asl[i]] \in Addr
    <3>1. l.add[asl[1]] < l.add[asl[i]] /\ l.add[asl[i]] < l.add[asl[k]]
      BY <1>3, <2>1
    <3>2. l.add[asl[i]] \in Addr \cup {0, NULL} /\ NULL \in Nat
      BY <1>2, <2>1, Descriptors
    <3>3. l.add[asl[i]] # 0 /\ l.add[asl[i]] # NULL
      BY <1>2, <3>1, <3>2
    <3> QED
      BY <3>2, <3>3
  <2>3. Entry(l, asl, l.add[asl[i]], f[i])
    BY DEF Entry
  <2>4. f[i] # NULL /\ f[i] = l.q[asl[i]]
    BY <1>1 DEF Waited
  <2> QED
    BY <1>1, <1>2, <2>1, <2>2, <2>3, <2>4, EntryIs
<1>5. f \in Injection(I, Proc \ {p})
  <2>1. f \in [I -> Proc \ {p}]
    BY <1>4
  <2>2. ASSUME NEW i \in I, NEW j \in I, f[i] = f[j]
        PROVE  i = j
    <3>1. l.add[asl[i]] = l.add[asl[j]]
      <4> DEFINE a == l.add[asl[i]]
                 b == l.add[asl[j]]
      <4>1. /\ a \in Addr /\ TailOf(l)[a] = f[i] /\ f[i] \in Proc
            /\ b \in Addr /\ TailOf(l)[b] = f[j]
        BY <1>4
      <4>2. f[i] # NULL
        BY <4>1, RingsAssumption
      <4> HIDE DEF a, b, f, I
      <4>3. a = b
        BY <2>2, <4>1, <4>2
      <4> QED
        BY <4>3 DEF a, b
    <3>2. i \in 1 .. k /\ j \in 1 .. k /\ l.add[asl[i]] \in Nat
      BY <1>2, <1>4
    <3> QED
      BY <1>2, <1>3, <3>1, <3>2
  <2> QED
    BY <2>1, <2>2 DEF Injection, IsInjective
<1>6. Cardinality(I) <= Cardinality(Proc \ {p}) /\ Cardinality(Proc \ {p}) = MAXPROC - 1
  <2>1. IsFiniteSet(Proc \ {p}) /\ Cardinality(Proc \ {p}) = MAXPROC - 1
    BY RingsAssumption, FS_RemoveElement DEF MAXPROC
  <2> QED
    BY <1>5, <2>1, FS_Injection
<1>7. Cardinality(I) = k - 2
  <2>1. 2 \in Int /\ k - 1 \in Int
    BY <1>2
  <2>2. Cardinality(I) = IF 2 > k - 1 THEN 0 ELSE (k - 1) - 2 + 1
    BY <2>1, FS_Interval
  <2> QED
    BY <1>2, <2>2
<1>8. h # 0
  <2> HIDE DEF I
  <2>1. MAXPROC \in Nat
    BY Descriptors
  <2> QED
    BY <1>2, <1>3, <1>6, <1>7, <2>1
<1> QED
  BY <1>2, <1>8, Descriptors

-----------------------------------------------------------------------------
(* The rings that initPcbs builds by its recursion.                        *)
NoLinks == [p \in Proc |-> NULL]

Frees(t, n, r) ==
    r = [i \in 0 .. n |->
            IF i = 0 THEN [next |-> NoLinks, prev |-> NoLinks, tp |-> NULL]
            ELSE insertProcQ(r[i - 1], t[i])]

First(t, n) == [i \in 1 .. n |-> t[i]]

(* The recursion of initPcbs defines a function.                           *)
LEMMA FreesExist ==
    ASSUME NEW t
    PROVE  \A n \in Nat : \E r : Frees(t, n, r)
<1> DEFINE T == {n \in Nat : ~ \E r : Frees(t, n, r)}
<1>1. SUFFICES ASSUME T # {}  PROVE FALSE
  OBVIOUS
<1>2. PICK n \in T : \A m \in T : n <= m
  <2>1. T \in SUBSET Nat
    OBVIOUS
  <2> HIDE DEF T
  <2> QED
    BY <1>1, <2>1, Least
<1>3. n \in Nat /\ ~ \E r : Frees(t, n, r)
  OBVIOUS
<1>4. n # 0
  <2> DEFINE e == [next |-> NoLinks, prev |-> NoLinks, tp |-> NULL]
             r == [i \in 0 .. 0 |-> e]
  <2>1. \A i \in 0 .. 0 : i = 0
    OBVIOUS
  <2> HIDE DEF e
  <2>2. r = [i \in 0 .. 0 |-> IF i = 0 THEN e ELSE insertProcQ(r[i - 1], t[i])]
    BY <2>1
  <2>3. Frees(t, 0, r)
    BY <2>2 DEF Frees, e
  <2> QED
    BY <1>3, <2>3
<1>5. n - 1 \in Nat /\ ~(n <= n - 1)
  BY <1>3, <1>4
<1>6. PICK f : Frees(t, n - 1, f)
  <2>1. n - 1 \notin T
    BY <1>2, <1>5
  <2> QED
    BY <1>5, <2>1
<1> DEFINE e == [next |-> NoLinks, prev |-> NoLinks, tp |-> NULL]
           g == [i \in 0 .. n |-> IF i = n THEN insertProcQ(f[n - 1], t[n])
                                  ELSE f[i]]
<1> HIDE DEF T, e
<1>7. ASSUME NEW i \in 0 .. n
      PROVE  g[i] = IF i = 0 THEN e ELSE insertProcQ(g[i - 1], t[i])
  <2>1. f = [j \in 0 .. n - 1 |-> IF j = 0 THEN e ELSE insertProcQ(f[j - 1], t[j])]
    BY <1>6 DEF Frees, e
  <2>2. CASE i = n
    <3>1. n - 1 \in 0 .. n /\ n - 1 # n
      BY <1>3, <1>5
    <3>2. g[n - 1] = f[n - 1]
      BY <3>1
    <3> QED
      BY <1>4, <2>2, <3>2
  <2>3. CASE i # n
    <3>1. i \in 0 .. n - 1
      BY <1>3, <2>3
    <3>2. f[i] = IF i = 0 THEN e ELSE insertProcQ(f[i - 1], t[i])
      BY <2>1, <3>1
    <3>3. i # 0 => i - 1 \in 0 .. n /\ i - 1 # n
      BY <1>3, <2>3
    <3>4. i # 0 => g[i - 1] = f[i - 1]
      BY <3>3
    <3> QED
      BY <2>3, <3>2, <3>4
  <2> QED
    BY <2>2, <2>3
<1>8. g = [i \in 0 .. n |-> g[i]]
  OBVIOUS
<1> HIDE DEF g
<1>9. g = [i \in 0 .. n |-> IF i = 0 THEN e ELSE insertProcQ(g[i - 1], t[i])]
  BY <1>7, <1>8
<1>10. Frees(t, n, g)
  BY <1>9 DEF Frees, e
<1> QED
  BY <1>3, <1>10

(* After n calls of freePcb the free list is a ring of n pcbs.             *)
LEMMA FreesRing ==
    ASSUME NEW t \in [1 .. MAXPROC -> Proc], IsInjective(t),
           NEW r, Frees(t, MAXPROC, r)
    PROVE  \A n \in 0 .. MAXPROC : r[n] \in Ringed /\ IsRing(r[n], First(t, n))
<1> DEFINE M == MAXPROC
           Good(n) == r[n] \in Ringed /\ IsRing(r[n], First(t, n))
           T == {n \in Nat : n <= M /\ ~Good(n)}
<1>0. M \in Nat
  BY Descriptors
<1>1. SUFFICES ASSUME T # {}  PROVE FALSE
  BY <1>0
<1>2. T \in SUBSET Nat
  OBVIOUS
<1>3. PICK n \in T : \A m \in T : n <= m
  <2> HIDE DEF T
  <2> QED
    BY <1>1, <1>2, Least
<1>4. n \in Nat /\ n <= M /\ ~Good(n)
  OBVIOUS
<1>5. \A i \in 1 .. M : t[i] \in Proc
  OBVIOUS
<1>5b. \A i, j \in 1 .. M : t[i] = t[j] => i = j
  BY DEF IsInjective
<1> DEFINE e == [next |-> NoLinks, prev |-> NoLinks, tp |-> NULL]
<1>6. \A i \in 0 .. M : r[i] = IF i = 0 THEN e ELSE insertProcQ(r[i - 1], t[i])
  BY DEF Frees
<1> HIDE DEF M
<1>7. ASSUME NEW i \in 0 .. M
      PROVE  First(t, i) \in Seq(Proc) /\ Len(First(t, i)) = i
  <2>1. \A j \in 1 .. i : t[j] \in Proc
    BY <1>0, <1>5
  <2>2. First(t, i) \in [1 .. i -> Proc] /\ i \in Nat
    BY <2>1 DEF First
  <2> QED
    BY <2>2, SeqFrom
<1>8. n # 0
  <2>1. r[0] = e
    BY <1>0, <1>6
  <2>2. e \in Ringed
    BY DEF Ringed, Links, NoLinks
  <2>3. First(t, 0) = <<>>
    <3>1. Len(First(t, 0)) = 0 /\ First(t, 0) \in Seq(Proc)
      BY <1>0, <1>7
    <3> QED
      BY <3>1, SeqFacts
  <2>4. IsRing(e, <<>>)
    BY DEF IsRing, Simple
  <2>5. Good(0)
    BY <2>1, <2>2, <2>3, <2>4
  <2> QED
    BY <1>4, <2>5
<1>9. /\ n - 1 \in Nat /\ n - 1 <= M /\ ~(n <= n - 1)
      /\ n - 1 \in 0 .. M /\ n \in 0 .. M /\ n \in 1 .. M
  BY <1>0, <1>4, <1>8
<1>10. Good(n - 1)
  BY <1>3, <1>9
<1> DEFINE s == First(t, n - 1)
           p == t[n]
<1>11. r[n] = insertProcQ(r[n - 1], p)
  BY <1>6, <1>8, <1>9
<1>12. s \in Seq(Proc) /\ Len(s) = n - 1 /\ p \in Proc
  BY <1>5, <1>7, <1>9
<1>13. \A i \in 1 .. n - 1 : s[i] = t[i]
  BY DEF First
<1>14. ~In(p, s)
  <2>1. \A i \in 1 .. n - 1 : i \in 1 .. M /\ i # n
    BY <1>0, <1>9
  <2>2. \A i \in 1 .. n - 1 : s[i] # p
    BY <1>5b, <1>9, <1>13, <2>1
  <2> HIDE DEF s, p
  <2> QED
    BY <1>12, <2>2 DEF In
<1>15. Append(s, p) = First(t, n)
  <2> DEFINE u == Append(s, p)
             v == First(t, n)
  <2>1. /\ u \in Seq(Proc) /\ Len(u) = n /\ u[n] = p
        /\ \A i \in 1 .. n - 1 : u[i] = s[i]
    <3> HIDE DEF s, p
    <3>1. /\ u \in Seq(Proc) /\ Len(u) = Len(s) + 1 /\ u[Len(s) + 1] = p
          /\ \A i \in 1 .. Len(s) : u[i] = s[i]
      BY <1>12, AppendProperties
    <3>2. Len(s) + 1 = n
      BY <1>9, <1>12
    <3> QED
      BY <1>12, <3>1, <3>2
  <2>2. v \in Seq(Proc) /\ Len(v) = n /\ \A i \in 1 .. n : v[i] = t[i]
    BY <1>7, <1>9 DEF First
  <2>3. \A i \in 1 .. n : i \in 1 .. n - 1 \/ i = n
    BY <1>9
  <2>4. \A i \in 1 .. n : u[i] = v[i]
    BY <1>13, <2>1, <2>2, <2>3
  <2> HIDE DEF u, v
  <2>5. u = v
    BY <2>1, <2>2, <2>4, SeqEqual
  <2> QED
    BY <2>5 DEF u, v
<1> HIDE DEF s, p, T
<1>16. Good(n)
  <2> DEFINE a == r[n - 1]
             b == r[n]
  <2>1. a \in Ringed /\ IsRing(a, s) /\ b = insertProcQ(a, p)
    BY <1>10, <1>11 DEF s
  <2> HIDE DEF a, b
  <2>2. b \in Ringed /\ IsRing(b, Append(s, p))
    BY <1>12, <1>14, <2>1, InsertRing
  <2> QED
    BY <1>15, <2>2 DEF b
<1> QED
  BY <1>4, <1>16

(* initPcbs makes one ring of all pcbs.                                    *)
LEMMA InitPcbs ==
    ASSUME NEW t \in [1 .. MAXPROC -> Proc], IsInjective(t)
    PROVE  /\ initPcbs(t) \in Ringed /\ IsRing(initPcbs(t), t)
           /\ t \in Seq(Proc)
<1>1. initPcbs(t) = (CHOOSE r : Frees(t, MAXPROC, r))[MAXPROC]
  BY DEF initPcbs, Frees, NoLinks, mkEmptyProcQ
<1> DEFINE r == CHOOSE f : Frees(t, MAXPROC, f)
<1>2. MAXPROC \in Nat /\ MAXPROC \in 0 .. MAXPROC
  BY Descriptors
<1>3. Frees(t, MAXPROC, r)
  BY <1>2, FreesExist
<1>4. First(t, MAXPROC) = t
  BY DEF First
<1> HIDE DEF r
<1>5. r[MAXPROC] \in Ringed /\ IsRing(r[MAXPROC], t)
  BY <1>2, <1>3, <1>4, FreesRing
<1> QED
  BY <1>1, <1>2, <1>5, SeqFrom DEF r

-----------------------------------------------------------------------------
(* The free descriptors while initASL pushes them, one after the other.    *)
Pushes(n, f) ==
    f = [i \in 0 .. n |->
            IF i = 0
            THEN [head |-> NULL, free |-> NULL,
                  next |-> [s \in Semd |-> NULL], add |-> [s \in Semd |-> 0],
                  q    |-> [s \in Semd |-> NULL]]
            ELSE freeSemd(f[i - 1], i)]

Stack(i) ==
    [head |-> NULL, free |-> IF i = 0 THEN NULL ELSE i,
     next |-> [s \in Semd |-> IF 2 <= s /\ s <= i THEN s - 1 ELSE NULL],
     add  |-> [s \in Semd |-> 0], q |-> [s \in Semd |-> NULL]]

(* freeSemd pushes one more descriptor.                                    *)
LEMMA StackGrows ==
    /\ Stack(0) = [head |-> NULL, free |-> NULL,
                   next |-> [s \in Semd |-> NULL],
                   add |-> [s \in Semd |-> 0], q |-> [s \in Semd |-> NULL]]
    /\ \A i \in Semd : freeSemd(Stack(i - 1), i) = Stack(i)
<1>1. MAXPROC \in Nat /\ Semd = 1 .. MAXPROC + 2
  BY Descriptors DEF Semd
<1>2. \A s \in Semd : s \in Int /\ s >= 1
  BY <1>1
<1>3. Stack(0) = [head |-> NULL, free |-> NULL,
                  next |-> [s \in Semd |-> NULL],
                  add |-> [s \in Semd |-> 0], q |-> [s \in Semd |-> NULL]]
  <2>1. \A s \in Semd : ~(2 <= s /\ s <= 0)
    BY <1>2
  <2> QED
    BY <2>1 DEF Stack
<1>4. ASSUME NEW i \in Semd
      PROVE  freeSemd(Stack(i - 1), i) = Stack(i)
  <2> DEFINE a == [s \in Semd |-> IF 2 <= s /\ s <= i - 1 THEN s - 1 ELSE NULL]
             b == [s \in Semd |-> IF 2 <= s /\ s <= i THEN s - 1 ELSE NULL]
             x == IF i - 1 = 0 THEN NULL ELSE i - 1
             z == [s \in Semd |-> 0]
             w == [s \in Semd |-> NULL]
  <2>1. Stack(i - 1) = [head |-> NULL, free |-> x, next |-> a, add |-> z, q |-> w]
    BY DEF Stack
  <2>2. Stack(i) = [head |-> NULL, free |-> i, next |-> b, add |-> z, q |-> w]
    BY <1>2 DEF Stack
  <2>3. [a EXCEPT ![i] = x] = b
    <3>1. ASSUME NEW s \in Semd
          PROVE  [a EXCEPT ![i] = x][s] = b[s]
      <4>1. CASE s = i
        <5>1. [a EXCEPT ![i] = x][s] = x
          BY <4>1
        <5>2. b[s] = IF 2 <= i THEN i - 1 ELSE NULL
          BY <1>2, <4>1
        <5>3. i = 1 \/ 2 <= i
          BY <1>2
        <5> QED
          BY <1>2, <5>1, <5>2, <5>3
      <4>2. CASE s # i
        <5>1. [a EXCEPT ![i] = x][s] = a[s]
          BY <4>2
        <5>2. s <= i - 1 <=> s <= i
          BY <1>2, <4>2
        <5> QED
          BY <5>1, <5>2
      <4> QED
        BY <4>1, <4>2
    <3>2. DOMAIN [a EXCEPT ![i] = x] = Semd /\ DOMAIN b = Semd
      OBVIOUS
    <3> QED
      BY <3>1, <3>2
  <2> HIDE DEF a, b, x, z, w
  <2>4. freeSemd([head |-> NULL, free |-> x, next |-> a, add |-> z, q |-> w], i) =
           [head |-> NULL, free |-> i, next |-> [a EXCEPT ![i] = x], add |-> z,
            q |-> w]
    <3> DEFINE l == [head |-> NULL, free |-> x, next |-> a, add |-> z, q |-> w]
               n == [a EXCEPT ![i] = x]
    <3>1. l.free = x /\ l.next = a
      OBVIOUS
    <3>2. freeSemd(l, i) = [l EXCEPT !.next[i] = x, !.free = i]
      BY <3>1 DEF freeSemd
    <3>3. freeSemd(l, i) = [l EXCEPT !.next = n, !.free = i]
      BY <3>1, <3>2
    <3> HIDE DEF n
    <3>4. freeSemd(l, i) = [head |-> NULL, free |-> i, next |-> n, add |-> z,
                            q |-> w]
      BY <3>3
    <3> QED
      BY <3>4 DEF n
  <2> QED
    BY <2>1, <2>2, <2>3, <2>4
<1> QED
  BY <1>3, <1>4

(* All descriptors are on the free list then, the last one first.          *)
LEMMA PushedIs == Pushed(MAXPROC + 2) = Stack(MAXPROC + 2)
<1> DEFINE M == MAXPROC + 2
           f == [i \in 0 .. M |-> Stack(i)]
           g == CHOOSE h : Pushes(M, h)
<1>1. M \in Nat /\ M >= 2 /\ Semd = 1 .. M
  BY Descriptors DEF Semd
<1>2. Pushed(M) = g[M]
  BY DEF Pushed, Pushes
<1> HIDE DEF M
<1>3. Pushes(M, f)
  <2>1. ASSUME NEW i \in 0 .. M, i # 0
        PROVE  Stack(i) = freeSemd(f[i - 1], i)
    <3>1. i \in Semd /\ i - 1 \in 0 .. M
      BY <1>1, <2>1
    <3>2. f[i - 1] = Stack(i - 1)
      BY <3>1
    <3> QED
      BY <3>1, <3>2, StackGrows
  <2>2. f = [i \in 0 .. M |-> IF i = 0 THEN Stack(0) ELSE freeSemd(f[i - 1], i)]
    BY <2>1
  <2> HIDE DEF f
  <2> QED
    BY <2>2, StackGrows DEF Pushes
<1>4. Pushes(M, g)
  BY <1>3
<1> HIDE DEF f, g
<1> DEFINE T == {n \in Nat : n <= M /\ g[n] # Stack(n)}
<1>5. ASSUME T # {}  PROVE FALSE
  <2>1. T \in SUBSET Nat
    OBVIOUS
  <2>2. PICK n \in T : \A m \in T : n <= m
    <3> HIDE DEF T
    <3> QED
      BY <1>5, <2>1, Least
  <2>3. n \in Nat /\ n <= M /\ g[n] # Stack(n) /\ n \in 0 .. M
    BY <1>1
  <2>4. g[n] = IF n = 0 THEN Stack(0) ELSE freeSemd(g[n - 1], n)
    <3> DEFINE e == Stack(0)
    <3>1. g = [i \in 0 .. M |-> IF i = 0 THEN e ELSE freeSemd(g[i - 1], i)]
      BY <1>4, StackGrows DEF Pushes
    <3> HIDE DEF e
    <3>2. g[n] = IF n = 0 THEN e ELSE freeSemd(g[n - 1], n)
      BY <2>3, <3>1
    <3> QED
      BY <3>2 DEF e
  <2>5. n # 0
    BY <2>3, <2>4
  <2>6. n - 1 \in Nat /\ n - 1 <= M /\ ~(n <= n - 1) /\ n \in Semd
    BY <1>1, <2>3, <2>5
  <2>7. g[n - 1] = Stack(n - 1)
    BY <2>2, <2>6
  <2>8. g[n] = Stack(n)
    BY <2>4, <2>5, <2>6, <2>7, StackGrows
  <2> QED
    BY <2>3, <2>8
<1>6. g[M] = Stack(M)
  BY <1>1, <1>5
<1> QED
  BY <1>2, <1>6 DEF M

(* initASL leaves the two dummies on the ASL and all others free.          *)
StartNext(m) ==
    [s \in Semd |-> IF s = m THEN m - 1
                    ELSE IF 2 <= s /\ s # m - 1 THEN s - 1 ELSE NULL]
StartAdd(m) == [s \in Semd |-> IF s = m - 1 THEN NULL ELSE 0]

(* initASL, field by field.                                                *)
LEMMA InitAslIs ==
    LET m == MAXPROC + 2
    IN  initASL = [next |-> StartNext(m), add |-> StartAdd(m),
                   q |-> [s \in Semd |-> NULL], head |-> m,
                   free |-> IF 2 <= m - 1 THEN m - 2 ELSE NULL]
<1> DEFINE m == MAXPROC + 2
           z == [s \in Semd |-> 0]
           w == [s \in Semd |-> NULL]
           n == [s \in Semd |-> IF 2 <= s /\ s <= m THEN s - 1 ELSE NULL]
           free == IF 2 <= m - 1 THEN m - 2 ELSE NULL
<1>1. m \in Nat /\ m >= 2 /\ Semd = 1 .. m
  BY Descriptors DEF Semd
<1>2. m \in Semd /\ m - 1 \in Semd /\ m # m - 1 /\ m - 1 < m /\ m # 0
  BY <1>1
<1>3. semdTable = Stack(m)
  BY PushedIs DEF semdTable
<1> HIDE DEF m
<1>4. semdTable = [next |-> n, add |-> z, q |-> w, head |-> NULL, free |-> m]
  BY <1>2, <1>3 DEF Stack
<1>5. /\ n[m] = m - 1 /\ n[m - 1] = free
      /\ n \in [Semd -> Nat] /\ z \in [Semd -> Nat]
  <2>1. \A s \in Semd : s - 1 \in Nat
    BY <1>1
  <2>2. m - 1 - 1 = m - 2 /\ 2 <= m
    BY <1>1
  <2> QED
    BY <1>1, <1>2, <2>1, <2>2, Descriptors
<1>6. semdTable.free = m /\ semdTable.next[m] = m - 1
  BY <1>4, <1>5
<1> DEFINE n1 == [n EXCEPT ![m] = NULL]
           n2 == [n1 EXCEPT ![m - 1] = NULL]
           n3 == [n2 EXCEPT ![m] = m - 1]
           z1 == [z EXCEPT ![m] = 0]
           z2 == [z1 EXCEPT ![m - 1] = 0]
           z3 == [z2 EXCEPT ![m] = 0]
           z4 == [z3 EXCEPT ![m - 1] = NULL]
           w1 == [w EXCEPT ![m] = NULL]
           w2 == [w1 EXCEPT ![m - 1] = NULL]
<1>7. n1[m - 1] = free /\ n3 = StartNext(m)
  <2>1. n1[m - 1] = n[m - 1]
    BY <1>2, <1>5
  <2>2. ASSUME NEW s \in Semd
        PROVE  n3[s] = StartNext(m)[s]
    <3>1. CASE s = m
      BY <1>2, <3>1 DEF StartNext
    <3>2. CASE s = m - 1
      BY <1>2, <3>2 DEF StartNext
    <3>3. CASE s # m /\ s # m - 1
      <4>1. s <= m
        BY <1>1
      <4>2. n3[s] = n[s]
        BY <3>3
      <4> QED
        BY <3>3, <4>1, <4>2 DEF StartNext
    <3> QED
      BY <3>1, <3>2, <3>3
  <2>3. DOMAIN n3 = Semd
    OBVIOUS
  <2>4. n3 = [s \in Semd |-> n3[s]] /\ StartNext(m) = [s \in Semd |-> StartNext(m)[s]]
    BY DEF StartNext
  <2> HIDE DEF n3
  <2> QED
    BY <1>5, <2>1, <2>2, <2>4
<1>8. z4 = StartAdd(m)
  <2>1. z3 = z
    OBVIOUS
  <2> HIDE DEF z3
  <2> QED
    BY <2>1 DEF StartAdd
<1>9. w2 = w
  OBVIOUS
<1> HIDE DEF n, z, w, free
<1>10. allocSemd(semdTable) =
          [next |-> n1, add |-> z1, q |-> w1, head |-> NULL, free |-> n[m]]
  BY <1>4, AllocIs
<1>11. allocSemd(allocSemd(semdTable)) =
          [next |-> n2, add |-> z2, q |-> w2, head |-> NULL, free |-> free]
  <2> HIDE DEF n1, z1, w1
  <2>1. allocSemd(semdTable) =
          [next |-> n1, add |-> z1, q |-> w1, head |-> NULL, free |-> m - 1]
    BY <1>5, <1>10
  <2>2. allocSemd(allocSemd(semdTable)) =
          [next |-> n2, add |-> z2, q |-> w2, head |-> NULL, free |-> n1[m - 1]]
    BY <2>1, AllocIs
  <2> QED
    BY <1>7, <2>2
<1> HIDE DEF n2, z2, w2
<1>12. initASL = [next |-> n3, add |-> z4, q |-> w2, head |-> m, free |-> free]
  <2> DEFINE b == allocSemd(allocSemd(semdTable))
             c == [next |-> n2, add |-> z2, q |-> w2, head |-> NULL, free |-> free]
  <2>1. initASL = [b EXCEPT !.add[m] = 0, !.add[m - 1] = NULL, !.head = m,
                            !.next[m] = m - 1]
    BY <1>6 DEF initASL
  <2>2. b = c /\ c.add = z2 /\ c.next = n2
    BY <1>11
  <2>3. initASL = [c EXCEPT !.add[m] = 0, !.add[m - 1] = NULL, !.head = m,
                            !.next[m] = m - 1]
    BY <2>1, <2>2
  <2>4. initASL = [c EXCEPT !.add = z4, !.head = m, !.next = n3]
    BY <2>3, <2>2
  <2> HIDE DEF n3, z4
  <2> QED
    BY <2>4
<1> QED
  BY <1>7, <1>8, <1>9, <1>12 DEF m, free, w

(* The ASL that initASL sets up is well formed and has no entry.           *)
LEMMA InitAsl == AslOK(initASL) /\ \A a \in Addr : TailOf(initASL)[a] = NULL
<1> DEFINE m == MAXPROC + 2
           l == initASL
           asl == <<m, m - 1>>
           fr == [j \in 1 .. m - 2 |-> m - 1 - j]
<1>1. m \in Nat /\ m >= 2 /\ Semd = 1 .. m /\ MAXPROC = m - 2 /\ m - 2 \in Nat
  BY Descriptors DEF Semd
<1>2. m \in Semd /\ m - 1 \in Semd /\ m # m - 1 /\ m - 1 < m
  BY <1>1
<1>3. l = [next |-> StartNext(m), add |-> StartAdd(m),
           q |-> [s \in Semd |-> NULL], head |-> m,
           free |-> IF 2 <= m - 1 THEN m - 2 ELSE NULL]
  BY InitAslIs
<1> HIDE DEF m
<1>4. /\ l.next = StartNext(m) /\ l.add = StartAdd(m) /\ l.head = m
      /\ l.q = [s \in Semd |-> NULL]
      /\ l.free = IF 2 <= m - 1 THEN m - 2 ELSE NULL
  BY <1>3
<1>5. /\ \A s \in Semd : l.next[s] = IF s = m THEN m - 1
                         ELSE IF 2 <= s /\ s # m - 1 THEN s - 1 ELSE NULL
      /\ DOMAIN l.next = Semd
  BY <1>4 DEF StartNext
<1>6. /\ \A s \in Semd : l.add[s] = IF s = m - 1 THEN NULL ELSE 0
  BY <1>4 DEF StartAdd
<1>7. l \in Heap
  <2>1. \A s \in Semd : 2 <= s => s - 1 \in Semd
    BY <1>1
  <2>2. StartNext(m) \in [Semd -> Semd \cup {NULL}]
    BY <1>2, <2>1 DEF StartNext
  <2>3. StartAdd(m) \in [Semd -> Addr \cup {0, NULL}]
    BY DEF StartAdd
  <2>4. l.free \in Semd \cup {NULL}
    BY <1>1, <1>4
  <2>5. [s \in Semd |-> NULL] \in [Semd -> Proc \cup {NULL}]
    OBVIOUS
  <2> DEFINE fre == IF 2 <= m - 1 THEN m - 2 ELSE NULL
             w == [s \in Semd |-> NULL]
  <2>6. fre \in Semd \cup {NULL}
    BY <1>4, <2>4
  <2>7. l = [next |-> StartNext(m), add |-> StartAdd(m), q |-> w, head |-> m,
             free |-> fre]
    BY <1>3
  <2> HIDE DEF fre, w, l
  <2> QED
    BY <1>2, <2>2, <2>3, <2>5, <2>6, <2>7 DEF Heap, w
<1> HIDE DEF l
<1>8. /\ asl \in Seq(Semd) /\ Len(asl) = 2 /\ asl[1] = m /\ asl[2] = m - 1
      /\ \A i \in 1 .. 2 : i = 1 \/ i = 2
  BY <1>2
<1>9. /\ fr \in Seq(Semd) /\ Len(fr) = m - 2
      /\ \A j \in 1 .. m - 2 : /\ fr[j] = m - 1 - j
                               /\ fr[j] \in Semd /\ fr[j] # m /\ fr[j] # m - 1
                               /\ fr[j] >= 1
  <2>1. \A j \in 1 .. m - 2 : /\ m - 1 - j \in Semd /\ m - 1 - j # m
                              /\ m - 1 - j # m - 1 /\ m - 1 - j >= 1
    BY <1>1
  <2>2. fr \in [1 .. m - 2 -> Semd]
    BY <2>1
  <2>3. fr \in Seq(Semd) /\ Len(fr) = m - 2
    <3> HIDE DEF fr
    <3> QED
      BY <1>1, <2>2, SeqFrom
  <2>4. \A j \in 1 .. m - 2 : fr[j] = m - 1 - j
    OBVIOUS
  <2> HIDE DEF fr
  <2> QED
    BY <2>1, <2>3, <2>4
<1> HIDE DEF asl, fr
<1>10. List(l.next, l.head, asl)
  <2>1. Simple(asl)
    BY <1>2, <1>8 DEF Simple
  <2>2. asl # <<>>
    BY <1>8, SeqFacts
  <2>3. l.next[m] = m - 1 /\ l.next[m - 1] = NULL
    BY <1>2, <1>5
  <2>4. \A i \in 1 .. Len(asl) :
            l.next[asl[i]] = IF i = Len(asl) THEN NULL ELSE asl[i + 1]
    <3>1. l.next[asl[1]] = asl[1 + 1] /\ l.next[asl[2]] = NULL
      BY <1>8, <2>3
    <3> QED
      BY <1>8, <3>1
  <2> QED
    BY <1>4, <1>5, <1>8, <2>1, <2>2, <2>4 DEF List
<1>11. List(l.next, l.free, fr)
  <2>1. Simple(fr)
    <3>1. \A i, j \in 1 .. m - 2 : m - 1 - i = m - 1 - j => i = j
      BY <1>1
    <3> QED
      BY <1>9, <3>1 DEF Simple
  <2>2. \A i \in 1 .. m - 2 : /\ i # m - 2 => i + 1 \in 1 .. m - 2
                              /\ m - 1 - (i + 1) = (m - 1 - i) - 1
                              /\ 2 <= m - 1 - i <=> i # m - 2
    BY <1>1
  <2>3. \A i \in 1 .. m - 2 :
            l.next[fr[i]] = IF i = m - 2 THEN NULL ELSE fr[i + 1]
    <3>1. ASSUME NEW i \in 1 .. m - 2
          PROVE  l.next[fr[i]] = IF i = m - 2 THEN NULL ELSE fr[i + 1]
      <4> DEFINE s == fr[i]
      <4>1. s \in Semd /\ s # m /\ s # m - 1 /\ s = m - 1 - i
        BY <1>9
      <4> HIDE DEF s
      <4>2. l.next[s] = IF 2 <= s THEN s - 1 ELSE NULL
        BY <1>5, <4>1
      <4>3. 2 <= s <=> i # m - 2
        BY <2>2, <4>1
      <4>4. i # m - 2 => fr[i + 1] = s - 1
        <5>1. ASSUME i # m - 2
              PROVE  fr[i + 1] = s - 1
          <6>1. i + 1 \in 1 .. m - 2 /\ m - 1 - (i + 1) = (m - 1 - i) - 1
            BY <2>2, <5>1
          <6>2. fr[i + 1] = m - 1 - (i + 1)
            BY <1>9, <6>1
          <6> QED
            BY <4>1, <6>1, <6>2
        <5> QED
          BY <5>1
      <4>5. l.next[s] = IF i = m - 2 THEN NULL ELSE fr[i + 1]
        BY <4>2, <4>3, <4>4
      <4> QED
        BY <4>5 DEF s
    <3> QED
      BY <3>1
  <2>4. l.free = IF fr = <<>> THEN NULL ELSE fr[1]
    <3>1. fr = <<>> <=> m - 2 = 0
      BY <1>9, SeqFacts
    <3>2. CASE m - 2 = 0
      <4>1. ~(2 <= m - 1)
        BY <1>1, <3>2
      <4> QED
        BY <1>4, <3>1, <3>2, <4>1
    <3>3. CASE m - 2 # 0
      <4>1. 2 <= m - 1 /\ 1 \in 1 .. m - 2 /\ m - 1 - 1 = m - 2
        BY <1>1, <3>3
      <4>2. fr[1] = m - 1 - 1
        BY <1>9, <4>1
      <4> QED
        BY <1>4, <3>1, <3>3, <4>1, <4>2
    <3> QED
      BY <3>2, <3>3
  <2> QED
    BY <1>5, <1>9, <2>1, <2>3, <2>4 DEF List
<1>12. \A x : In(x, asl) => ~In(x, fr)
  BY <1>8, <1>9 DEF In
<1>13. l.add[m] = 0 /\ l.add[m - 1] = NULL /\ 0 < NULL
  <2>1. 0 < NULL
    BY Descriptors, RingsAssumption
  <2> QED
    BY <1>2, <1>6, <2>1
<1>14. \A i, j \in 1 .. Len(asl) : i < j => l.add[asl[i]] < l.add[asl[j]]
  <2>1. ASSUME NEW i \in 1 .. 2, NEW j \in 1 .. 2, i < j
        PROVE  i = 1 /\ j = 2
    BY <2>1
  <2> QED
    BY <1>8, <1>13, <2>1
<1>15. Shape(l, asl, fr)
  <2>1. Len(asl) >= 2 /\ Len(asl) + Len(fr) = MAXPROC + 2
    BY <1>1, <1>8, <1>9
  <2>2. l.add[asl[1]] = 0 /\ l.add[asl[Len(asl)]] = NULL
    BY <1>8, <1>13
  <2> QED
    BY <1>7, <1>10, <1>11, <1>12, <1>14, <2>1, <2>2 DEF Shape
<1>16. \A i \in 2 .. Len(asl) - 1 : FALSE
  BY <1>8
<1>17. Waited(l, asl)
  BY <1>16 DEF Waited
<1>18. \A a \in Addr : TailOf(l)[a] = NULL
  <2>1. ASSUME NEW a \in Addr
        PROVE  ~Active(l, a)
    BY <1>15, <1>16, ActiveIs
  <2> QED
    BY <1>15, <2>1, EntryIs
<1> QED
  BY <1>15, <1>17, <1>18 DEF AslOK, l

-----------------------------------------------------------------------------
(* The lists K of children, linked both ways; a pcb without a parent has   *)
(* no siblings.                                                            *)
Siblings(next, prev, prnt, child, s, q) ==
    /\ List(next, child[q], s)
    /\ \A i \in 1 .. Len(s) :
          /\ prnt[s[i]] = q
          /\ prev[s[i]] = IF i = 1 THEN NULL ELSE s[i - 1]

TreeOK(next, prev, prnt, child, K) ==
    /\ next \in Links /\ prev \in Links /\ prnt \in Links /\ child \in Links
    /\ K \in [Proc -> Seq(Proc)]
    /\ \A q \in Proc : Siblings(next, prev, prnt, child, K[q], q)
    /\ \A p \in Proc : prnt[p] = NULL => next[p] = NULL /\ prev[p] = NULL

(* What TreeOK says of the list of one parent.                             *)
LEMMA TreeParts ==
    ASSUME NEW next, NEW prev, NEW prnt, NEW child, NEW K,
           TreeOK(next, prev, prnt, child, K), NEW q \in Proc
    PROVE  LET s == K[q]
               n == Len(s)
           IN  /\ s \in Seq(Proc) /\ Simple(s) /\ n \in Nat
               /\ s = <<>> <=> n = 0
               /\ Chain(next, child[q]) = s
               /\ child[q] = IF n = 0 THEN NULL ELSE s[1]
               /\ child[q] = NULL <=> s = <<>>
               /\ \A i \in 1 .. n : /\ s[i] \in Proc /\ s[i] # NULL
                                    /\ prnt[s[i]] = q
                                    /\ next[s[i]] = IF i = n THEN NULL ELSE s[i + 1]
                                    /\ prev[s[i]] = IF i = 1 THEN NULL ELSE s[i - 1]
               /\ \A i, j \in 1 .. n : s[i] = s[j] => i = j
               /\ \A x : In(x, s) => x \in Proc /\ prnt[x] = q
<1> DEFINE s == K[q]
           n == Len(s)
<1>1. /\ next \in Links /\ child \in Links /\ s \in Seq(Proc)
      /\ List(next, child[q], s)
      /\ \A i \in 1 .. n : /\ prnt[s[i]] = q
                           /\ prev[s[i]] = IF i = 1 THEN NULL ELSE s[i - 1]
  BY DEF TreeOK, Siblings
<1> HIDE DEF s
<1>2. /\ n \in Nat /\ (s = <<>> <=> n = 0) /\ \A i \in 1 .. n : s[i] \in Proc
  BY <1>1, SeqFacts
<1>3. IsFiniteSet(Proc) /\ NULL \notin Proc
  BY RingsAssumption
<1>4. Chain(next, child[q]) = s
  BY <1>1, <1>3, ListIsChain DEF Links
<1>5. /\ Simple(s) /\ child[q] = IF s = <<>> THEN NULL ELSE s[1]
      /\ \A i \in 1 .. n : next[s[i]] = IF i = n THEN NULL ELSE s[i + 1]
  BY <1>1 DEF List
<1>6. child[q] = NULL <=> s = <<>>
  <2>1. s # <<>> => 1 \in 1 .. n
    BY <1>2
  <2> QED
    BY <1>2, <1>3, <1>5, <2>1
<1>7. \A i, j \in 1 .. n : s[i] = s[j] => i = j
  BY <1>5 DEF Simple
<1>8. \A x : In(x, s) => x \in Proc /\ prnt[x] = q
  BY <1>1, <1>2 DEF In
<1> QED
  BY <1>1, <1>2, <1>3, <1>4, <1>5, <1>6, <1>7, <1>8 DEF s

(* One list changes: the links of the others' members stay.                *)
LEMMA TreeChange ==
    ASSUME NEW next, NEW prev, NEW prnt, NEW child, NEW K,
           TreeOK(next, prev, prnt, child, K), NEW q \in Proc, NEW t \in Seq(Proc),
           NEW n2 \in Links, NEW v2 \in Links, NEW r2 \in Links, NEW c2 \in Links,
           \A x \in Proc : prnt[x] # q /\ prnt[x] # NULL =>
               n2[x] = next[x] /\ v2[x] = prev[x] /\ r2[x] = prnt[x],
           \A z \in Proc : z # q => c2[z] = child[z],
           Siblings(n2, v2, r2, c2, t, q),
           \A x \in Proc : r2[x] = NULL => n2[x] = NULL /\ v2[x] = NULL
    PROVE  TreeOK(n2, v2, r2, c2, [K EXCEPT ![q] = t])
<1> DEFINE L == [K EXCEPT ![q] = t]
<1>1. /\ K \in [Proc -> Seq(Proc)]
      /\ next \in Links
  BY DEF TreeOK
<1>2. L \in [Proc -> Seq(Proc)] /\ L[q] = t /\ \A z \in Proc : z # q => L[z] = K[z]
  BY <1>1
<1> HIDE DEF L
<1>3. ASSUME NEW z \in Proc, z # q
      PROVE  Siblings(n2, v2, r2, c2, K[z], z)
  <2> DEFINE s == K[z]
  <2>1. /\ List(next, child[z], s)
        /\ \A i \in 1 .. Len(s) : /\ prnt[s[i]] = z
                                  /\ prev[s[i]] = IF i = 1 THEN NULL ELSE s[i - 1]
        /\ s \in Seq(Proc)
    BY DEF TreeOK, Siblings
  <2> HIDE DEF s
  <2>2. \A i \in 1 .. Len(s) : s[i] \in Proc
    BY <2>1, SeqFacts
  <2>3. z # NULL /\ c2[z] = child[z]
    BY <1>3, RingsAssumption
  <2>4. \A i \in 1 .. Len(s) : n2[s[i]] = next[s[i]] /\ v2[s[i]] = prev[s[i]]
                               /\ r2[s[i]] = prnt[s[i]]
    BY <1>3, <2>1, <2>2, <2>3
  <2>5. DOMAIN n2 = DOMAIN next
    BY <1>1 DEF Links
  <2>6. List(n2, c2[z], s)
    BY <2>1, <2>3, <2>4, <2>5 DEF List
  <2> QED
    BY <2>1, <2>4, <2>6 DEF Siblings, s
<1>4. \A z \in Proc : Siblings(n2, v2, r2, c2, L[z], z)
  BY <1>2, <1>3
<1>5. TreeOK(n2, v2, r2, c2, L)
  BY <1>2, <1>4 DEF TreeOK
<1> QED
  BY <1>5 DEF L

(* The elements of a sequence with a new first one.                        *)
LEMMA ConsFacts ==
    ASSUME NEW S, NEW s \in Seq(S), NEW p \in S
    PROVE  LET t == <<p>> \o s
           IN  /\ t \in Seq(S) /\ Len(t) = Len(s) + 1 /\ t[1] = p
               /\ \A i \in 2 .. Len(s) + 1 : t[i] = s[i - 1]
<1> DEFINE t == <<p>> \o s
           u == <<p>>
<1>1. u \in Seq(S) /\ Len(u) = 1 /\ u[1] = p /\ Len(s) \in Nat
  BY LenProperties
<1> HIDE DEF u
<1>2. /\ u \o s \in Seq(S) /\ Len(u \o s) = Len(u) + Len(s)
      /\ \A i \in 1 .. Len(u) + Len(s) :
            (u \o s)[i] = IF i <= Len(u) THEN u[i] ELSE s[i - Len(u)]
  BY <1>1, ConcatProperties
<1>3. /\ u \o s \in Seq(S) /\ Len(u \o s) = Len(s) + 1 /\ (u \o s)[1] = p
      /\ \A i \in 2 .. Len(s) + 1 : (u \o s)[i] = s[i - 1]
  <2> DEFINE n == Len(s)
             v == u \o s
  <2>1. /\ n \in Nat /\ v \in Seq(S) /\ Len(v) = 1 + n
        /\ \A i \in 1 .. 1 + n : v[i] = IF i <= 1 THEN u[i] ELSE s[i - 1]
    BY <1>1, <1>2
  <2> HIDE DEF n, v
  <2>2. 1 \in 1 .. 1 + n /\ \A i \in 2 .. n + 1 : i \in 1 .. 1 + n /\ ~(i <= 1)
    BY <2>1
  <2>3. v \in Seq(S) /\ Len(v) = n + 1 /\ v[1] = p
        /\ \A i \in 2 .. n + 1 : v[i] = s[i - 1]
    BY <1>1, <2>1, <2>2
  <2> QED
    BY <2>3 DEF n, v
<1> QED
  BY <1>3 DEF u

(* insertChild puts a child in front.                                      *)
LEMMA TreeInsert ==
    ASSUME NEW next, NEW prev, NEW prnt, NEW child, NEW K,
           TreeOK(next, prev, prnt, child, K), NEW q \in Proc, NEW p \in Proc,
           prnt[p] = NULL, NEW n2, NEW v2,
           child[q] = NULL => n2 = next /\ v2 = prev,
           child[q] # NULL => /\ n2 = [next EXCEPT ![p] = child[q]]
                              /\ v2 = [prev EXCEPT ![child[q]] = p]
    PROVE  TreeOK(n2, v2, [prnt EXCEPT ![p] = q], [child EXCEPT ![q] = p],
                  [K EXCEPT ![q] = <<p>> \o @])
<1> DEFINE s == K[q]
           n == Len(s)
           t == <<p>> \o s
           r2 == [prnt EXCEPT ![p] = q]
           c2 == [child EXCEPT ![q] = p]
<1>1. /\ next \in Links /\ prev \in Links /\ prnt \in Links /\ child \in Links
      /\ \A x \in Proc : prnt[x] = NULL => next[x] = NULL /\ prev[x] = NULL
      /\ K \in [Proc -> Seq(Proc)]
  BY DEF TreeOK
<1>2. /\ s \in Seq(Proc) /\ Simple(s) /\ n \in Nat
      /\ child[q] = IF n = 0 THEN NULL ELSE s[1]
      /\ child[q] = NULL <=> n = 0
      /\ \A i \in 1 .. n : /\ s[i] \in Proc /\ s[i] # NULL
                           /\ prnt[s[i]] = q
                           /\ next[s[i]] = IF i = n THEN NULL ELSE s[i + 1]
                           /\ prev[s[i]] = IF i = 1 THEN NULL ELSE s[i - 1]
      /\ \A i, j \in 1 .. n : s[i] = s[j] => i = j
  BY TreeParts
<1>3. q # NULL /\ p # NULL /\ next[p] = NULL /\ prev[p] = NULL
  BY <1>1, RingsAssumption
<1>4. t \in Seq(Proc) /\ Len(t) = n + 1 /\ t[1] = p
      /\ \A i \in 2 .. n + 1 : t[i] = s[i - 1]
  <2> HIDE DEF s
  <2> QED
    BY <1>2, ConsFacts
<1> HIDE DEF t, s, n
<1>5. \A i \in 1 .. n : s[i] # p
  BY <1>2, <1>3
<1>6. \A i \in 1 .. n + 1 : i # 1 => i \in 2 .. n + 1 /\ i - 1 \in 1 .. n /\ t[i] = s[i - 1]
  BY <1>2, <1>4
<1>7. r2 \in Links /\ c2 \in Links /\ r2[p] = q /\ c2[q] = p
      /\ \A x \in Proc : x # p => r2[x] = prnt[x]
      /\ \A z \in Proc : z # q => c2[z] = child[z]
  BY <1>1 DEF Links
<1> HIDE DEF r2, c2
<1>8. /\ n2 \in Links /\ v2 \in Links
      /\ n2[p] = child[q] /\ v2[p] = NULL
      /\ \A x \in Proc : x # p => n2[x] = next[x]
      /\ \A x \in Proc : x # child[q] => v2[x] = prev[x]
      /\ n # 0 => v2[s[1]] = p
  <2>1. CASE child[q] = NULL
    BY <1>1, <1>2, <1>3, <2>1
  <2>2. CASE child[q] # NULL
    <3>1. n # 0 /\ 1 \in 1 .. n /\ child[q] = s[1] /\ s[1] \in Proc /\ s[1] # p
      BY <1>2, <1>5, <2>2
    <3>2. /\ n2 = [next EXCEPT ![p] = child[q]]
          /\ v2 = [prev EXCEPT ![child[q]] = p]
      BY <2>2
    <3> QED
      BY <1>1, <1>3, <3>1, <3>2 DEF Links
  <2> QED
    BY <2>1, <2>2
<1>9. Simple(t)
  <2>1. ASSUME NEW i \in 1 .. n + 1, NEW j \in 1 .. n + 1, t[i] = t[j]
        PROVE  i = j
    <3>1. CASE i = 1 \/ j = 1
      BY <1>4, <1>5, <1>6, <2>1, <3>1
    <3>2. CASE i # 1 /\ j # 1
      <4>1. s[i - 1] = s[j - 1] /\ i - 1 \in 1 .. n /\ j - 1 \in 1 .. n
        BY <1>6, <2>1, <3>2
      <4>2. i - 1 = j - 1
        BY <1>2, <4>1
      <4> QED
        BY <1>2, <4>2
    <3> QED
      BY <3>1, <3>2
  <2> QED
    BY <1>4, <2>1 DEF Simple
<1>10. List(n2, c2[q], t)
  <2>1. ASSUME NEW i \in 1 .. n + 1
        PROVE  n2[t[i]] = IF i = n + 1 THEN NULL ELSE t[i + 1]
    <3>1. CASE i = 1
      <4>1. n # 0 => 2 \in 2 .. n + 1 /\ 2 - 1 = 1
        BY <1>2
      <4> QED
        BY <1>2, <1>4, <1>8, <3>1, <4>1
    <3>2. CASE i # 1
      <4>1. /\ t[i] = s[i - 1] /\ i - 1 \in 1 .. n
            /\ i = n + 1 <=> i - 1 = n
            /\ i # n + 1 => t[i + 1] = s[(i - 1) + 1]
        <5>1. i \in 2 .. n + 1 /\ (i # n + 1 => i + 1 \in 2 .. n + 1)
              /\ (i + 1) - 1 = (i - 1) + 1 /\ (i = n + 1 <=> i - 1 = n)
          BY <1>2, <3>2
        <5> QED
          BY <1>4, <1>6, <3>2, <5>1
      <4>2. s[i - 1] \in Proc /\ s[i - 1] # p
        BY <1>2, <1>5, <4>1
      <4> QED
        BY <1>2, <1>8, <4>1, <4>2
    <3> QED
      BY <3>1, <3>2
  <2>2. t # <<>>
    BY <1>2, <1>4, SeqFacts
  <2>3. DOMAIN n2 = Proc
    BY <1>8 DEF Links
  <2> QED
    BY <1>4, <1>7, <1>9, <2>1, <2>2, <2>3 DEF List
<1>11. Siblings(n2, v2, r2, c2, t, q)
  <2>1. ASSUME NEW i \in 1 .. n + 1
        PROVE  r2[t[i]] = q /\ v2[t[i]] = IF i = 1 THEN NULL ELSE t[i - 1]
    <3>1. CASE i = 1
      BY <1>4, <1>7, <1>8, <3>1
    <3>2. CASE i = 2
      <4>1. t[i] = s[1] /\ 1 \in 1 .. n /\ n # 0 /\ i - 1 = 1
        BY <1>2, <1>6, <3>2
      <4> QED
        BY <1>2, <1>4, <1>5, <1>7, <1>8, <3>2, <4>1
    <3>3. CASE i # 1 /\ i # 2
      <4>1. /\ t[i] = s[i - 1] /\ i - 1 \in 1 .. n /\ i - 1 # 1
            /\ t[i - 1] = s[(i - 1) - 1] /\ n # 0 /\ 1 \in 1 .. n
        <5>1. i - 1 \in 2 .. n + 1 /\ i \in 2 .. n + 1 /\ n # 0 /\ 1 \in 1 .. n
              /\ i - 1 \in 1 .. n /\ i - 1 # 1
          BY <1>2, <3>3
        <5> QED
          BY <1>4, <5>1
      <4>2. s[i - 1] \in Proc /\ s[i - 1] # p /\ s[i - 1] # child[q]
        BY <1>2, <1>5, <4>1
      <4>3. v2[s[i - 1]] = prev[s[i - 1]] /\ r2[s[i - 1]] = prnt[s[i - 1]]
        BY <1>7, <1>8, <4>2
      <4> QED
        BY <1>2, <3>3, <4>1, <4>3
    <3> QED
      BY <3>1, <3>2, <3>3
  <2> QED
    BY <1>4, <1>10, <2>1 DEF Siblings
<1>12. \A x \in Proc : prnt[x] # q /\ prnt[x] # NULL =>
           n2[x] = next[x] /\ v2[x] = prev[x] /\ r2[x] = prnt[x]
  <2>1. n # 0 => prnt[child[q]] = q
    <3>1. n # 0 => 1 \in 1 .. n
      BY <1>2
    <3> QED
      BY <1>2, <3>1
  <2>2. n = 0 => child[q] = NULL
    BY <1>2
  <2> QED
    BY <1>7, <1>8, <2>1, <2>2, RingsAssumption
<1>13. \A x \in Proc : r2[x] = NULL => n2[x] = NULL /\ v2[x] = NULL
  <2>1. n # 0 => prnt[child[q]] = q
    <3>1. n # 0 => 1 \in 1 .. n
      BY <1>2
    <3> QED
      BY <1>2, <3>1
  <2>2. n = 0 => child[q] = NULL
    BY <1>2
  <2>3. ASSUME NEW x \in Proc, r2[x] = NULL
        PROVE  n2[x] = NULL /\ v2[x] = NULL
    <3>1. x # p /\ prnt[x] = NULL
      BY <1>3, <1>7, <2>3
    <3>2. next[x] = NULL /\ prev[x] = NULL
      BY <1>1, <3>1
    <3>3. x # child[q]
      BY <1>3, <2>1, <2>2, <3>1, RingsAssumption
    <3> QED
      BY <1>8, <3>1, <3>2, <3>3
  <2> QED
    BY <2>3
<1>14. TreeOK(n2, v2, r2, c2, [K EXCEPT ![q] = t])
  BY <1>4, <1>7, <1>8, <1>11, <1>12, <1>13, TreeChange
<1> QED
  BY <1>14 DEF r2, c2, t, s

(* A child leaves the list: its neighbours, or its parent, get its links.  *)
LEMMA TreeOut ==
    ASSUME NEW next, NEW prev, NEW prnt, NEW child, NEW K,
           TreeOK(next, prev, prnt, child, K), NEW q \in Proc,
           NEW p, In(p, K[q]), NEW n2, NEW v2, NEW c2,
           child[q] = p => n2 = next /\ c2 = [child EXCEPT ![q] = next[p]],
           child[q] # p => n2 = [next EXCEPT ![prev[p]] = next[p]] /\ c2 = child,
           v2 = IF next[p] = NULL THEN prev ELSE [prev EXCEPT ![next[p]] = prev[p]]
    PROVE  TreeOK(n2, v2, prnt, c2, [K EXCEPT ![q] = RemoveFirst(@, p)])
<1> DEFINE s == K[q]
           n == Len(s)
           t == RemoveFirst(s, p)
<1>1. /\ next \in Links /\ prev \in Links /\ prnt \in Links /\ child \in Links
      /\ \A x \in Proc : prnt[x] = NULL => next[x] = NULL /\ prev[x] = NULL
      /\ K \in [Proc -> Seq(Proc)]
  BY DEF TreeOK
<1>2. /\ s \in Seq(Proc) /\ Simple(s) /\ n \in Nat
      /\ child[q] = IF n = 0 THEN NULL ELSE s[1]
      /\ \A i \in 1 .. n : /\ s[i] \in Proc /\ s[i] # NULL
                           /\ prnt[s[i]] = q
                           /\ next[s[i]] = IF i = n THEN NULL ELSE s[i + 1]
                           /\ prev[s[i]] = IF i = 1 THEN NULL ELSE s[i - 1]
      /\ \A i, j \in 1 .. n : s[i] = s[j] => i = j
  BY TreeParts
<1>3. q # NULL
  BY RingsAssumption
<1>4. PICK k \in 1 .. n : s[k] = p
  BY DEF In
<1>5. t \in Seq(Proc) /\ Len(t) = n - 1
      /\ \A i \in 1 .. n - 1 : t[i] = IF i < k THEN s[i] ELSE s[i + 1]
  BY <1>2, <1>4, RemoveOnly
<1> HIDE DEF t, s, n
<1>6. /\ p \in Proc /\ prnt[p] = q /\ n >= 1 /\ 1 \in 1 .. n
      /\ next[p] = IF k = n THEN NULL ELSE s[k + 1]
      /\ prev[p] = IF k = 1 THEN NULL ELSE s[k - 1]
      /\ k # n => /\ k + 1 \in 1 .. n /\ s[k + 1] \in Proc
                  /\ s[k + 1] # NULL /\ prnt[s[k + 1]] = q
      /\ k # 1 => /\ k - 1 \in 1 .. n /\ s[k - 1] \in Proc
                  /\ s[k - 1] # NULL /\ prnt[s[k - 1]] = q
      /\ child[q] = p <=> k = 1
  <2>1. n >= 1 /\ 1 \in 1 .. n /\ (k # n => k + 1 \in 1 .. n)
        /\ (k # 1 => k - 1 \in 1 .. n)
    BY <1>2
  <2>2. child[q] = s[1]
    BY <1>2, <2>1
  <2>3. child[q] = p <=> k = 1
    BY <1>2, <1>4, <2>1, <2>2
  <2> QED
    BY <1>2, <1>4, <2>1, <2>3
<1>7. /\ n2 \in Links /\ v2 \in Links /\ c2 \in Links
      /\ k # 1 => n2[s[k - 1]] = next[p] /\ c2[q] = child[q]
      /\ k = 1 => c2[q] = next[p] /\ n2 = next
      /\ k # n => v2[s[k + 1]] = prev[p]
      /\ \A x \in Proc : k # 1 /\ x # s[k - 1] => n2[x] = next[x]
      /\ \A x \in Proc : (k # n => x # s[k + 1]) => v2[x] = prev[x]
      /\ \A z \in Proc : z # q => c2[z] = child[z]
  <2>1. /\ n2 \in Links /\ c2 \in Links
        /\ k # 1 => n2[s[k - 1]] = next[p] /\ c2[q] = child[q]
        /\ k = 1 => c2[q] = next[p] /\ n2 = next
        /\ \A x \in Proc : k # 1 /\ x # s[k - 1] => n2[x] = next[x]
        /\ \A z \in Proc : z # q => c2[z] = child[z]
    <3>1. CASE k = 1
      <4>1. n2 = next /\ c2 = [child EXCEPT ![q] = next[p]]
        BY <1>6, <3>1
      <4> QED
        BY <1>1, <1>6, <3>1, <4>1 DEF Links
    <3>2. CASE k # 1
      <4>1. n2 = [next EXCEPT ![s[k - 1]] = next[p]] /\ c2 = child
        BY <1>6, <3>2
      <4> QED
        BY <1>1, <1>6, <3>2, <4>1 DEF Links
    <3> QED
      BY <3>1, <3>2
  <2>2. /\ v2 \in Links /\ (k # n => v2[s[k + 1]] = prev[p])
        /\ \A x \in Proc : (k # n => x # s[k + 1]) => v2[x] = prev[x]
    <3>1. CASE k = n
      BY <1>1, <1>6, <3>1
    <3>2. CASE k # n
      <4>1. v2 = [prev EXCEPT ![s[k + 1]] = prev[p]]
        BY <1>6, <3>2
      <4> QED
        BY <1>1, <1>6, <3>2, <4>1 DEF Links
    <3> QED
      BY <3>1, <3>2
  <2> QED
    BY <2>1, <2>2
(* Where the others were.                                                  *)
<1> DEFINE old(j) == IF j < k THEN j ELSE j + 1
<1>8. \A j \in 1 .. n - 1 : /\ old(j) \in 1 .. n /\ old(j) # k
                            /\ t[j] = s[old(j)] /\ t[j] \in Proc /\ t[j] # p
  BY <1>2, <1>4, <1>5
<1>9. /\ \A i, j \in 1 .. n - 1 : old(i) = old(j) => i = j
      /\ \A j \in 1 .. n - 1 :
            /\ old(j) = k - 1 <=> j = k - 1
            /\ old(j) = k + 1 <=> j = k
            /\ j = n - 1 => old(j) = n \/ (k = n /\ old(j) = k - 1)
            /\ j # n - 1 => old(j) # n /\ j + 1 \in 1 .. n - 1
            /\ j # n - 1 /\ old(j) # k - 1 => old(j + 1) = old(j) + 1
            /\ j # 1 => j - 1 \in 1 .. n - 1
            /\ j # 1 /\ old(j) # k + 1 => old(j - 1) = old(j) - 1
            /\ j # 1 => old(j) # 1
            /\ j = 1 => old(j) = 1 \/ (k = 1 /\ old(j) = k + 1)
  <2>1. n \in Nat /\ k \in 1 .. n
    BY <1>2
  <2>2. \A i, j \in 1 .. n - 1 : old(i) = old(j) => i = j
    BY <2>1
  <2>3. \A j \in 1 .. n - 1 : /\ old(j) = k - 1 <=> j = k - 1
                              /\ old(j) = k + 1 <=> j = k
                              /\ j = n - 1 => old(j) = n \/ (k = n /\ old(j) = k - 1)
    BY <2>1
  <2>4. \A j \in 1 .. n - 1 :
            /\ j # n - 1 => old(j) # n /\ j + 1 \in 1 .. n - 1
            /\ j # n - 1 /\ old(j) # k - 1 => old(j + 1) = old(j) + 1
    BY <2>1
  <2>5. \A j \in 1 .. n - 1 :
            /\ j # 1 => j - 1 \in 1 .. n - 1
            /\ j # 1 /\ old(j) # k + 1 => old(j - 1) = old(j) - 1
    BY <2>1
  <2>6. \A j \in 1 .. n - 1 :
            /\ j # 1 => old(j) # 1
            /\ j = 1 => old(j) = 1 \/ (k = 1 /\ old(j) = k + 1)
    BY <2>1
  <2> HIDE DEF old
  <2> QED
    BY <2>2, <2>3, <2>4, <2>5, <2>6
<1>10. /\ k - 1 \in 1 .. n - 1 => old(k - 1) = k - 1
       /\ k \in 1 .. n - 1 => old(k) = k + 1
  BY <1>2
<1> HIDE DEF old
<1>11. Simple(t)
  <2>1. ASSUME NEW i \in 1 .. n - 1, NEW j \in 1 .. n - 1, t[i] = t[j]
        PROVE  i = j
    <3>1. old(i) = old(j)
      BY <1>2, <1>8, <2>1
    <3> QED
      BY <1>9, <3>1
  <2> QED
    BY <1>5, <2>1 DEF Simple
<1>12. ASSUME NEW j \in 1 .. n - 1
       PROVE  n2[t[j]] = IF j = n - 1 THEN NULL ELSE t[j + 1]
  <2>1. CASE old(j) = k - 1
    <3>1. j = k - 1 /\ k # 1 /\ t[j] = s[k - 1] /\ n2[t[j]] = next[p]
      BY <1>2, <1>7, <1>8, <1>9, <2>1
    <3>2. CASE k = n
      <4>1. j = n - 1
        BY <3>1, <3>2
      <4> QED
        BY <1>6, <3>1, <3>2, <4>1
    <3>3. CASE k # n
      <4>1. j # n - 1 /\ j + 1 = k /\ k \in 1 .. n - 1
        BY <1>2, <3>1, <3>3
      <4>2. t[k] = s[k + 1]
        BY <1>8, <1>10, <4>1
      <4> QED
        BY <1>6, <3>1, <3>3, <4>1, <4>2
    <3> QED
      BY <3>2, <3>3
  <2>2. CASE old(j) # k - 1
    <3>1. n2[t[j]] = next[t[j]]
      <4>1. k # 1 => s[old(j)] # s[k - 1]
        BY <1>2, <1>6, <1>8, <2>2
      <4> QED
        BY <1>7, <1>8, <4>1
    <3>2. next[t[j]] = IF old(j) = n THEN NULL ELSE s[old(j) + 1]
      BY <1>2, <1>8
    <3>3. CASE j = n - 1
      BY <1>9, <2>2, <3>1, <3>2, <3>3
    <3>4. CASE j # n - 1
      <4>1. t[j + 1] = s[old(j) + 1] /\ old(j) # n
        BY <1>8, <1>9, <2>2, <3>4
      <4> QED
        BY <3>1, <3>2, <3>4, <4>1
    <3> QED
      BY <3>3, <3>4
  <2> QED
    BY <2>1, <2>2
<1>13. ASSUME NEW j \in 1 .. n - 1
       PROVE  v2[t[j]] = IF j = 1 THEN NULL ELSE t[j - 1]
  <2>1. CASE old(j) = k + 1
    <3>1. j = k /\ k # n /\ t[j] = s[k + 1] /\ v2[t[j]] = prev[p]
      <4>1. j = k /\ k + 1 \in 1 .. n /\ t[j] = s[k + 1]
        BY <1>8, <1>9, <2>1
      <4>2. k # n
        BY <1>2, <4>1
      <4> QED
        BY <1>7, <4>1, <4>2
    <3>2. CASE k = 1
      BY <1>6, <3>1, <3>2
    <3>3. CASE k # 1
      <4>1. j # 1 /\ j - 1 = k - 1 /\ k - 1 \in 1 .. n - 1
        BY <1>2, <3>1, <3>3
      <4>2. t[k - 1] = s[k - 1]
        BY <1>8, <1>10, <4>1
      <4> QED
        BY <1>6, <3>1, <3>3, <4>1, <4>2
    <3> QED
      BY <3>2, <3>3
  <2>2. CASE old(j) # k + 1
    <3>1. v2[t[j]] = prev[t[j]]
      <4>1. k # n => s[old(j)] # s[k + 1]
        BY <1>2, <1>6, <1>8, <2>2
      <4> QED
        BY <1>7, <1>8, <4>1
    <3>2. prev[t[j]] = IF old(j) = 1 THEN NULL ELSE s[old(j) - 1]
      BY <1>2, <1>8
    <3>3. CASE j = 1
      BY <1>9, <2>2, <3>1, <3>2, <3>3
    <3>4. CASE j # 1
      <4>1. t[j - 1] = s[old(j) - 1] /\ old(j) # 1
        BY <1>8, <1>9, <2>2, <3>4
      <4> QED
        BY <3>1, <3>2, <3>4, <4>1
    <3> QED
      BY <3>3, <3>4
  <2> QED
    BY <2>1, <2>2
<1>14. c2[q] = IF t = <<>> THEN NULL ELSE t[1]
  <2>1. t = <<>> <=> n = 1
    BY <1>2, <1>5, <1>6, SeqFacts
  <2>2. CASE n = 1
    <3>1. k = 1 /\ k = n
      BY <1>2, <2>2
    <3> QED
      BY <1>6, <1>7, <2>1, <2>2, <3>1
  <2>3. CASE n # 1
    <3>1. 1 \in 1 .. n - 1
      BY <1>2, <1>6, <2>3
    <3>2. CASE k = 1
      <4>1. t[1] = s[2] /\ k # n /\ k + 1 = 2
        BY <1>5, <2>3, <3>1, <3>2
      <4> QED
        BY <1>6, <1>7, <2>1, <2>3, <3>2, <4>1
    <3>3. CASE k # 1
      <4>1. t[1] = s[1] /\ child[q] = s[1]
        BY <1>2, <1>5, <1>6, <3>1, <3>3
      <4> QED
        BY <1>7, <2>1, <2>3, <3>3, <4>1
    <3> QED
      BY <3>2, <3>3
  <2> QED
    BY <2>2, <2>3
<1>15. Siblings(n2, v2, prnt, c2, t, q)
  <2>1. \A j \in 1 .. n - 1 : prnt[t[j]] = q
    BY <1>2, <1>8
  <2>2. DOMAIN n2 = Proc
    BY <1>7 DEF Links
  <2>3. List(n2, c2[q], t)
    BY <1>5, <1>11, <1>12, <1>14, <2>2 DEF List
  <2> QED
    BY <1>5, <1>13, <2>1, <2>3 DEF Siblings
<1> DEFINE r2 == prnt
           w2 == v2
           m2 == n2
           d2 == c2
<1>16. \A x \in Proc : prnt[x] # q /\ prnt[x] # NULL =>
           m2[x] = next[x] /\ w2[x] = prev[x] /\ r2[x] = prnt[x]
  BY <1>6, <1>7
<1>17. \A x \in Proc : r2[x] = NULL => m2[x] = NULL /\ w2[x] = NULL
  BY <1>1, <1>3, <1>6, <1>7
<1>18. /\ m2 \in Links /\ w2 \in Links /\ r2 \in Links /\ d2 \in Links
       /\ t \in Seq(Proc)
       /\ \A z \in Proc : z # q => d2[z] = child[z]
       /\ Siblings(m2, w2, r2, d2, t, q)
  BY <1>1, <1>5, <1>7, <1>15
<1> HIDE DEF r2, w2, m2, d2
<1>19. TreeOK(m2, w2, r2, d2, [K EXCEPT ![q] = t])
  BY <1>16, <1>17, <1>18, TreeChange
<1> QED
  BY <1>19 DEF t, s, r2, w2, m2, d2

(* The links of a pcb that has no children and is nobody's child.          *)
LEMMA TreeClear ==
    ASSUME NEW next, NEW prev, NEW prnt, NEW child, NEW K,
           TreeOK(next, prev, prnt, child, K), NEW p \in Proc,
           child[p] = NULL, \A q \in Proc : ~In(p, K[q])
    PROVE  TreeOK([next EXCEPT ![p] = NULL], [prev EXCEPT ![p] = NULL],
                  [prnt EXCEPT ![p] = NULL], [child EXCEPT ![p] = NULL], K)
<1> DEFINE n2 == [next EXCEPT ![p] = NULL]
           v2 == [prev EXCEPT ![p] = NULL]
           r2 == [prnt EXCEPT ![p] = NULL]
<1>1. /\ next \in Links /\ prev \in Links /\ prnt \in Links /\ child \in Links
      /\ \A x \in Proc : prnt[x] = NULL => next[x] = NULL /\ prev[x] = NULL
      /\ K \in [Proc -> Seq(Proc)]
  BY DEF TreeOK
<1>2. /\ n2 \in Links /\ v2 \in Links /\ r2 \in Links
      /\ n2[p] = NULL /\ v2[p] = NULL /\ r2[p] = NULL
      /\ \A x \in Proc : x # p => /\ n2[x] = next[x] /\ v2[x] = prev[x]
                                  /\ r2[x] = prnt[x]
      /\ [child EXCEPT ![p] = NULL] = child
  BY <1>1 DEF Links
<1> HIDE DEF n2, v2, r2
<1>3. ASSUME NEW z \in Proc
      PROVE  Siblings(n2, v2, r2, child, K[z], z)
  <2> DEFINE s == K[z]
  <2>1. /\ List(next, child[z], s)
        /\ \A i \in 1 .. Len(s) : /\ prnt[s[i]] = z
                                  /\ prev[s[i]] = IF i = 1 THEN NULL ELSE s[i - 1]
        /\ s \in Seq(Proc) /\ ~In(p, s)
    BY DEF TreeOK, Siblings
  <2> HIDE DEF s
  <2>2. \A i \in 1 .. Len(s) : s[i] \in Proc /\ s[i] # p
    BY <2>1, SeqFacts DEF In
  <2>3. \A i \in 1 .. Len(s) : n2[s[i]] = next[s[i]] /\ v2[s[i]] = prev[s[i]]
                               /\ r2[s[i]] = prnt[s[i]]
    BY <1>2, <2>2
  <2>4. DOMAIN n2 = DOMAIN next
    BY <1>1, <1>2 DEF Links
  <2>5. List(n2, child[z], s)
    BY <2>1, <2>3, <2>4 DEF List
  <2> QED
    BY <2>1, <2>3, <2>5 DEF Siblings, s
<1>4. TreeOK(n2, v2, r2, child, K)
  <2>1. \A x \in Proc : r2[x] = NULL => n2[x] = NULL /\ v2[x] = NULL
    BY <1>1, <1>2
  <2> QED
    BY <1>1, <1>2, <1>3, <2>1 DEF TreeOK
<1> QED
  BY <1>2, <1>4 DEF n2, v2, r2

(* To take out the first element leaves the tail.                          *)
LEMMA RemoveHead ==
    ASSUME NEW S, NEW s \in Seq(S), s # <<>>, Simple(s)
    PROVE  RemoveFirst(s, s[1]) = Tail(s) /\ Head(s) = s[1]
<1> DEFINE t == RemoveFirst(s, s[1])
           u == Tail(s)
           n == Len(s)
<1>1. n \in Nat /\ n # 0 /\ 1 \in 1 .. n
  BY SeqFacts
<1>2. t \in Seq(S) /\ Len(t) = n - 1 /\ \A i \in 1 .. n - 1 : t[i] = s[i + 1]
  <2>1. /\ t \in Seq(S) /\ Len(t) = n - 1
        /\ \A i \in 1 .. n - 1 : t[i] = IF i < 1 THEN s[i] ELSE s[i + 1]
    BY <1>1, RemoveOnly
  <2> QED
    BY <1>1, <2>1
<1>3. u \in Seq(S) /\ Len(u) = n - 1 /\ \A i \in 1 .. n - 1 : u[i] = s[i + 1]
      /\ Head(s) = s[1]
  BY HeadTailProperties
<1> HIDE DEF t, u, n
<1>4. t = u
  BY <1>2, <1>3, SeqEqual
<1> QED
  BY <1>3, <1>4 DEF t, u
=============================================================================
