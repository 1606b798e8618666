---------------------------- MODULE Phase1Proofs -----------------------------
(***************************************************************************)
(* Theorems about Phase1 for any number of pcbs and semaphores: pcb.c and  *)
(* asl.c keep their linked structures well formed and do to them what      *)
(* ProcLists says of sequences.  The invariant is that there are sequences *)
(* that the structures stand for.                                          *)
(***************************************************************************)
EXTENDS ListLemmas

(* The tail pointers of all queues, and what the structures stand for: the *)
(* sequences S of the queues and the lists K of children.                  *)
QTails(list, ready, l) ==
    [k \in QueueId |-> IF k = -1 THEN list ELSE IF k = 0 THEN ready
                       ELSE TailOf(l)[k]]

Represents(S, K) ==
    /\ RingsOK(p_next, p_prev, QTails(pcbList_h, readyQ, semds), S, held)
    /\ AslOK(semds)
    /\ TreeOK(p_sib_next, p_sib_prev, p_prnt, p_child, K)
    /\ p_semAdd \in [Proc -> Addr \cup {NULL}]
    /\ \A p : In(p, S[-1]) => p_child[p] = NULL /\ \A q \in Proc : ~In(p, K[q])

(* Every pcb is held or on one of the queues.                              *)
Complete(S) == \A p \in Proc : p \in held \/ \E k \in QueueId : In(p, S[k])

IInv == \E S, K : Represents(S, K) /\ Complete(S)

(* The names of the queues are different.                                  *)
LEMMA Ids == /\ -1 \in QueueId /\ 0 \in QueueId /\ -1 # 0
             /\ \A a \in Addr : a \in QueueId /\ a # -1 /\ a # 0
  BY RingsAssumption DEF QueueId

(* The tail pointers by the names of the queues.                           *)
LEMMA TailsAre ==
    ASSUME NEW list, NEW ready, NEW l
    PROVE  LET T == QTails(list, ready, l)
           IN  /\ T[-1] = list /\ T[0] = ready
               /\ \A a \in Addr : T[a] = TailOf(l)[a]
               /\ \A x : /\ QTails(x, ready, l) = [T EXCEPT ![-1] = x]
                         /\ QTails(list, x, l) = [T EXCEPT ![0] = x]
<1> DEFINE T == QTails(list, ready, l)
<1>1. /\ T[-1] = list /\ T[0] = ready
      /\ \A a \in Addr : T[a] = TailOf(l)[a]
  BY Ids DEF QTails
<1>2. ASSUME NEW x
      PROVE  /\ QTails(x, ready, l) = [T EXCEPT ![-1] = x]
             /\ QTails(list, x, l) = [T EXCEPT ![0] = x]
  BY Ids DEF QTails
<1> QED
  BY <1>1, <1>2

(* A change of one tail pointer on the ASL,                                *)
LEMMA TailsHave ==
    ASSUME NEW l, NEW f, NEW a \in Addr, NEW x,
           f = [TailOf(l) EXCEPT ![a] = x]
    PROVE  f[a] = x /\ \A b \in Addr : b # a => f[b] = TailOf(l)[b]
<1>1. DOMAIN TailOf(l) = Addr
  BY DEF TailOf
<1> QED
  BY <1>1

(* as a change of one of all tail pointers.                                *)
LEMMA TailsPut ==
    ASSUME NEW list, NEW ready, NEW l, NEW m, NEW a \in Addr, NEW x,
           TailOf(m)[a] = x,
           \A b \in Addr : b # a => TailOf(m)[b] = TailOf(l)[b]
    PROVE  QTails(list, ready, m) = [QTails(list, ready, l) EXCEPT ![a] = x]
<1>1. \A k \in QueueId : k = -1 \/ k = 0 \/ k \in Addr
  BY DEF QueueId
<1> QED
  BY <1>1, Ids DEF QTails

(* The abstract view of the queues.                                        *)
LEMMA View ==
    ASSUME NEW next, NEW prev, NEW list, NEW ready, NEW l, NEW S, NEW h,
           RingsOK(next, prev, QTails(list, ready, l), S, h), AslOK(l)
    PROVE  /\ Ring(next, list) = S[-1] /\ Ring(next, ready) = S[0]
           /\ [a \in Addr |-> IF Active(l, a) THEN Ring(next, Queue(l, a))
                              ELSE <<>>] = [a \in Addr |-> S[a]]
           /\ list = NULL <=> S[-1] = <<>>
           /\ ready = NULL <=> S[0] = <<>>
           /\ \A a \in Addr : Active(l, a) <=> S[a] # <<>>
<1> DEFINE T == QTails(list, ready, l)
<1>1. \A k \in QueueId : Ring(next, T[k]) = S[k] /\ (T[k] = NULL <=> S[k] = <<>>)
  BY RingsParts
<1>2. /\ T[-1] = list /\ T[0] = ready
      /\ \A a \in Addr : T[a] = TailOf(l)[a]
  BY TailsAre
<1> HIDE DEF T
<1>3. ASSUME NEW a \in Addr
      PROVE  /\ S[a] = IF Active(l, a) THEN Ring(next, Queue(l, a)) ELSE <<>>
             /\ Active(l, a) <=> S[a] # <<>>
  <2>1. /\ Active(l, a) <=> TailOf(l)[a] # NULL
        /\ Active(l, a) => Queue(l, a) = TailOf(l)[a]
    BY ActiveTail
  <2>2. a \in QueueId
    BY Ids
  <2> QED
    BY <1>1, <1>2, <2>1, <2>2
<1> QED
  BY <1>1, <1>2, <1>3, Ids

(* Tail pointers point into their rings.                                   *)
LEMMA TailsIn ==
    ASSUME NEW next, NEW prev, NEW T, NEW S, NEW h,
           RingsOK(next, prev, T, S, h), NEW k \in QueueId, T[k] # NULL
    PROVE  In(T[k], S[k]) /\ T[k] \in Proc /\ T[k] \notin h
<1>1. /\ IsRing(OfTail(next, prev, T[k]), S[k]) /\ S[k] \in Seq(Proc)
      /\ \A x : In(x, S[k]) => x \in Proc
      /\ T[k] = NULL <=> S[k] = <<>>
  BY RingsParts
<1>2. Len(S[k]) \in Nat /\ Len(S[k]) # 0
  BY <1>1, SeqFacts
<1>3. T[k] = S[k][Len(S[k])]
  BY <1>1 DEF IsRing, OfTail
<1>4. In(T[k], S[k])
  BY <1>2, <1>3 DEF In
<1> QED
  BY <1>1, <1>4 DEF RingsOK

(* A new tail pointer points to a pcb or is NULL.                          *)
LEMMA RingsTail ==
    ASSUME NEW next, NEW prev, NEW T, NEW tp, NEW S, NEW h, NEW k \in QueueId,
           RingsOK(next, prev, [T EXCEPT ![k] = tp], S, h), DOMAIN T = QueueId
    PROVE  tp \in Proc \cup {NULL}
<1>1. [T EXCEPT ![k] = tp] \in [QueueId -> Proc \cup {NULL}]
  BY DEF RingsOK
<1>2. [T EXCEPT ![k] = tp][k] = tp
  OBVIOUS
<1> QED
  BY <1>1, <1>2

-----------------------------------------------------------------------------
(* What each function does to the sequences.                               *)
LEMMA AllocStep ==
    ASSUME NEW S, NEW K, Represents(S, K), allocPcb
    PROVE  LET p == Head(S[-1])
               S2 == [S EXCEPT ![-1] = Tail(@)]
           IN  /\ Represents(S2, K)' /\ S[-1] # <<>>
               /\ held' = held \cup {p} /\ p \in Proc
               /\ p_semAdd' = [p_semAdd EXCEPT ![p] = NULL]
               /\ p_prnt' = [p_prnt EXCEPT ![p] = NULL]
<1> DEFINE p == Head(S[-1])
           S2 == [S EXCEPT ![-1] = Tail(@)]
           T == QTails(pcbList_h, readyQ, semds)
           r == removeProcQ(OfTail(p_next, p_prev, pcbList_h))
<1>1. /\ RingsOK(p_next, p_prev, T, S, held) /\ AslOK(semds)
      /\ TreeOK(p_sib_next, p_sib_prev, p_prnt, p_child, K)
      /\ p_semAdd \in [Proc -> Addr \cup {NULL}]
      /\ \A x : In(x, S[-1]) => p_child[x] = NULL /\ \A q \in Proc : ~In(x, K[q])
  BY DEF Represents
<1>2. T[-1] = pcbList_h
  BY TailsAre
<1>3. pcbList_h # NULL
  BY DEF allocPcb, emptyProcQ
<1>4. /\ S[-1] # <<>> /\ p_next[pcbList_h] = p /\ p \in Proc
      /\ RingsOK(r.next, r.prev, [T EXCEPT ![-1] = r.tp], S2, held \cup {p})
  <2> HIDE DEF T
  <2>1. T[-1] # NULL
    BY <1>2, <1>3
  <2> DEFINE u == removeProcQ(OfTail(p_next, p_prev, T[-1]))
  <2>2. /\ S[-1] # <<>> /\ p_next[T[-1]] = Head(S[-1]) /\ Head(S[-1]) \in Proc
        /\ RingsOK(u.next, u.prev, [T EXCEPT ![-1] = u.tp],
                   [S EXCEPT ![-1] = Tail(@)], held \cup {Head(S[-1])})
    BY <1>1, <2>1, Ids, RingsRemove
  <2> QED
    BY <1>2, <2>2
<1>5. headProcQ(p_next, pcbList_h) = p
  BY <1>3, <1>4 DEF headProcQ, emptyProcQ
<1>6. removeProcQ(Rings(pcbList_h)) = r
  BY DEF Rings, OfTail
<1> HIDE DEF r
<1>7. /\ p_next' = [r.next EXCEPT ![p] = NULL]
      /\ p_prev' = [r.prev EXCEPT ![p] = NULL]
      /\ pcbList_h' = r.tp
      /\ p_semAdd' = [p_semAdd EXCEPT ![p] = NULL]
      /\ p_prnt' = [p_prnt EXCEPT ![p] = NULL]
      /\ p_child' = [p_child EXCEPT ![p] = NULL]
      /\ p_sib_next' = [p_sib_next EXCEPT ![p] = NULL]
      /\ p_sib_prev' = [p_sib_prev EXCEPT ![p] = NULL]
      /\ held' = held \cup {p} /\ readyQ' = readyQ /\ semds' = semds
  BY <1>5, <1>6 DEF allocPcb, Hold
<1>8. QTails(pcbList_h', readyQ', semds') = [T EXCEPT ![-1] = r.tp]
  BY <1>7, TailsAre
<1>9. S[-1] \in Seq(Proc) /\ Simple(S[-1]) /\ S \in [QueueId -> Seq(Proc)]
  <2>1. S[-1] \in Seq(Proc) /\ Simple(S[-1])
    BY <1>1, Ids, RingsParts
  <2> QED
    BY <1>1, <2>1 DEF RingsOK
<1> HIDE DEF T
<1>10. /\ \A x : In(x, Tail(S[-1])) => In(x, S[-1]) /\ x # p
       /\ In(p, S[-1])
  BY <1>4, <1>9, InTail
<1>11. S2[-1] = Tail(S[-1])
  BY <1>9, Ids
<1> HIDE DEF p, S2
<1>12. RingsOK(p_next', p_prev', [T EXCEPT ![-1] = r.tp], S2, held \cup {p})
  <2>1. p \in held \cup {p}
    OBVIOUS
  <2> QED
    BY <1>4, <1>7, <2>1, RingsClear
<1>13. TreeOK(p_sib_next', p_sib_prev', p_prnt', p_child', K)
  BY <1>1, <1>4, <1>7, <1>10, TreeClear
<1>14. p_semAdd' \in [Proc -> Addr \cup {NULL}]
  BY <1>1, <1>7
<1>15. \A x : In(x, S2[-1]) => p_child'[x] = NULL /\ \A q \in Proc : ~In(x, K[q])
  <2>1. p_child \in [Proc -> Proc \cup {NULL}]
    BY <1>1 DEF TreeOK, Links
  <2> QED
    BY <1>1, <1>7, <1>10, <1>11, <2>1
<1>16. Represents(S2, K)'
  BY <1>1, <1>7, <1>8, <1>12, <1>13, <1>14, <1>15 DEF Represents
<1> QED
  BY <1>4, <1>7, <1>16 DEF p, S2

(* freePcb appends the pcb to the free list.                               *)
LEMMA FreeStep ==
    ASSUME NEW S, NEW K, Represents(S, K), NEW p, freePcb(p)
    PROVE  /\ Represents([S EXCEPT ![-1] = Append(@, p)], K)'
           /\ p \in held /\ held' = held \ {p} /\ p \in Proc
           /\ K[p] = <<>> /\ \A q \in Proc : ~In(p, K[q])
           /\ UNCHANGED <<p_semAdd, p_prnt>>
<1> DEFINE S2 == [S EXCEPT ![-1] = Append(@, p)]
           T == QTails(pcbList_h, readyQ, semds)
           r == insertProcQ(OfTail(p_next, p_prev, pcbList_h), p)
<1>1. /\ RingsOK(p_next, p_prev, T, S, held) /\ AslOK(semds)
      /\ TreeOK(p_sib_next, p_sib_prev, p_prnt, p_child, K)
      /\ p_semAdd \in [Proc -> Addr \cup {NULL}]
      /\ \A x : In(x, S[-1]) => p_child[x] = NULL /\ \A q \in Proc : ~In(x, K[q])
  BY DEF Represents
<1>2. T[-1] = pcbList_h
  BY TailsAre
<1>3. insertProcQ(Rings(pcbList_h), p) = r
  BY DEF Rings, OfTail
<1>4. /\ p \in held /\ p_child[p] = NULL /\ ~IsChild(p)
      /\ p_next' = r.next /\ p_prev' = r.prev /\ pcbList_h' = r.tp
      /\ held' = held \ {p}
      /\ p_semAdd' = p_semAdd /\ readyQ' = readyQ /\ semds' = semds
      /\ p_sib_next' = p_sib_next /\ p_sib_prev' = p_sib_prev
      /\ p_prnt' = p_prnt /\ p_child' = p_child
  BY <1>3 DEF freePcb, SetLinks, emptyChild, tree
<1>5. RingsOK(r.next, r.prev, [T EXCEPT ![-1] = r.tp], S2, held \ {p})
  <2> HIDE DEF T
  <2> QED
    BY <1>1, <1>2, <1>4, Ids, RingsInsert
<1> HIDE DEF r
<1>6. QTails(pcbList_h', readyQ', semds') = [T EXCEPT ![-1] = r.tp]
  BY <1>4, TailsAre
<1>7. p \in Proc /\ S \in [QueueId -> Seq(Proc)] /\ S[-1] \in Seq(Proc)
  BY <1>1, <1>4, Ids DEF RingsOK
<1>8. S2[-1] = Append(S[-1], p)
  BY <1>7, Ids
<1> HIDE DEF S2, T
<1>9. K[p] = <<>>
  BY <1>1, <1>4, <1>7, TreeParts
<1>10. ASSUME NEW q \in Proc
       PROVE  ~In(p, K[q])
  <2>1. K[q] \in Seq(Proc) /\ Chain(p_sib_next, p_child[q]) = K[q]
    BY <1>1, TreeParts
  <2>2. ~Contains(K[q], p)
    BY <1>4, <2>1 DEF IsChild, Kids
  <2> QED
    BY <2>1, <2>2, Members
<1>11. \A x : In(x, S2[-1]) => p_child[x] = NULL /\ \A q \in Proc : ~In(x, K[q])
  BY <1>1, <1>4, <1>7, <1>8, <1>10, InAppend
<1>12. Represents(S2, K)'
  BY <1>1, <1>4, <1>5, <1>6, <1>11 DEF Represents
<1> QED
  BY <1>4, <1>7, <1>9, <1>10, <1>12 DEF S2

(* The changes of the ready queue and of the queues of semaphores leave    *)
(* the free list and the tree as they are.                                 *)
LEMMA QueueStep ==
    ASSUME NEW S, NEW K, Represents(S, K), NEW S2, NEW k \in QueueId, k # -1,
           NEW t, S2 = [S EXCEPT ![k] = t],
           RingsOK(p_next', p_prev', QTails(pcbList_h', readyQ', semds'),
                   S2, held'),
           AslOK(semds'), UNCHANGED tree,
           p_semAdd' \in [Proc -> Addr \cup {NULL}]
    PROVE  Represents(S2, K)'
<1>1. /\ TreeOK(p_sib_next, p_sib_prev, p_prnt, p_child, K)
      /\ RingsOK(p_next, p_prev, QTails(pcbList_h, readyQ, semds), S, held)
      /\ \A x : In(x, S[-1]) => p_child[x] = NULL /\ \A q \in Proc : ~In(x, K[q])
  BY DEF Represents
<1>2. S2[-1] = S[-1]
  BY <1>1, Ids DEF RingsOK
<1>3. /\ p_sib_next' = p_sib_next /\ p_sib_prev' = p_sib_prev
      /\ p_prnt' = p_prnt /\ p_child' = p_child
  BY DEF tree
<1> QED
  BY <1>1, <1>2, <1>3 DEF Represents

(* insertProcQ appends the pcb to the ready queue.                         *)
LEMMA InsertReadyStep ==
    ASSUME NEW S, NEW K, Represents(S, K), NEW p, InsertReady(p)
    PROVE  /\ Represents([S EXCEPT ![0] = Append(@, p)], K)'
           /\ p \in held /\ held' = held \ {p} /\ p \in Proc
           /\ UNCHANGED <<p_semAdd, p_prnt>>
<1> DEFINE S2 == [S EXCEPT ![0] = Append(@, p)]
           T == QTails(pcbList_h, readyQ, semds)
           r == insertProcQ(OfTail(p_next, p_prev, readyQ), p)
<1>1. /\ RingsOK(p_next, p_prev, T, S, held) /\ AslOK(semds)
      /\ p_semAdd \in [Proc -> Addr \cup {NULL}]
  BY DEF Represents
<1>2. T[0] = readyQ
  BY TailsAre
<1>3. insertProcQ(Rings(readyQ), p) = r
  BY DEF Rings, OfTail
<1>4. /\ p \in held
      /\ p_next' = r.next /\ p_prev' = r.prev /\ readyQ' = r.tp
      /\ held' = held \ {p}
      /\ p_semAdd' = p_semAdd /\ pcbList_h' = pcbList_h /\ semds' = semds
      /\ UNCHANGED tree /\ p_prnt' = p_prnt
  BY <1>3 DEF InsertReady, SetLinks, tree
<1>5. RingsOK(r.next, r.prev, [T EXCEPT ![0] = r.tp], S2, held \ {p})
  <2> HIDE DEF T
  <2> QED
    BY <1>1, <1>2, <1>4, Ids, RingsInsert
<1> HIDE DEF r
<1>6. QTails(pcbList_h', readyQ', semds') = [T EXCEPT ![0] = r.tp]
  BY <1>4, TailsAre
<1>7. p \in Proc
  BY <1>1, <1>4 DEF RingsOK
<1>8. Represents(S2, K)'
  BY <1>1, <1>4, <1>5, <1>6, Ids, QueueStep
<1> QED
  BY <1>4, <1>7, <1>8

(* removeProcQ takes the head of the ready queue.                          *)
LEMMA RemoveReadyStep ==
    ASSUME NEW S, NEW K, Represents(S, K), RemoveReady
    PROVE  /\ Represents([S EXCEPT ![0] = Tail(@)], K)'
           /\ S[0] # <<>> /\ held' = held \cup {Head(S[0])}
           /\ UNCHANGED <<p_semAdd, p_prnt>>
<1> DEFINE p == Head(S[0])
           S2 == [S EXCEPT ![0] = Tail(@)]
           T == QTails(pcbList_h, readyQ, semds)
           r == removeProcQ(OfTail(p_next, p_prev, readyQ))
<1>1. /\ RingsOK(p_next, p_prev, T, S, held) /\ AslOK(semds)
      /\ p_semAdd \in [Proc -> Addr \cup {NULL}]
  BY DEF Represents
<1>2. T[0] = readyQ
  BY TailsAre
<1>3. readyQ # NULL
  BY DEF RemoveReady, emptyProcQ
<1>4. /\ S[0] # <<>> /\ p_next[readyQ] = p
      /\ RingsOK(r.next, r.prev, [T EXCEPT ![0] = r.tp], S2, held \cup {p})
  <2> HIDE DEF T
  <2>1. T[0] # NULL
    BY <1>2, <1>3
  <2> DEFINE u == removeProcQ(OfTail(p_next, p_prev, T[0]))
  <2>2. /\ S[0] # <<>> /\ p_next[T[0]] = Head(S[0]) /\ Head(S[0]) \in Proc
        /\ RingsOK(u.next, u.prev, [T EXCEPT ![0] = u.tp],
                   [S EXCEPT ![0] = Tail(@)], held \cup {Head(S[0])})
    BY <1>1, <2>1, Ids, RingsRemove
  <2> QED
    BY <1>2, <2>2
<1>5. headProcQ(p_next, readyQ) = p
  BY <1>3, <1>4 DEF headProcQ, emptyProcQ
<1>6. removeProcQ(Rings(readyQ)) = r
  BY DEF Rings, OfTail
<1> HIDE DEF r
<1>7. /\ p_next' = r.next /\ p_prev' = r.prev /\ readyQ' = r.tp
      /\ held' = held \cup {p}
      /\ p_semAdd' = p_semAdd /\ pcbList_h' = pcbList_h /\ semds' = semds
      /\ UNCHANGED tree /\ p_prnt' = p_prnt
  BY <1>5, <1>6 DEF RemoveReady, SetLinks, Hold, tree
<1>8. QTails(pcbList_h', readyQ', semds') = [T EXCEPT ![0] = r.tp]
  BY <1>7, TailsAre
<1>9. Represents(S2, K)'
  BY <1>1, <1>4, <1>7, <1>8, Ids, QueueStep
<1> QED
  BY <1>4, <1>7, <1>9

(* outProcQ takes the pcb out of the ready queue.                          *)
LEMMA OutReadyStep ==
    ASSUME NEW S, NEW K, Represents(S, K), NEW p, OutReady(p)
    PROVE  /\ Represents([S EXCEPT ![0] = RemoveFirst(@, p)], K)'
           /\ In(p, S[0]) /\ held' = held \cup {p}
           /\ UNCHANGED <<p_semAdd, p_prnt>>
<1> DEFINE S2 == [S EXCEPT ![0] = RemoveFirst(@, p)]
           T == QTails(pcbList_h, readyQ, semds)
           r == outProcQ(OfTail(p_next, p_prev, readyQ), p)
<1>1. /\ RingsOK(p_next, p_prev, T, S, held) /\ AslOK(semds)
      /\ p_semAdd \in [Proc -> Addr \cup {NULL}]
  BY DEF Represents
<1>2. T[0] = readyQ
  BY TailsAre
<1>3. In(p, S[0])
  <2>1. Contains(Ring(p_next, readyQ), p)
    BY DEF OutReady
  <2>2. Ring(p_next, readyQ) = S[0] /\ S[0] \in Seq(Proc)
    BY <1>1, <1>2, Ids, RingsParts
  <2> QED
    BY <2>1, <2>2, Members
<1>4. RingsOK(r.next, r.prev, [T EXCEPT ![0] = r.tp], S2, held \cup {p})
  <2> HIDE DEF T
  <2> QED
    BY <1>1, <1>2, <1>3, Ids, RingsOut
<1>5. outProcQ(Rings(readyQ), p) = r
  BY DEF Rings, OfTail
<1> HIDE DEF r
<1>6. /\ p_next' = r.next /\ p_prev' = r.prev /\ readyQ' = r.tp
      /\ held' = held \cup {p}
      /\ p_semAdd' = p_semAdd /\ pcbList_h' = pcbList_h /\ semds' = semds
      /\ UNCHANGED tree /\ p_prnt' = p_prnt
  BY <1>5 DEF OutReady, SetLinks, Hold, tree
<1>7. QTails(pcbList_h', readyQ', semds') = [T EXCEPT ![0] = r.tp]
  BY <1>6, TailsAre
<1>8. Represents(S2, K)'
  BY <1>1, <1>4, <1>6, <1>7, Ids, QueueStep
<1> QED
  BY <1>3, <1>6, <1>8

(* insertBlocked appends the pcb to the queue of a: a descriptor is left.  *)
LEMMA InsertBlockedStep ==
    ASSUME NEW S, NEW K, Represents(S, K), NEW a \in Addr, NEW p,
           insertBlocked(a, p)
    PROVE  /\ Represents([S EXCEPT ![a] = Append(@, p)], K)'
           /\ p \in held /\ held' = held \ {p} /\ p \in Proc
           /\ p_semAdd' = [p_semAdd EXCEPT ![p] = a]
           /\ UNCHANGED p_prnt
<1> DEFINE S2 == [S EXCEPT ![a] = Append(@, p)]
           T == QTails(pcbList_h, readyQ, semds)
           l == IF Active(semds, a) THEN semds ELSE AddSemd(semds, a)
           r == insertProcQ(OfTail(p_next, p_prev, T[a]), p)
<1>1. /\ RingsOK(p_next, p_prev, T, S, held) /\ AslOK(semds)
      /\ p_semAdd \in [Proc -> Addr \cup {NULL}]
  BY DEF Represents
<1>2. \A b \in Addr : T[b] = TailOf(semds)[b]
  BY TailsAre
<1>3. p \in held /\ held' = held \ {p}
  BY DEF insertBlocked
<1>4. p \in Proc
  BY <1>1, <1>3 DEF RingsOK
<1>5. a \in QueueId /\ a # -1
  BY Ids
<1> HIDE DEF T
<1>6. /\ r.tp \in Proc
      /\ RingsOK(r.next, r.prev, [T EXCEPT ![a] = r.tp], S2, held \ {p})
  BY <1>1, <1>3, <1>5, RingsInsert
<1> HIDE DEF S2
<1>7. ~Active(semds, a) => semds.free # NULL
  <2>1. \A b \in Addr : TailOf(semds)[b] # p
    <3>1. ASSUME NEW b \in Addr, TailOf(semds)[b] = p
          PROVE  FALSE
      <4>1. T[b] = p /\ T[b] # NULL /\ b \in QueueId
        BY <1>2, <1>4, <3>1, Ids, RingsAssumption
      <4>2. T[b] \notin held
        BY <1>1, <4>1, TailsIn
      <4> QED
        BY <1>3, <4>1, <4>2
    <3> QED
      BY <3>1
  <2>2. ASSUME NEW b \in Addr, NEW c \in Addr,
               TailOf(semds)[b] = TailOf(semds)[c], TailOf(semds)[b] # NULL
        PROVE  b = c
    <3>1. T[b] = T[c] /\ T[b] # NULL /\ b \in QueueId /\ c \in QueueId
      BY <1>2, <2>2, Ids
    <3>2. In(T[b], S[b]) /\ In(T[c], S[c])
      BY <1>1, <3>1, TailsIn
    <3> QED
      BY <1>1, <3>1, <3>2 DEF RingsOK
  <2> QED
    BY <1>1, <1>4, <2>1, <2>2, DescriptorLeft
<1>8. /\ Queue(l, a) = T[a]
      /\ AslOK(PutQueue(l, a, r.tp))
      /\ TailOf(PutQueue(l, a, r.tp)) = [TailOf(semds) EXCEPT ![a] = r.tp]
  <2> DEFINE tp == r.tp
  <2> HIDE DEF tp
  <2>0. tp \in Proc
    BY <1>6 DEF tp
  <2>1. CASE Active(semds, a)
    <3>1. Queue(semds, a) = T[a]
      BY <1>1, <1>2, <2>1, ActiveTail
    <3>2. /\ AslOK(PutQueue(semds, a, tp))
          /\ TailOf(PutQueue(semds, a, tp)) = [TailOf(semds) EXCEPT ![a] = tp]
      BY <1>1, <2>0, <2>1, PutAsl
    <3> QED
      BY <2>1, <3>1, <3>2 DEF tp
  <2>2. CASE ~Active(semds, a)
    <3>1. T[a] = NULL
      BY <1>1, <1>2, <2>2, ActiveTail
    <3> DEFINE m == AddSemd(semds, a)
    <3>2. /\ Queue(m, a) = NULL /\ AslOK(PutQueue(m, a, tp))
          /\ TailOf(PutQueue(m, a, tp)) = [TailOf(semds) EXCEPT ![a] = tp]
      BY <1>1, <1>7, <2>0, <2>2, AddAsl
    <3> QED
      BY <2>2, <3>1, <3>2 DEF tp
  <2> QED
    BY <2>1, <2>2
<1>9. insertProcQ(Rings(Queue(l, a)), p) = r
  BY <1>8 DEF Rings, OfTail
<1> HIDE DEF r
<1>10. /\ p_next' = r.next /\ p_prev' = r.prev
       /\ semds' = PutQueue(l, a, r.tp)
       /\ p_semAdd' = [p_semAdd EXCEPT ![p] = a]
       /\ pcbList_h' = pcbList_h /\ readyQ' = readyQ
       /\ UNCHANGED tree /\ p_prnt' = p_prnt
  BY <1>7, <1>9 DEF insertBlocked, SetLinks, queueFrame, tree
<1> HIDE DEF l
<1>11. QTails(pcbList_h', readyQ', semds') = [T EXCEPT ![a] = r.tp]
  <2>1. /\ TailOf(semds')[a] = r.tp
        /\ \A b \in Addr : b # a => TailOf(semds')[b] = TailOf(semds)[b]
    BY <1>8, <1>10, TailsHave
  <2>2. QTails(pcbList_h, readyQ, semds') = [T EXCEPT ![a] = r.tp]
    BY <2>1, TailsPut DEF T
  <2> QED
    BY <1>10, <2>2
<1>12. p_semAdd' \in [Proc -> Addr \cup {NULL}]
  BY <1>1, <1>10
<1>13. Represents(S2, K)'
  BY <1>3, <1>5, <1>6, <1>8, <1>10, <1>11, <1>12, QueueStep DEF S2
<1> QED
  BY <1>3, <1>4, <1>10, <1>13 DEF S2

(* removeBlocked takes the head of the queue of a.                         *)
LEMMA RemoveBlockedStep ==
    ASSUME NEW S, NEW K, Represents(S, K), NEW a \in Addr, removeBlocked(a)
    PROVE  /\ Represents([S EXCEPT ![a] = Tail(@)], K)'
           /\ S[a] # <<>> /\ held' = held \cup {Head(S[a])}
           /\ UNCHANGED <<p_semAdd, p_prnt>>
<1> DEFINE p == Head(S[a])
           S2 == [S EXCEPT ![a] = Tail(@)]
           T == QTails(pcbList_h, readyQ, semds)
           r == removeProcQ(OfTail(p_next, p_prev, T[a]))
<1>1. /\ RingsOK(p_next, p_prev, T, S, held) /\ AslOK(semds)
      /\ p_semAdd \in [Proc -> Addr \cup {NULL}]
  BY DEF Represents
<1>2. Active(semds, a)
  BY DEF removeBlocked
<1>3. T[a] # NULL /\ Queue(semds, a) = T[a]
  <2>1. T[a] = TailOf(semds)[a]
    BY TailsAre
  <2> QED
    BY <1>1, <1>2, <2>1, ActiveTail
<1> HIDE DEF T
<1>4. /\ S[a] # <<>> /\ p_next[T[a]] = p
      /\ RingsOK(r.next, r.prev, [T EXCEPT ![a] = r.tp], S2, held \cup {p})
  <2> DEFINE u == removeProcQ(OfTail(p_next, p_prev, T[a]))
  <2>1. /\ S[a] # <<>> /\ p_next[T[a]] = Head(S[a]) /\ Head(S[a]) \in Proc
        /\ RingsOK(u.next, u.prev, [T EXCEPT ![a] = u.tp],
                   [S EXCEPT ![a] = Tail(@)], held \cup {Head(S[a])})
    BY <1>1, <1>3, Ids, RingsRemove
  <2> QED
    BY <2>1
<1>5. headBlocked(a) = p
  BY <1>2, <1>3, <1>4 DEF headBlocked, headProcQ, emptyProcQ
<1>6. removeProcQ(Rings(Queue(semds, a))) = r
  BY <1>3 DEF Rings, OfTail
<1> HIDE DEF r
<1>7. /\ p_next' = r.next /\ p_prev' = r.prev
      /\ semds' = PutQueue(semds, a, r.tp)
      /\ held' = held \cup {p}
      /\ p_semAdd' = p_semAdd /\ pcbList_h' = pcbList_h /\ readyQ' = readyQ
      /\ UNCHANGED tree /\ p_prnt' = p_prnt
  BY <1>5, <1>6 DEF removeBlocked, SetLinks, Hold, queueFrame, tree
<1>8. r.tp \in Proc \cup {NULL}
  <2>1. DOMAIN T = QueueId
    BY DEF T, QTails
  <2> QED
    BY <1>4, <2>1, Ids, RingsTail
<1>9. AslOK(semds') /\ TailOf(semds') = [TailOf(semds) EXCEPT ![a] = r.tp]
  BY <1>1, <1>2, <1>7, <1>8, PutAsl
<1>10. QTails(pcbList_h', readyQ', semds') = [T EXCEPT ![a] = r.tp]
  <2>1. /\ TailOf(semds')[a] = r.tp
        /\ \A b \in Addr : b # a => TailOf(semds')[b] = TailOf(semds)[b]
    BY <1>9, TailsHave
  <2> DEFINE tp == r.tp
  <2>2. /\ TailOf(semds')[a] = tp /\ a \in Addr
        /\ \A b \in Addr : b # a => TailOf(semds')[b] = TailOf(semds)[b]
    BY <1>1, <2>1
  <2> HIDE DEF tp
  <2>3. QTails(pcbList_h, readyQ, semds')
            = [QTails(pcbList_h, readyQ, semds) EXCEPT ![a] = tp]
    <3>1. \A b \in QueueId : b = -1 \/ b = 0 \/ b \in Addr
      BY DEF QueueId
    <3> QED
      BY <2>2, <3>1, Ids DEF QTails
  <2> QED
    BY <1>7, <2>3 DEF tp, T
<1>11. Represents(S2, K)'
  BY <1>1, <1>4, <1>7, <1>9, <1>10, Ids, QueueStep
<1> QED
  BY <1>4, <1>7, <1>11

(* When the pcb is not in the queue of its p_semAdd, nothing changes.      *)
LEMMA OutBlockedStep ==
    ASSUME NEW S, NEW K, Represents(S, K), NEW p \in Proc, outBlocked(p)
    PROVE  \A a : a = p_semAdd[p] =>
               /\ a \in Addr
               /\ UNCHANGED <<p_semAdd, p_prnt>>
               /\ \/ /\ Represents([S EXCEPT ![a] = RemoveFirst(@, p)], K)'
                     /\ In(p, S[a]) /\ held' = held \cup {p}
                  \/ Represents(S, K)' /\ held' = held
<1>0. SUFFICES ASSUME NEW a, a = p_semAdd[p]
               PROVE  /\ a \in Addr
                      /\ UNCHANGED <<p_semAdd, p_prnt>>
                      /\ \/ /\ Represents([S EXCEPT ![a] = RemoveFirst(@, p)], K)'
                            /\ In(p, S[a]) /\ held' = held \cup {p}
                         \/ Represents(S, K)' /\ held' = held
  OBVIOUS
<1> DEFINE S2 == [S EXCEPT ![a] = RemoveFirst(@, p)]
           T == QTails(pcbList_h, readyQ, semds)
           r == outProcQ(OfTail(p_next, p_prev, T[a]), p)
<1>1. /\ RingsOK(p_next, p_prev, T, S, held) /\ AslOK(semds)
      /\ p_semAdd \in [Proc -> Addr \cup {NULL}]
  BY DEF Represents
<1>2. a \in Addr /\ Active(semds, a)
  BY <1>0, <1>1 DEF outBlocked
<1>3. T[a] # NULL /\ Queue(semds, a) = T[a] /\ T[a] = TailOf(semds)[a]
  <2>1. T[a] = TailOf(semds)[a]
    BY <1>2, TailsAre
  <2> QED
    BY <1>1, <1>2, <2>1, ActiveTail
<1>4. S[a] \in Seq(Proc) /\ Ring(p_next, Queue(semds, a)) = S[a]
  BY <1>1, <1>2, <1>3, Ids, RingsParts
<1>5. outProcQ(Rings(Queue(semds, a)), p) = r
  BY <1>3 DEF Rings, OfTail
<1>6. /\ p_next' = r.next /\ p_prev' = r.prev
      /\ semds' = PutQueue(semds, a, r.tp)
      /\ IF In(p, S[a]) THEN held' = held \cup {p} ELSE held' = held
      /\ p_semAdd' = p_semAdd /\ pcbList_h' = pcbList_h /\ readyQ' = readyQ
      /\ UNCHANGED tree /\ p_prnt' = p_prnt
  <2>1. Contains(Ring(p_next, Queue(semds, a)), p) <=> In(p, S[a])
    BY <1>4, Members
  <2> HIDE DEF r
  <2> QED
    BY <1>0, <1>5, <2>1 DEF outBlocked, SetLinks, Hold, queueFrame, tree
<1>7. CASE In(p, S[a])
  <2> HIDE DEF T
  <2>1. RingsOK(r.next, r.prev, [T EXCEPT ![a] = r.tp], S2, held \cup {p})
    BY <1>1, <1>2, <1>7, Ids, RingsOut
  <2> HIDE DEF r
  <2>2. r.tp \in Proc \cup {NULL}
    <3>1. DOMAIN T = QueueId
      BY DEF T, QTails
    <3> QED
      BY <1>2, <2>1, <3>1, Ids, RingsTail
  <2>3. AslOK(semds') /\ TailOf(semds') = [TailOf(semds) EXCEPT ![a] = r.tp]
    BY <1>1, <1>2, <1>6, <2>2, PutAsl
  <2>4. QTails(pcbList_h', readyQ', semds') = [T EXCEPT ![a] = r.tp]
    <3>1. /\ TailOf(semds')[a] = r.tp
          /\ \A b \in Addr : b # a => TailOf(semds')[b] = TailOf(semds)[b]
      BY <1>2, <2>3, TailsHave
    <3>2. QTails(pcbList_h, readyQ, semds') = [T EXCEPT ![a] = r.tp]
      <4> DEFINE tp == r.tp
      <4>1. /\ TailOf(semds')[a] = tp /\ a \in Addr
            /\ \A b \in Addr : b # a => TailOf(semds')[b] = TailOf(semds)[b]
        BY <1>2, <3>1
      <4> HIDE DEF tp
      <4>2. QTails(pcbList_h, readyQ, semds') = [T EXCEPT ![a] = tp]
        BY <4>1, TailsPut DEF T
      <4> QED
        BY <4>2 DEF tp
    <3> QED
      BY <1>6, <3>2
  <2>5. Represents(S2, K)'
    <3>1. held' = held \cup {p} /\ a \in QueueId /\ a # -1
      BY <1>2, <1>6, <1>7, Ids
    <3>2. RingsOK(p_next', p_prev', QTails(pcbList_h', readyQ', semds'),
                  S2, held')
      BY <1>6, <2>1, <2>4, <3>1
    <3>3. AslOK(semds') /\ UNCHANGED tree /\ p_semAdd' \in [Proc -> Addr \cup {NULL}]
      BY <1>1, <1>6, <2>3
    <3> DEFINE t == RemoveFirst(S[a], p)
    <3>4. S2 = [S EXCEPT ![a] = t]
      OBVIOUS
    <3> HIDE DEF S2, t
    <3> QED
      BY <3>1, <3>2, <3>3, <3>4, QueueStep
  <2> QED
    BY <1>2, <1>6, <1>7, <2>5
<1>8. CASE ~In(p, S[a])
  <2>1. r = OfTail(p_next, p_prev, T[a])
    <3>1. p \notin ToSet(Ring(p_next, T[a]))
      BY <1>3, <1>4, <1>8, Members
    <3> QED
      BY <3>1 DEF outProcQ, OfTail
  <2>2. r.next = p_next /\ r.prev = p_prev /\ r.tp = T[a]
    BY <2>1 DEF OfTail
  <2> HIDE DEF r, T
  <2>3. T[a] \in Proc \cup {NULL}
    BY <1>1, <1>2, Ids DEF RingsOK
  <2>4. AslOK(semds') /\ TailOf(semds') = [TailOf(semds) EXCEPT ![a] = T[a]]
    BY <1>1, <1>2, <1>6, <2>2, <2>3, PutAsl
  <2>5. QTails(pcbList_h', readyQ', semds') = [T EXCEPT ![a] = T[a]]
    <3>1. /\ TailOf(semds')[a] = T[a]
          /\ \A b \in Addr : b # a => TailOf(semds')[b] = TailOf(semds)[b]
      BY <1>2, <2>4, TailsHave
    <3>2. QTails(pcbList_h, readyQ, semds') = [T EXCEPT ![a] = T[a]]
      BY <3>1, <1>2, TailsPut DEF T
    <3> QED
      BY <1>6, <3>2
  <2>6. QTails(pcbList_h', readyQ', semds') = T
    <3>1. [T EXCEPT ![a] = T[a]] = T
      BY DEF T, QTails
    <3> QED
      BY <2>5, <3>1
  <2>7. S = [S EXCEPT ![a] = S[a]]
    BY <1>1 DEF RingsOK
  <2>8. Represents(S, K)'
    <3> HIDE DEF S2
    <3> DEFINE t == S[a]
    <3>1. S = [S EXCEPT ![a] = t] /\ a \in QueueId /\ a # -1
      BY <1>2, <2>7, Ids
    <3> HIDE DEF t
    <3>2. RingsOK(p_next', p_prev', QTails(pcbList_h', readyQ', semds'), S, held')
      BY <1>1, <1>6, <1>8, <2>2, <2>6
    <3>3. AslOK(semds') /\ UNCHANGED tree /\ p_semAdd' \in [Proc -> Addr \cup {NULL}]
      BY <1>1, <1>6, <2>4
    <3> QED
      BY <3>1, <3>2, <3>3, QueueStep
  <2> QED
    BY <1>2, <1>6, <1>8, <2>8
<1> QED
  BY <1>7, <1>8

(* insertChild, removeChild and outChild leave the queues as they are, and *)
(* the pcbs they link are not on the free list.                            *)
LEMMA TreeStep ==
    ASSUME NEW S, NEW K, Represents(S, K), NEW L, UNCHANGED queues,
           TreeOK(p_sib_next', p_sib_prev', p_prnt', p_child', L),
           \A x : In(x, S[-1]) =>
               p_child'[x] = p_child[x] /\
               \A q \in Proc : In(x, L[q]) => In(x, K[q])
    PROVE  Represents(S, L)'
<1>1. /\ RingsOK(p_next, p_prev, QTails(pcbList_h, readyQ, semds), S, held)
      /\ AslOK(semds) /\ p_semAdd \in [Proc -> Addr \cup {NULL}]
      /\ \A x : In(x, S[-1]) => p_child[x] = NULL /\ \A q \in Proc : ~In(x, K[q])
  BY DEF Represents
<1>2. /\ p_next' = p_next /\ p_prev' = p_prev /\ p_semAdd' = p_semAdd
      /\ pcbList_h' = pcbList_h /\ readyQ' = readyQ /\ semds' = semds
      /\ held' = held
  BY DEF queues
<1>3. \A x : In(x, S[-1]) => p_child'[x] = NULL /\ \A q \in Proc : ~In(x, L[q])
  BY <1>1
<1> QED
  BY <1>1, <1>2, <1>3 DEF Represents

(* insertChild puts p before the children of q.                            *)
LEMMA InsertChildStep ==
    ASSUME NEW S, NEW K, Represents(S, K), NEW q \in Proc, NEW p \in Proc,
           insertChild(q, p)
    PROVE  /\ \A L : L = [K EXCEPT ![q] = <<p>> \o @] => Represents(S, L)'
           /\ q \in held /\ p \in held /\ p # q
           /\ p_prnt[p] = NULL /\ K[p] = <<>>
           /\ p_prnt' = [p_prnt EXCEPT ![p] = q]
           /\ UNCHANGED queues
<1> DEFINE L == [K EXCEPT ![q] = <<p>> \o @]
<1>1. /\ TreeOK(p_sib_next, p_sib_prev, p_prnt, p_child, K)
      /\ RingsOK(p_next, p_prev, QTails(pcbList_h, readyQ, semds), S, held)
  BY DEF Represents
<1>2. /\ q \in held /\ p \in held /\ p # q
      /\ p_prnt[p] = NULL /\ p_child[p] = NULL
      /\ p_prnt' = [p_prnt EXCEPT ![p] = q]
      /\ p_child' = [p_child EXCEPT ![q] = p]
      /\ p_child[q] = NULL => p_sib_next' = p_sib_next /\ p_sib_prev' = p_sib_prev
      /\ p_child[q] # NULL => /\ p_sib_next' = [p_sib_next EXCEPT ![p] = p_child[q]]
                              /\ p_sib_prev' = [p_sib_prev EXCEPT ![p_child[q]] = p]
      /\ UNCHANGED queues
  BY DEF insertChild, emptyChild
<1>3. TreeOK(p_sib_next', p_sib_prev', p_prnt', p_child', L)
  <2> DEFINE n2 == p_sib_next'
             v2 == p_sib_prev'
  <2>1. /\ p_child[q] = NULL => n2 = p_sib_next /\ v2 = p_sib_prev
        /\ p_child[q] # NULL => /\ n2 = [p_sib_next EXCEPT ![p] = p_child[q]]
                                /\ v2 = [p_sib_prev EXCEPT ![p_child[q]] = p]
    BY <1>2
  <2>3. p_prnt[p] = NULL
    BY <1>2
  <2> HIDE DEF n2, v2, L
  <2>4. TreeOK(n2, v2, [p_prnt EXCEPT ![p] = q], [p_child EXCEPT ![q] = p],
               [K EXCEPT ![q] = <<p>> \o @])
    BY <1>1, <2>1, <2>3, TreeInsert
  <2>2. TreeOK(n2, v2, [p_prnt EXCEPT ![p] = q], [p_child EXCEPT ![q] = p], L)
    BY <2>4 DEF L
  <2> QED
    BY <1>2, <2>2 DEF n2, v2
<1>4. K \in [Proc -> Seq(Proc)] /\ p_child \in Links
  BY <1>1 DEF TreeOK
<1>5. ASSUME NEW x, In(x, S[-1])
      PROVE  /\ p_child'[x] = p_child[x]
             /\ \A z \in Proc : In(x, L[z]) => In(x, K[z])
  <2>1. x \in Proc /\ x \notin held
    <3>1. x \in Proc
      BY <1>1, <1>5, Ids, RingsParts
    <3> QED
      BY <1>1, <1>5, <3>1, Ids DEF RingsOK
  <2>2. x # q /\ x # p
    BY <1>2, <2>1
  <2>3. p_child'[x] = p_child[x]
    BY <1>2, <1>4, <2>1, <2>2 DEF Links
  <2>4. In(x, L[q]) => In(x, K[q])
    <3>1. L[q] = <<p>> \o K[q]
      BY <1>4
    <3>2. /\ Len(K[q]) \in Nat
          /\ Len(L[q]) = Len(K[q]) + 1 /\ L[q][1] = p
          /\ \A i \in 2 .. Len(K[q]) + 1 : L[q][i] = K[q][i - 1]
      BY <1>4, <3>1, ConsFacts, LenProperties
    <3> HIDE DEF L
    <3>3. ASSUME NEW i \in 1 .. Len(K[q]) + 1, L[q][i] = x
          PROVE  \E j \in 1 .. Len(K[q]) : K[q][j] = x
      <4>1. i # 1
        BY <2>2, <3>2, <3>3
      <4>2. i \in 2 .. Len(K[q]) + 1 /\ i - 1 \in 1 .. Len(K[q])
        BY <3>2, <4>1
      <4> QED
        BY <3>2, <3>3, <4>2
    <3> QED
      BY <3>2, <3>3 DEF In
  <2>5. \A z \in Proc : z # q => L[z] = K[z]
    BY <1>4
  <2> QED
    BY <2>3, <2>4, <2>5
<1>6. Represents(S, L)'
  BY <1>2, <1>3, <1>5, TreeStep
<1>7. K[p] = <<>>
  BY <1>1, <1>2, TreeParts
<1>8. \A M : M = L => Represents(S, M)'
  BY <1>6
<1> QED
  BY <1>2, <1>7, <1>8

(* Any child that leaves its parent's list.                                *)
LEMMA OutStep ==
    ASSUME NEW S, NEW K, Represents(S, K), NEW q \in Proc, NEW p, In(p, K[q]),
           UNCHANGED queues, p_prnt' = p_prnt,
           p_child[q] = p => /\ p_sib_next' = p_sib_next
                             /\ p_child' = [p_child EXCEPT ![q] = p_sib_next[p]],
           p_child[q] # p =>
               /\ p_sib_next' = [p_sib_next EXCEPT ![p_sib_prev[p]] = p_sib_next[p]]
               /\ p_child' = p_child,
           p_sib_prev' = IF p_sib_next[p] = NULL THEN p_sib_prev
                         ELSE [p_sib_prev EXCEPT ![p_sib_next[p]] = p_sib_prev[p]]
    PROVE  Represents(S, [K EXCEPT ![q] = RemoveFirst(@, p)])'
<1> DEFINE L == [K EXCEPT ![q] = RemoveFirst(@, p)]
           n2 == p_sib_next'
           v2 == p_sib_prev'
           c2 == p_child'
<1>1. /\ TreeOK(p_sib_next, p_sib_prev, p_prnt, p_child, K)
      /\ RingsOK(p_next, p_prev, QTails(pcbList_h, readyQ, semds), S, held)
      /\ \A x : In(x, S[-1]) => p_child[x] = NULL /\ \A z \in Proc : ~In(x, K[z])
  BY DEF Represents
<1>2. /\ p_child[q] = p => /\ n2 = p_sib_next
                           /\ c2 = [p_child EXCEPT ![q] = p_sib_next[p]]
      /\ p_child[q] # p =>
             /\ n2 = [p_sib_next EXCEPT ![p_sib_prev[p]] = p_sib_next[p]]
             /\ c2 = p_child
      /\ v2 = IF p_sib_next[p] = NULL THEN p_sib_prev
              ELSE [p_sib_prev EXCEPT ![p_sib_next[p]] = p_sib_prev[p]]
  OBVIOUS
<1>3. TreeOK(n2, v2, p_prnt, c2, L)
  <2> HIDE DEF n2, v2, c2
  <2> QED
    BY <1>1, <1>2, TreeOut
<1>4. K \in [Proc -> Seq(Proc)] /\ p_child \in Links
  BY <1>1 DEF TreeOK
<1>5. K[q] # <<>> /\ Simple(K[q])
  <2>1. Simple(K[q]) /\ K[q] \in Seq(Proc)
    BY <1>1, TreeParts
  <2>2. Len(K[q]) # 0
    BY <2>1, LenProperties DEF In
  <2> QED
    BY <2>1, <2>2, SeqFacts
<1>6. ASSUME NEW x, In(x, S[-1])
      PROVE  /\ p_child'[x] = p_child[x]
             /\ \A z \in Proc : In(x, L[z]) => In(x, K[z])
  <2>1. x # q
    <3>1. p_child[q] # NULL
      BY <1>1, <1>5, TreeParts
    <3> QED
      BY <1>1, <1>6, <3>1
  <2>2. p_child'[x] = p_child[x]
    <3>1. x \in Proc
      BY <1>1, <1>6, Ids, RingsParts
    <3> QED
      BY <1>2, <1>4, <2>1, <3>1 DEF Links
  <2>3. L[q] = RemoveFirst(K[q], p)
    BY <1>4
  <2>4. In(x, L[q]) => In(x, K[q])
    BY <1>4, <1>5, <2>3, InRemoved
  <2>5. \A z \in Proc : z # q => L[z] = K[z]
    BY <1>4
  <2> QED
    BY <2>2, <2>4, <2>5
<1> HIDE DEF L
<1>7. Represents(S, L)'
  BY <1>3, <1>6, TreeStep
<1> QED
  BY <1>7 DEF L

(* The first child leaves the list of its parent.                          *)
LEMMA RemoveFirstChildStep ==
    ASSUME NEW S, NEW K, Represents(S, K), NEW q \in Proc, p_child[q] # NULL,
           RemoveFirstChild(q)
    PROVE  /\ Represents(S, [K EXCEPT ![q] = Tail(@)])'
           /\ K[q] # <<>> /\ Head(K[q]) = p_child[q]
           /\ RemoveFirst(K[q], p_child[q]) = Tail(K[q])
           /\ UNCHANGED <<queues, p_prnt>>
<1>1. TreeOK(p_sib_next, p_sib_prev, p_prnt, p_child, K)
  BY DEF Represents
<1> DEFINE p == p_child[q]
           n == Len(K[q])
<1>2. /\ K[q] \in Seq(Proc) /\ Simple(K[q]) /\ K[q] # <<>>
      /\ n \in Nat /\ n # 0 /\ p = K[q][1]
      /\ \A i \in 1 .. n :
             p_sib_prev[K[q][i]] = IF i = 1 THEN NULL ELSE K[q][i - 1]
  BY <1>1, TreeParts
<1>3. p = Head(K[q]) /\ RemoveFirst(K[q], p) = Tail(K[q])
  BY <1>2, RemoveHead
<1>4. p_sib_prev[p] = NULL /\ In(p, K[q])
  <2>1. 1 \in 1 .. n
    BY <1>2
  <2> QED
    BY <1>2, <2>1 DEF In
<1>5. /\ p_child' = [p_child EXCEPT ![q] = p_sib_next[p]]
      /\ p_sib_prev' = IF p_sib_next[p] = NULL THEN p_sib_prev
                       ELSE [p_sib_prev EXCEPT ![p_sib_next[p]] = NULL]
      /\ p_sib_next' = p_sib_next /\ p_prnt' = p_prnt /\ UNCHANGED queues
  <2>1. CASE p_sib_next[p] = NULL
    BY <1>4, <2>1 DEF RemoveFirstChild
  <2>2. CASE p_sib_next[p] # NULL
    BY <1>4, <2>2 DEF RemoveFirstChild
  <2> QED
    BY <2>1, <2>2
<1>6. ASSUME NEW c, c = Head(K[q])
      PROVE  Represents(S, [K EXCEPT ![q] = RemoveFirst(@, c)])'
  <2>1. In(c, K[q]) /\ p_child[q] = c /\ p_sib_prev[c] = NULL
    BY <1>3, <1>4, <1>6
  <2>2. /\ p_sib_next' = p_sib_next
        /\ p_child' = [p_child EXCEPT ![q] = p_sib_next[c]]
        /\ p_sib_prev' = IF p_sib_next[c] = NULL THEN p_sib_prev
                         ELSE [p_sib_prev EXCEPT ![p_sib_next[c]] = p_sib_prev[c]]
    BY <1>5, <2>1
  <2> QED
    BY <1>5, <2>1, <2>2, OutStep
<1>7. [K EXCEPT ![q] = RemoveFirst(@, Head(K[q]))] = [K EXCEPT ![q] = Tail(@)]
  BY <1>3
<1>8. Represents(S, [K EXCEPT ![q] = RemoveFirst(@, Head(K[q]))])'
  BY <1>6
<1>9. Represents(S, [K EXCEPT ![q] = Tail(@)])'
  BY <1>7, <1>8
<1> QED
  BY <1>2, <1>3, <1>5, <1>9

(* removeChild takes the first child of q.                                 *)
LEMMA RemoveChildStep ==
    ASSUME NEW S, NEW K, Represents(S, K), NEW q \in Proc, removeChild(q)
    PROVE  /\ Represents(S, [K EXCEPT ![q] = Tail(@)])'
           /\ K[q] # <<>>
           /\ UNCHANGED <<queues, p_prnt>>
<1>1. p_child[q] # NULL /\ RemoveFirstChild(q)
  BY DEF removeChild, emptyChild
<1> QED
  BY <1>1, RemoveFirstChildStep

(* outChild takes p out of the list of its parent.                         *)
LEMMA OutChildStep ==
    ASSUME NEW S, NEW K, Represents(S, K), NEW p \in Proc, outChild(p)
    PROVE  \A q : q = p_prnt[p] =>
               /\ q \in Proc /\ In(p, K[q])
               /\ Represents(S, [K EXCEPT ![q] = RemoveFirst(@, p)])'
               /\ UNCHANGED <<queues, p_prnt>>
<1>0. SUFFICES ASSUME NEW q, q = p_prnt[p]
               PROVE  /\ q \in Proc /\ In(p, K[q])
                      /\ Represents(S, [K EXCEPT ![q] = RemoveFirst(@, p)])'
                      /\ UNCHANGED <<queues, p_prnt>>
  OBVIOUS
<1>1. TreeOK(p_sib_next, p_sib_prev, p_prnt, p_child, K)
  BY DEF Represents
<1>2. q \in Proc /\ In(p, K[q])
  <2>1. PICK z \in Proc : Contains(Kids(z), p)
    BY DEF outChild, IsChild
  <2>2. K[z] \in Seq(Proc) /\ Chain(p_sib_next, p_child[z]) = K[z]
    BY <1>1, TreeParts
  <2>3. In(p, K[z])
    BY <2>1, <2>2, Members DEF Kids
  <2>4. p_prnt[p] = z
    BY <1>1, <2>3, TreeParts
  <2> QED
    BY <1>0, <2>3, <2>4
<1>3. CASE p_child[q] = p
  <2>1. RemoveFirstChild(q)
    BY <1>0, <1>3 DEF outChild, OutFirst, OutInner
  <2>2. p_child[q] # NULL
    BY <1>3, RingsAssumption
  <2>3. /\ Represents(S, [K EXCEPT ![q] = Tail(@)])'
        /\ RemoveFirst(K[q], p) = Tail(K[q])
        /\ UNCHANGED <<queues, p_prnt>>
    BY <1>2, <1>3, <2>1, <2>2, RemoveFirstChildStep
  <2>4. [K EXCEPT ![q] = RemoveFirst(@, p)] = [K EXCEPT ![q] = Tail(@)]
    BY <2>3
  <2> QED
    BY <1>2, <2>3, <2>4
<1>4. CASE p_child[q] # p
  <2>1. OutInner(p)
    BY <1>0, <1>4 DEF outChild, OutFirst
  <2>2. /\ UNCHANGED <<queues, p_prnt>>
        /\ p_sib_next' = [p_sib_next EXCEPT ![p_sib_prev[p]] = p_sib_next[p]]
        /\ p_child' = p_child
        /\ p_sib_prev' = IF p_sib_next[p] = NULL THEN p_sib_prev
                         ELSE [p_sib_prev EXCEPT ![p_sib_next[p]] = p_sib_prev[p]]
    BY <2>1 DEF OutInner
  <2>3. Represents(S, [K EXCEPT ![q] = RemoveFirst(@, p)])'
    BY <1>2, <1>4, <2>2, OutStep
  <2> QED
    BY <1>2, <2>2, <2>3
<1> QED
  BY <1>3, <1>4

-----------------------------------------------------------------------------
StartQueues(t) == [k \in QueueId |-> IF k = -1 THEN t ELSE <<>>]
StartKids      == [p \in Proc |-> <<>>]

(* At the start all pcbs are on the free list, in the order of procTable.  *)
LEMMA InitStep ==
    ASSUME Init
    PROVE  \E t \in {f \in [1 .. MAXPROC -> Proc] : IsInjective(f)} :
               Represents(StartQueues(t), StartKids)
<1>1. PICK t \in {f \in [1 .. MAXPROC -> Proc] : IsInjective(f)} :
          /\ p_next = initPcbs(t).next
          /\ p_prev = initPcbs(t).prev
          /\ pcbList_h = initPcbs(t).tp
  BY DEF Init
<1> DEFINE r == initPcbs(t)
           S == StartQueues(t)
           T == QTails(pcbList_h, readyQ, semds)
<1>2. t \in [1 .. MAXPROC -> Proc] /\ IsInjective(t)
  OBVIOUS
<1>3. r \in Ringed /\ IsRing(r, t) /\ t \in Seq(Proc)
  BY <1>2, InitPcbs
<1>4. /\ readyQ = NULL /\ semds = initASL /\ held = {}
      /\ p_semAdd = [p \in Proc |-> NULL]
      /\ p_prnt = [p \in Proc |-> NULL] /\ p_child = [p \in Proc |-> NULL]
      /\ p_sib_next = [p \in Proc |-> NULL]
      /\ p_sib_prev = [p \in Proc |-> NULL]
  BY DEF Init, mkEmptyProcQ
<1> HIDE DEF r
<1>5. p_next = r.next /\ p_prev = r.prev /\ pcbList_h = r.tp
  BY <1>1 DEF r
<1>6. /\ p_next \in Links /\ p_prev \in Links /\ pcbList_h \in Proc \cup {NULL}
  BY <1>3, <1>5 DEF Ringed
<1>7. AslOK(semds) /\ \A a \in Addr : TailOf(semds)[a] = NULL
  BY <1>4, InitAsl
<1>8. \A k \in QueueId : T[k] = IF k = -1 THEN pcbList_h ELSE NULL
  <2>1. \A k \in QueueId : k = -1 \/ k = 0 \/ k \in Addr
    BY DEF QueueId
  <2> QED
    BY <1>4, <1>7, <2>1, Ids DEF QTails
<1>9. \A k \in QueueId : S[k] = IF k = -1 THEN t ELSE <<>>
  BY DEF StartQueues
<1>10. T \in [QueueId -> Proc \cup {NULL}] /\ S \in [QueueId -> Seq(Proc)]
  <2>1. T = [k \in QueueId |-> T[k]] /\ S = [k \in QueueId |-> S[k]]
    BY DEF QTails, StartQueues
  <2>2. <<>> \in Seq(Proc)
    OBVIOUS
  <2> HIDE DEF T, S
  <2>3. \A k \in QueueId : T[k] \in Proc \cup {NULL} /\ S[k] \in Seq(Proc)
    BY <1>3, <1>6, <1>8, <1>9, <2>2
  <2> QED
    BY <2>1, <2>3
<1> HIDE DEF T, S
<1>11. \A x : ~In(x, <<>>)
  BY DEF In
<1>12. \A k \in QueueId : IsRing(OfTail(p_next, p_prev, T[k]), S[k])
  <2>1. ASSUME NEW k \in QueueId
        PROVE  IsRing(OfTail(p_next, p_prev, T[k]), S[k])
    <3>1. CASE k = -1
      <4>1. T[k] = r.tp /\ S[k] = t
        BY <1>5, <1>8, <1>9, <3>1
      <4>2. IsRing(OfTail(p_next, p_prev, T[k]), t)
        BY <1>3, <1>5, <4>1 DEF IsRing, OfTail
      <4> QED
        BY <4>1, <4>2
    <3>2. CASE k # -1
      <4>1. T[k] = NULL /\ S[k] = <<>>
        BY <1>8, <1>9, <3>2
      <4> QED
        BY <4>1 DEF IsRing, OfTail, Simple
    <3> QED
      BY <3>1, <3>2
  <2> QED
    BY <2>1
<1>13. RingsOK(p_next, p_prev, T, S, held)
  <2>1. \A k, l \in QueueId : \A x : In(x, S[k]) /\ In(x, S[l]) => k = l
    BY <1>9, <1>11
  <2> QED
    BY <1>4, <1>6, <1>10, <1>12, <2>1 DEF RingsOK
<1>14. \A q \in Proc : StartKids[q] = <<>>
  BY DEF StartKids
<1>15. TreeOK(p_sib_next, p_sib_prev, p_prnt, p_child, StartKids)
  <2>1. [p \in Proc |-> NULL] \in Links
    BY DEF Links
  <2>2. StartKids \in [Proc -> Seq(Proc)]
    BY DEF StartKids
  <2>3. \A q \in Proc : Siblings(p_sib_next, p_sib_prev, p_prnt, p_child,
                                 StartKids[q], q)
    <3>1. ASSUME NEW q \in Proc
          PROVE  Siblings(p_sib_next, p_sib_prev, p_prnt, p_child, <<>>, q)
      BY <1>4 DEF Siblings, List, Simple
    <3> QED
      BY <1>14, <3>1
  <2> QED
    BY <1>4, <2>1, <2>2, <2>3 DEF TreeOK
<1>16. Represents(S, StartKids)
  <2>1. p_semAdd \in [Proc -> Addr \cup {NULL}]
    BY <1>4
  <2>2. \A x : In(x, S[-1]) =>
            p_child[x] = NULL /\ \A q \in Proc : ~In(x, StartKids[q])
    <3>1. \A x : In(x, t) => x \in Proc
      BY <1>3, SeqFacts DEF In
    <3>2. S[-1] = t
      BY <1>9, Ids
    <3> QED
      BY <1>4, <1>11, <1>14, <3>1, <3>2
  <2> QED
    BY <1>7, <1>13, <1>15, <2>1, <2>2 DEF Represents, T
<1> QED
  BY <1>16 DEF S

-----------------------------------------------------------------------------
(* What ProcLists sees of the structures, before and after a step.         *)
ProcQ(next, l) == [a \in Addr |-> IF Active(l, a) THEN Ring(next, Queue(l, a))
                                  ELSE <<>>]
Children(next, child) == [q \in Proc |-> Chain(next, child[q])]
Blocked(S) == [a \in Addr |-> S[a]]

(* Before a step,                                                          *)
LEMMA ListsSeen ==
    ASSUME NEW S, NEW K, Represents(S, K)
    PROVE  /\ Ring(p_next, pcbList_h) = S[-1] /\ Ring(p_next, readyQ) = S[0]
           /\ ProcQ(p_next, semds) = Blocked(S)
           /\ Children(p_sib_next, p_child) = K
           /\ S \in [QueueId -> Seq(Proc)] /\ K \in [Proc -> Seq(Proc)]
<1>1. /\ RingsOK(p_next, p_prev, QTails(pcbList_h, readyQ, semds), S, held)
      /\ AslOK(semds)
      /\ TreeOK(p_sib_next, p_sib_prev, p_prnt, p_child, K)
  BY DEF Represents
<1>2. /\ Ring(p_next, pcbList_h) = S[-1] /\ Ring(p_next, readyQ) = S[0]
      /\ ProcQ(p_next, semds) = Blocked(S)
  BY <1>1, View DEF ProcQ, Blocked
<1>3. S \in [QueueId -> Seq(Proc)] /\ K \in [Proc -> Seq(Proc)]
  BY <1>1 DEF RingsOK, TreeOK
<1>4. \A q \in Proc : Chain(p_sib_next, p_child[q]) = K[q]
  BY <1>1, TreeParts
<1>5. Children(p_sib_next, p_child) = K
  BY <1>3, <1>4 DEF Children
<1> QED
  BY <1>2, <1>3, <1>5

(* and after it.                                                           *)
LEMMA ListsSeenNext ==
    ASSUME NEW S, NEW K, Represents(S, K)'
    PROVE  /\ Ring(p_next', pcbList_h') = S[-1] /\ Ring(p_next', readyQ') = S[0]
           /\ ProcQ(p_next', semds') = Blocked(S)
           /\ Children(p_sib_next', p_child') = K
<1>1. /\ RingsOK(p_next', p_prev', QTails(pcbList_h', readyQ', semds'), S, held')
      /\ AslOK(semds')
      /\ TreeOK(p_sib_next', p_sib_prev', p_prnt', p_child', K)
  BY DEF Represents
<1>2. /\ Ring(p_next', pcbList_h') = S[-1] /\ Ring(p_next', readyQ') = S[0]
      /\ ProcQ(p_next', semds') = Blocked(S)
  BY <1>1, View DEF ProcQ, Blocked
<1>3. S \in [QueueId -> Seq(Proc)] /\ K \in [Proc -> Seq(Proc)]
  BY <1>1 DEF RingsOK, TreeOK
<1>4. \A q \in Proc : Chain(p_sib_next', p_child'[q]) = K[q]
  BY <1>1, TreeParts
<1>5. Children(p_sib_next', p_child') = K
  BY <1>3, <1>4 DEF Children
<1> QED
  BY <1>2, <1>3, <1>5

(* Each function is the operation of ProcLists that stands for it.         *)
LEMMA SeenAlloc ==
    ASSUME NEW S, NEW K, Represents(S, K), allocPcb
    PROVE  Lists!allocPcb
<1> DEFINE p == Head(S[-1])
           S2 == [S EXCEPT ![-1] = Tail(@)]
<1>1. /\ Represents(S2, K)' /\ S[-1] # <<>>
      /\ held' = held \cup {p} /\ p \in Proc
      /\ p_semAdd' = [p_semAdd EXCEPT ![p] = NULL]
      /\ p_prnt' = [p_prnt EXCEPT ![p] = NULL]
  BY AllocStep
<1>2. /\ Ring(p_next, pcbList_h) = S[-1] /\ Ring(p_next, readyQ) = S[0]
      /\ ProcQ(p_next, semds) = Blocked(S)
      /\ Children(p_sib_next, p_child) = K
      /\ S \in [QueueId -> Seq(Proc)] /\ K \in [Proc -> Seq(Proc)]
  BY ListsSeen
<1>4. /\ S2[-1] = Tail(S[-1]) /\ S2[0] = S[0]
      /\ Blocked(S2) = Blocked(S)
  BY <1>2, Ids DEF Blocked
<1> HIDE DEF S2
<1>3. /\ Ring(p_next', pcbList_h') = S2[-1] /\ Ring(p_next', readyQ') = S2[0]
      /\ ProcQ(p_next', semds') = Blocked(S2)
      /\ Children(p_sib_next', p_child') = K
  BY <1>1, ListsSeenNext
<1> QED
  BY <1>1, <1>2, <1>3, <1>4 DEF Lists!allocPcb, ProcQ, Children, Kids

(* ProcLists has its own names for the operators of SequencesExt.          *)
LEMMA SameOperators ==
    ASSUME NEW s, NEW p
    PROVE  /\ Lists!Contains(s, p) = Contains(s, p)
           /\ Lists!RemoveFirst(s, p) = RemoveFirst(s, p)
<1>1. Lists!Contains(s, p) = Contains(s, p)
  BY DEF Contains, Lists!Contains
<1>2. Lists!RemoveFirst(s, p) = RemoveFirst(s, p)
  BY DEF RemoveFirst, Lists!RemoveFirst, RemoveAt, Lists!RemoveAt,
         SelectInSeq, Lists!SelectInSeq, Min, Lists!Min
<1> QED
  BY <1>1, <1>2

(* freePcb.                                                                *)
LEMMA SeenFree ==
    ASSUME NEW S, NEW K, Represents(S, K), NEW p \in Proc, freePcb(p)
    PROVE  Lists!freePcb(p)
<1> DEFINE S2 == [S EXCEPT ![-1] = Append(@, p)]
<1>1. /\ Represents(S2, K)' /\ p \in held /\ held' = held \ {p}
      /\ K[p] = <<>> /\ \A q \in Proc : ~In(p, K[q])
      /\ p_semAdd' = p_semAdd /\ p_prnt' = p_prnt
  BY FreeStep
<1>2. /\ Ring(p_next, pcbList_h) = S[-1] /\ Ring(p_next, readyQ) = S[0]
      /\ ProcQ(p_next, semds) = Blocked(S)
      /\ Children(p_sib_next, p_child) = K
      /\ S \in [QueueId -> Seq(Proc)] /\ K \in [Proc -> Seq(Proc)]
  BY ListsSeen
<1>3. /\ S2[-1] = Append(S[-1], p) /\ S2[0] = S[0]
      /\ Blocked(S2) = Blocked(S)
  BY <1>2, Ids DEF Blocked
<1> HIDE DEF S2
<1>4. /\ Ring(p_next', pcbList_h') = S2[-1] /\ Ring(p_next', readyQ') = S2[0]
      /\ ProcQ(p_next', semds') = Blocked(S2)
      /\ Children(p_sib_next', p_child') = K
  BY <1>1, ListsSeenNext
<1>5. \A q \in Proc : ~Contains(K[q], p)
  BY <1>1, <1>2, Members
<1> QED
  BY <1>1, <1>2, <1>3, <1>4, <1>5, SameOperators
  DEF Lists!freePcb, Lists!IsChild, Lists!tree, ProcQ, Children, Kids

(* insertProcQ.                                                            *)
LEMMA SeenInsertReady ==
    ASSUME NEW S, NEW K, Represents(S, K), NEW p \in Proc, InsertReady(p)
    PROVE  Lists!insertProcQ(p)
<1> DEFINE S2 == [S EXCEPT ![0] = Append(@, p)]
<1>1. /\ Represents(S2, K)' /\ p \in held /\ held' = held \ {p}
      /\ p_semAdd' = p_semAdd /\ p_prnt' = p_prnt
  BY InsertReadyStep
<1>2. /\ Ring(p_next, pcbList_h) = S[-1] /\ Ring(p_next, readyQ) = S[0]
      /\ ProcQ(p_next, semds) = Blocked(S)
      /\ Children(p_sib_next, p_child) = K
      /\ S \in [QueueId -> Seq(Proc)]
  BY ListsSeen
<1>3. /\ S2[-1] = S[-1] /\ S2[0] = Append(S[0], p)
      /\ Blocked(S2) = Blocked(S)
  BY <1>2, Ids DEF Blocked
<1> HIDE DEF S2
<1>4. /\ Ring(p_next', pcbList_h') = S2[-1] /\ Ring(p_next', readyQ') = S2[0]
      /\ ProcQ(p_next', semds') = Blocked(S2)
      /\ Children(p_sib_next', p_child') = K
  BY <1>1, ListsSeenNext
<1> QED
  BY <1>1, <1>2, <1>3, <1>4
  DEF Lists!insertProcQ, Lists!tree, ProcQ, Children, Kids

(* removeProcQ.                                                            *)
LEMMA SeenRemoveReady ==
    ASSUME NEW S, NEW K, Represents(S, K), RemoveReady
    PROVE  Lists!removeProcQ
<1> DEFINE S2 == [S EXCEPT ![0] = Tail(@)]
<1>1. /\ Represents(S2, K)' /\ S[0] # <<>> /\ held' = held \cup {Head(S[0])}
      /\ p_semAdd' = p_semAdd /\ p_prnt' = p_prnt
  BY RemoveReadyStep
<1>2. /\ Ring(p_next, pcbList_h) = S[-1] /\ Ring(p_next, readyQ) = S[0]
      /\ ProcQ(p_next, semds) = Blocked(S)
      /\ Children(p_sib_next, p_child) = K
      /\ S \in [QueueId -> Seq(Proc)]
  BY ListsSeen
<1>3. /\ S2[-1] = S[-1] /\ S2[0] = Tail(S[0])
      /\ Blocked(S2) = Blocked(S)
  BY <1>2, Ids DEF Blocked
<1> HIDE DEF S2
<1>4. /\ Ring(p_next', pcbList_h') = S2[-1] /\ Ring(p_next', readyQ') = S2[0]
      /\ ProcQ(p_next', semds') = Blocked(S2)
      /\ Children(p_sib_next', p_child') = K
  BY <1>1, ListsSeenNext
<1> QED
  BY <1>1, <1>2, <1>3, <1>4
  DEF Lists!removeProcQ, Lists!tree, ProcQ, Children, Kids

(* outProcQ.                                                               *)
LEMMA SeenOutReady ==
    ASSUME NEW S, NEW K, Represents(S, K), NEW p \in Proc, OutReady(p)
    PROVE  Lists!outProcQ(p)
<1> DEFINE S2 == [S EXCEPT ![0] = RemoveFirst(@, p)]
<1>1. /\ Represents(S2, K)' /\ In(p, S[0]) /\ held' = held \cup {p}
      /\ p_semAdd' = p_semAdd /\ p_prnt' = p_prnt
  BY OutReadyStep
<1>2. /\ Ring(p_next, pcbList_h) = S[-1] /\ Ring(p_next, readyQ) = S[0]
      /\ ProcQ(p_next, semds) = Blocked(S)
      /\ Children(p_sib_next, p_child) = K
      /\ S \in [QueueId -> Seq(Proc)]
  BY ListsSeen
<1>3. /\ S2[-1] = S[-1] /\ S2[0] = RemoveFirst(S[0], p)
      /\ Blocked(S2) = Blocked(S)
  BY <1>2, Ids DEF Blocked
<1> HIDE DEF S2
<1>4. /\ Ring(p_next', pcbList_h') = S2[-1] /\ Ring(p_next', readyQ') = S2[0]
      /\ ProcQ(p_next', semds') = Blocked(S2)
      /\ Children(p_sib_next', p_child') = K
  BY <1>1, ListsSeenNext
<1>5. Contains(S[0], p)
  BY <1>1, <1>2, Ids, Members
<1> QED
  BY <1>1, <1>2, <1>3, <1>4, <1>5, SameOperators
  DEF Lists!outProcQ, Lists!tree, ProcQ, Children, Kids

(* insertBlocked.                                                          *)
LEMMA SeenInsertBlocked ==
    ASSUME NEW S, NEW K, Represents(S, K), NEW a \in Addr, NEW p \in Proc,
           insertBlocked(a, p)
    PROVE  Lists!insertBlocked(a, p)
<1> DEFINE S2 == [S EXCEPT ![a] = Append(@, p)]
<1>1. /\ Represents(S2, K)' /\ p \in held /\ held' = held \ {p}
      /\ p_semAdd' = [p_semAdd EXCEPT ![p] = a] /\ p_prnt' = p_prnt
  BY InsertBlockedStep
<1>2. /\ Ring(p_next, pcbList_h) = S[-1] /\ Ring(p_next, readyQ) = S[0]
      /\ ProcQ(p_next, semds) = Blocked(S)
      /\ Children(p_sib_next, p_child) = K
      /\ S \in [QueueId -> Seq(Proc)]
  BY ListsSeen
<1>3. /\ S2[-1] = S[-1] /\ S2[0] = S[0]
      /\ Blocked(S2) = [Blocked(S) EXCEPT ![a] = Append(@, p)]
  BY <1>2, Ids DEF Blocked
<1> HIDE DEF S2
<1>4. /\ Ring(p_next', pcbList_h') = S2[-1] /\ Ring(p_next', readyQ') = S2[0]
      /\ ProcQ(p_next', semds') = Blocked(S2)
      /\ Children(p_sib_next', p_child') = K
  BY <1>1, ListsSeenNext
<1> QED
  BY <1>1, <1>2, <1>3, <1>4
  DEF Lists!insertBlocked, Lists!tree, ProcQ, Children, Kids

(* removeBlocked.                                                          *)
LEMMA SeenRemoveBlocked ==
    ASSUME NEW S, NEW K, Represents(S, K), NEW a \in Addr, removeBlocked(a)
    PROVE  Lists!removeBlocked(a)
<1> DEFINE S2 == [S EXCEPT ![a] = Tail(@)]
<1>1. /\ Represents(S2, K)' /\ S[a] # <<>> /\ held' = held \cup {Head(S[a])}
      /\ p_semAdd' = p_semAdd /\ p_prnt' = p_prnt
  BY RemoveBlockedStep
<1>2. /\ Ring(p_next, pcbList_h) = S[-1] /\ Ring(p_next, readyQ) = S[0]
      /\ ProcQ(p_next, semds) = Blocked(S)
      /\ Children(p_sib_next, p_child) = K
      /\ S \in [QueueId -> Seq(Proc)]
  BY ListsSeen
<1>3. /\ S2[-1] = S[-1] /\ S2[0] = S[0] /\ Blocked(S)[a] = S[a]
      /\ Blocked(S2) = [Blocked(S) EXCEPT ![a] = Tail(@)]
  BY <1>2, Ids DEF Blocked
<1> HIDE DEF S2
<1>4. /\ Ring(p_next', pcbList_h') = S2[-1] /\ Ring(p_next', readyQ') = S2[0]
      /\ ProcQ(p_next', semds') = Blocked(S2)
      /\ Children(p_sib_next', p_child') = K
  BY <1>1, ListsSeenNext
<1> QED
  BY <1>1, <1>2, <1>3, <1>4
  DEF Lists!removeBlocked, Lists!tree, ProcQ, Children, Kids

(* outBlocked for a pcb that is no longer blocked changes nothing.         *)
LEMMA SeenOutBlocked ==
    ASSUME NEW S, NEW K, Represents(S, K), NEW p \in Proc, outBlocked(p)
    PROVE  Lists!outBlocked(p) \/ UNCHANGED Lists!listVars
<1>1. \E a : a = p_semAdd[p]
  OBVIOUS
<1>2. PICK a : a = p_semAdd[p]
  BY <1>1
<1> DEFINE S2 == [S EXCEPT ![a] = RemoveFirst(@, p)]
<1>3. /\ a \in Addr /\ p_semAdd' = p_semAdd /\ p_prnt' = p_prnt
      /\ \/ Represents(S2, K)' /\ In(p, S[a]) /\ held' = held \cup {p}
         \/ Represents(S, K)' /\ held' = held
  BY <1>2, OutBlockedStep
<1>4. /\ Ring(p_next, pcbList_h) = S[-1] /\ Ring(p_next, readyQ) = S[0]
      /\ ProcQ(p_next, semds) = Blocked(S)
      /\ Children(p_sib_next, p_child) = K
      /\ S \in [QueueId -> Seq(Proc)]
  BY ListsSeen
<1>5. CASE Represents(S2, K)' /\ In(p, S[a]) /\ held' = held \cup {p}
  <2>1. /\ S2[-1] = S[-1] /\ S2[0] = S[0] /\ Blocked(S)[a] = S[a]
        /\ Blocked(S2) = [Blocked(S) EXCEPT ![a] = RemoveFirst(@, p)]
    BY <1>3, <1>4, Ids DEF Blocked
  <2> HIDE DEF S2
  <2>2. /\ Ring(p_next', pcbList_h') = S2[-1] /\ Ring(p_next', readyQ') = S2[0]
        /\ ProcQ(p_next', semds') = Blocked(S2)
        /\ Children(p_sib_next', p_child') = K
    BY <1>5, ListsSeenNext
  <2>3. Contains(S[a], p)
    BY <1>3, <1>4, <1>5, Ids, Members
  <2>4. a # NULL
    BY <1>3, RingsAssumption
  <2>5. Lists!outBlocked(p)
    <3> DEFINE Q == ProcQ(p_next, semds)
               Q2 == ProcQ(p_next', semds')
    <3>1. Q[a] = S[a] /\ Contains(Q[a], p)
      BY <1>4, <2>1, <2>3
    <3>2. Q2 = [Q EXCEPT ![a] = RemoveFirst(@, p)]
      BY <1>4, <2>1, <2>2
    <3>3. UNCHANGED <<Ring(p_next, pcbList_h), Ring(p_next, readyQ),
                      Children(p_sib_next, p_child)>>
      BY <1>4, <2>1, <2>2 DEF Children
    <3>4. /\ p_semAdd[p] # NULL
          /\ Lists!Contains(Q[p_semAdd[p]], p)
          /\ Q2 = [Q EXCEPT ![p_semAdd[p]] = Lists!RemoveFirst(@, p)]
      <4>1. p_semAdd[p] = a
        BY <1>2
      <4>2. Lists!Contains(Q[a], p)
        BY <3>1, SameOperators
      <4>3. Lists!RemoveFirst(Q[a], p) = RemoveFirst(Q[a], p)
        BY SameOperators
      <4> HIDE DEF Q, Q2
      <4> QED
        BY <2>4, <3>2, <4>1, <4>2, <4>3
    <3>5. Q2 = Q'
      BY DEF ProcQ
    <3> QED
      BY <1>3, <1>5, <3>3, <3>4, <3>5
      DEF Lists!outBlocked, Lists!tree, ProcQ, Children, Kids
  <2> QED
    BY <2>5
<1>6. CASE Represents(S, K)' /\ held' = held
  <2>1. /\ Ring(p_next', pcbList_h') = S[-1] /\ Ring(p_next', readyQ') = S[0]
        /\ ProcQ(p_next', semds') = Blocked(S)
        /\ Children(p_sib_next', p_child') = K
    BY <1>6, ListsSeenNext
  <2>2. UNCHANGED Lists!listVars
    BY <1>3, <1>4, <1>6, <2>1
    DEF Lists!listVars, Lists!queues, Lists!tree, ProcQ, Children, Kids
  <2> QED
    BY <2>2
<1> QED
  BY <1>3, <1>5, <1>6

(* The operations on the tree leave what is seen of the queues.            *)
LEMMA QueuesSeen ==
    ASSUME UNCHANGED queues
    PROVE  UNCHANGED Lists!queues
<1>1. /\ p_next' = p_next /\ p_semAdd' = p_semAdd
      /\ pcbList_h' = pcbList_h /\ readyQ' = readyQ /\ semds' = semds
      /\ held' = held
  BY DEF queues
<1> QED
  BY <1>1 DEF Lists!queues

(* insertChild.                                                            *)
LEMMA SeenInsertChild ==
    ASSUME NEW S, NEW K, Represents(S, K), NEW q \in Proc, NEW p \in Proc,
           insertChild(q, p)
    PROVE  Lists!insertChild(q, p)
<1> DEFINE K2 == [K EXCEPT ![q] = <<p>> \o @]
<1>1. /\ \A L : L = K2 => Represents(S, L)'
      /\ q \in held /\ p \in held /\ p # q
      /\ p_prnt[p] = NULL /\ K[p] = <<>>
      /\ p_prnt' = [p_prnt EXCEPT ![p] = q]
      /\ UNCHANGED queues
  BY InsertChildStep
<1>2. Children(p_sib_next, p_child) = K
  BY ListsSeen
<1>3. UNCHANGED Lists!queues
  BY <1>1, QueuesSeen
<1>4. Children(p_sib_next', p_child') = K2
  <2> HIDE DEF K2
  <2> QED
    BY <1>1, ListsSeenNext
<1> QED
  BY <1>1, <1>2, <1>3, <1>4 DEF Lists!insertChild, Children, Kids

(* removeChild.                                                            *)
LEMMA SeenRemoveChild ==
    ASSUME NEW S, NEW K, Represents(S, K), NEW q \in Proc, removeChild(q)
    PROVE  Lists!removeChild(q)
<1> DEFINE K2 == [K EXCEPT ![q] = Tail(@)]
<1>1. Represents(S, K2)' /\ K[q] # <<>> /\ UNCHANGED <<queues, p_prnt>>
  BY RemoveChildStep
<1>2. Children(p_sib_next, p_child) = K
  BY ListsSeen
<1>3. UNCHANGED Lists!queues /\ held' = held
  BY <1>1, QueuesSeen DEF queues
<1>4. Children(p_sib_next', p_child') = K2
  <2> HIDE DEF K2
  <2> QED
    BY <1>1, ListsSeenNext
<1> QED
  BY <1>1, <1>2, <1>3, <1>4 DEF Lists!removeChild, Children, Kids

(* outChild.                                                               *)
LEMMA SeenOutChild ==
    ASSUME NEW S, NEW K, Represents(S, K), NEW p \in Proc, outChild(p)
    PROVE  Lists!outChild(p)
<1>1. \E q : q = p_prnt[p]
  OBVIOUS
<1>2. PICK q : q = p_prnt[p]
  BY <1>1
<1> DEFINE K2 == [K EXCEPT ![q] = RemoveFirst(@, p)]
<1>3. /\ q \in Proc /\ In(p, K[q]) /\ Represents(S, K2)'
      /\ UNCHANGED <<queues, p_prnt>>
  BY <1>2, OutChildStep
<1>4. Children(p_sib_next, p_child) = K /\ K \in [Proc -> Seq(Proc)]
  BY ListsSeen
<1>5. UNCHANGED Lists!queues /\ held' = held
  BY <1>3, QueuesSeen DEF queues
<1>6. Children(p_sib_next', p_child') = K2
  <2> HIDE DEF K2
  <2> QED
    BY <1>3, ListsSeenNext
<1>7. Contains(K[q], p)
  BY <1>3, <1>4, Members
<1> QED
  BY <1>2, <1>3, <1>4, <1>5, <1>6, <1>7, SameOperators
  DEF Lists!outChild, Lists!IsChild, Children, Kids

-----------------------------------------------------------------------------
(* A change of one queue loses no pcb if it loses none of those on it and  *)
(* of those held.                                                          *)
LEMMA CompleteKept ==
    ASSUME NEW S \in [QueueId -> Seq(Proc)], NEW k \in QueueId, NEW s,
           Complete(S),
           \A x \in Proc : x \in held \/ In(x, S[k]) => x \in held' \/ In(x, s)
    PROVE  Complete([S EXCEPT ![k] = s])'
<1> DEFINE S2 == [S EXCEPT ![k] = s]
<1>1. S2[k] = s /\ \A l \in QueueId : l # k => S2[l] = S[l]
  OBVIOUS
<1> HIDE DEF S2
<1>2. ASSUME NEW p \in Proc
      PROVE  p \in held' \/ \E l \in QueueId : In(p, S2[l])
  <2>1. CASE p \in held \/ In(p, S[k])
    BY <1>1, <2>1
  <2>2. CASE ~(p \in held \/ In(p, S[k]))
    <3>1. PICK l \in QueueId : In(p, S[l])
      BY <2>2 DEF Complete
    <3>2. l # k
      BY <2>2, <3>1
    <3> QED
      BY <1>1, <3>1, <3>2
  <2> QED
    BY <2>1, <2>2
<1>3. Complete(S2)'
  BY <1>2 DEF Complete
<1> QED
  BY <1>3 DEF S2

(* A pcb is put on a queue,                                                *)
LEMMA CompleteAppend ==
    ASSUME NEW S, NEW K, Represents(S, K), Complete(S), NEW k \in QueueId,
           NEW p \in Proc, held' = held \ {p}
    PROVE  Complete([S EXCEPT ![k] = Append(@, p)])'
<1>1. S \in [QueueId -> Seq(Proc)] /\ S[k] \in Seq(Proc)
  BY DEF Represents, RingsOK
<1> DEFINE s == Append(S[k], p)
<1>2. \A x : In(x, s) <=> In(x, S[k]) \/ x = p
  BY <1>1, InAppend
<1> HIDE DEF s
<1>3. \A x \in Proc : x \in held \/ In(x, S[k]) => x \in held' \/ In(x, s)
  BY <1>2
<1>4. Complete([S EXCEPT ![k] = s])'
  BY <1>1, <1>3, CompleteKept
<1> QED
  BY <1>4 DEF s

(* its head is taken,                                                      *)
LEMMA CompleteTail ==
    ASSUME NEW S, NEW K, Represents(S, K), Complete(S), NEW k \in QueueId,
           S[k] # <<>>, held' = held \cup {Head(S[k])}
    PROVE  Complete([S EXCEPT ![k] = Tail(@)])'
<1>1. S \in [QueueId -> Seq(Proc)] /\ S[k] \in Seq(Proc)
  BY DEF Represents, RingsOK
<1> DEFINE s == Tail(S[k])
<1>2. \A x : In(x, S[k]) => In(x, s) \/ x = Head(S[k])
  BY <1>1, InTailOr
<1> HIDE DEF s
<1>3. \A x \in Proc : x \in held \/ In(x, S[k]) => x \in held' \/ In(x, s)
  BY <1>2
<1>4. Complete([S EXCEPT ![k] = s])'
  BY <1>1, <1>3, CompleteKept
<1> QED
  BY <1>4 DEF s

(* or one is taken out.                                                    *)
LEMMA CompleteOut ==
    ASSUME NEW S, NEW K, Represents(S, K), Complete(S), NEW k \in QueueId,
           NEW p, In(p, S[k]), held' = held \cup {p}
    PROVE  Complete([S EXCEPT ![k] = RemoveFirst(@, p)])'
<1>1. S \in [QueueId -> Seq(Proc)] /\ S[k] \in Seq(Proc) /\ Simple(S[k])
  <2>1. RingsOK(p_next, p_prev, QTails(pcbList_h, readyQ, semds), S, held)
    BY DEF Represents
  <2> QED
    BY <2>1, RingsParts DEF RingsOK
<1> DEFINE s == RemoveFirst(S[k], p)
<1>2. \A x : In(x, S[k]) => In(x, s) \/ x = p
  BY <1>1, InRemovedOr
<1> HIDE DEF s
<1>3. \A x \in Proc : x \in held \/ In(x, S[k]) => x \in held' \/ In(x, s)
  BY <1>2
<1>4. Complete([S EXCEPT ![k] = s])'
  BY <1>1, <1>3, CompleteKept
<1> QED
  BY <1>4 DEF s

(* At the start each pcb is free.                                          *)
LEMMA CompleteStart ==
    ASSUME NEW t \in [1 .. MAXPROC -> Proc], IsInjective(t)
    PROVE  Complete(StartQueues(t))
<1>1. MAXPROC \in Nat /\ Cardinality(1 .. MAXPROC) = Cardinality(Proc)
  BY RingsAssumption, FS_CardinalityType, FS_Interval DEF MAXPROC
<1>2. t \in Injection(1 .. MAXPROC, Proc)
  BY DEF Injection, IsInjective
<1>3. t \in Surjection(1 .. MAXPROC, Proc)
  BY <1>1, <1>2, RingsAssumption, FS_Injection
<1>4. \A p \in Proc : \E i \in 1 .. MAXPROC : t[i] = p
  BY <1>3 DEF Surjection
<1>5. Len(t) = MAXPROC
  BY <1>1, SeqFrom
<1>6. -1 \in QueueId /\ StartQueues(t)[-1] = t
  BY Ids DEF StartQueues
<1> QED
  BY <1>4, <1>5, <1>6 DEF Complete, In

-----------------------------------------------------------------------------
(* Every step keeps the structures well formed and is a step of ProcLists, *)
(* or one that ProcLists does not see.                                     *)
LEMMA EveryStep ==
    ASSUME NEW S, NEW K, Represents(S, K), Complete(S), [Next]_vars
    PROVE  IInv' /\ [Lists!Next]_(Lists!listVars)
<1>1. CASE allocPcb
  <2>1. Represents([S EXCEPT ![-1] = Tail(@)], K)'
    BY <1>1, AllocStep
  <2>2. Complete([S EXCEPT ![-1] = Tail(@)])'
    BY <1>1, AllocStep, CompleteTail, Ids
  <2>3. Lists!allocPcb
    BY <1>1, SeenAlloc
  <2> QED
    BY <2>1, <2>2, <2>3 DEF IInv, Lists!Next
<1>2. ASSUME NEW p \in Proc, freePcb(p)
      PROVE  IInv' /\ [Lists!Next]_(Lists!listVars)
  <2>1. Represents([S EXCEPT ![-1] = Append(@, p)], K)'
    BY <1>2, FreeStep
  <2>2. Complete([S EXCEPT ![-1] = Append(@, p)])'
    BY <1>2, FreeStep, CompleteAppend, Ids
  <2>3. Lists!freePcb(p)
    BY <1>2, SeenFree
  <2> QED
    BY <2>1, <2>2, <2>3 DEF IInv, Lists!Next
<1>3. CASE RemoveReady
  <2>1. Represents([S EXCEPT ![0] = Tail(@)], K)'
    BY <1>3, RemoveReadyStep
  <2>2. Complete([S EXCEPT ![0] = Tail(@)])'
    BY <1>3, RemoveReadyStep, CompleteTail, Ids
  <2>3. Lists!removeProcQ
    BY <1>3, SeenRemoveReady
  <2> QED
    BY <2>1, <2>2, <2>3 DEF IInv, Lists!Next
<1>4. ASSUME NEW p \in Proc, InsertReady(p)
      PROVE  IInv' /\ [Lists!Next]_(Lists!listVars)
  <2>1. Represents([S EXCEPT ![0] = Append(@, p)], K)'
    BY <1>4, InsertReadyStep
  <2>2. Complete([S EXCEPT ![0] = Append(@, p)])'
    BY <1>4, InsertReadyStep, CompleteAppend, Ids
  <2>3. Lists!insertProcQ(p)
    BY <1>4, SeenInsertReady
  <2> QED
    BY <2>1, <2>2, <2>3 DEF IInv, Lists!Next
<1>5. ASSUME NEW p \in Proc, OutReady(p)
      PROVE  IInv' /\ [Lists!Next]_(Lists!listVars)
  <2>1. Represents([S EXCEPT ![0] = RemoveFirst(@, p)], K)'
    BY <1>5, OutReadyStep
  <2>2. Complete([S EXCEPT ![0] = RemoveFirst(@, p)])'
    BY <1>5, OutReadyStep, CompleteOut, Ids
  <2>3. Lists!outProcQ(p)
    BY <1>5, SeenOutReady
  <2> QED
    BY <2>1, <2>2, <2>3 DEF IInv, Lists!Next
<1>6. ASSUME NEW p \in Proc, outBlocked(p)
      PROVE  IInv' /\ [Lists!Next]_(Lists!listVars)
  <2>1. \E a : a = p_semAdd[p]
    OBVIOUS
  <2>2. PICK a : a = p_semAdd[p]
    BY <2>1
  <2>3. \/ /\ Represents([S EXCEPT ![a] = RemoveFirst(@, p)], K)'
           /\ In(p, S[a]) /\ held' = held \cup {p} /\ a \in Addr
        \/ Represents(S, K)' /\ held' = held
    BY <1>6, <2>2, OutBlockedStep
  <2>5. \/ /\ Represents([S EXCEPT ![a] = RemoveFirst(@, p)], K)'
           /\ Complete([S EXCEPT ![a] = RemoveFirst(@, p)])'
        \/ Represents(S, K)' /\ Complete(S)'
    <3>1. CASE In(p, S[a]) /\ held' = held \cup {p} /\ a \in Addr
      BY <2>3, <3>1, CompleteOut, Ids DEF Complete
    <3>2. CASE Represents(S, K)' /\ held' = held
      BY <3>2 DEF Complete
    <3> QED
      BY <2>3, <3>1, <3>2
  <2>4. Lists!outBlocked(p) \/ UNCHANGED Lists!listVars
    BY <1>6, SeenOutBlocked
  <2> QED
    BY <2>4, <2>5 DEF IInv, Lists!Next
<1>7. ASSUME NEW a \in Addr, removeBlocked(a)
      PROVE  IInv' /\ [Lists!Next]_(Lists!listVars)
  <2>1. Represents([S EXCEPT ![a] = Tail(@)], K)'
    BY <1>7, RemoveBlockedStep
  <2>2. Complete([S EXCEPT ![a] = Tail(@)])'
    BY <1>7, RemoveBlockedStep, CompleteTail, Ids
  <2>3. Lists!removeBlocked(a)
    BY <1>7, SeenRemoveBlocked
  <2> QED
    BY <2>1, <2>2, <2>3 DEF IInv, Lists!Next
<1>8. ASSUME NEW a \in Addr, NEW p \in Proc, insertBlocked(a, p)
      PROVE  IInv' /\ [Lists!Next]_(Lists!listVars)
  <2>1. Represents([S EXCEPT ![a] = Append(@, p)], K)'
    BY <1>8, InsertBlockedStep
  <2>2. Complete([S EXCEPT ![a] = Append(@, p)])'
    BY <1>8, InsertBlockedStep, CompleteAppend, Ids
  <2>3. Lists!insertBlocked(a, p)
    BY <1>8, SeenInsertBlocked
  <2> QED
    BY <2>1, <2>2, <2>3 DEF IInv, Lists!Next
<1>9. ASSUME NEW q \in Proc, NEW p \in Proc, insertChild(q, p)
      PROVE  IInv' /\ [Lists!Next]_(Lists!listVars)
  <2>1. \A L : L = [K EXCEPT ![q] = <<p>> \o @] => Represents(S, L)'
    BY <1>9, InsertChildStep, ZenonT(30)
  <2>2. \E L : Represents(S, L)'
    BY <2>1
  <2>3. Lists!insertChild(q, p)
    BY <1>9, SeenInsertChild
  <2>4. Complete(S)'
    <3>1. held' = held
      BY <1>9, InsertChildStep DEF queues
    <3> QED
      BY <3>1 DEF Complete
  <2> QED
    BY <2>2, <2>3, <2>4 DEF IInv, Lists!Next
<1>10. ASSUME NEW p \in Proc, removeChild(p)
       PROVE  IInv' /\ [Lists!Next]_(Lists!listVars)
  <2>1. Represents(S, [K EXCEPT ![p] = Tail(@)])'
    BY <1>10, RemoveChildStep
  <2>2. Lists!removeChild(p)
    BY <1>10, SeenRemoveChild
  <2>3. Complete(S)'
    <3>1. held' = held
      BY <1>10, RemoveChildStep DEF queues
    <3> QED
      BY <3>1 DEF Complete
  <2> QED
    BY <2>1, <2>2, <2>3 DEF IInv, Lists!Next
<1>11. ASSUME NEW p \in Proc, outChild(p)
       PROVE  IInv' /\ [Lists!Next]_(Lists!listVars)
  <2>1. \E q : q = p_prnt[p]
    OBVIOUS
  <2>2. PICK q : q = p_prnt[p]
    BY <2>1
  <2>3. Represents(S, [K EXCEPT ![q] = RemoveFirst(@, p)])'
    BY <1>11, <2>2, OutChildStep
  <2>4. Lists!outChild(p)
    BY <1>11, SeenOutChild
  <2>5. Complete(S)'
    <3>1. held' = held
      BY <1>11, <2>2, OutChildStep DEF queues
    <3> QED
      BY <3>1 DEF Complete
  <2> QED
    BY <2>3, <2>4, <2>5 DEF IInv, Lists!Next
<1>12. CASE UNCHANGED vars
  <2>1. UNCHANGED queues /\ UNCHANGED tree
    BY <1>12 DEF vars
  <2>2. Represents(S, K)'
    BY <2>1 DEF queues, tree, Represents
  <2>3. UNCHANGED Lists!listVars
    BY <2>1 DEF queues, tree, Lists!listVars, Lists!queues, Lists!tree, Kids
  <2>4. Complete(S)'
    BY <2>1 DEF queues, Complete
  <2> QED
    BY <2>2, <2>3, <2>4 DEF IInv
<1> QED
  BY <1>1, <1>2, <1>3, <1>4, <1>5, <1>6, <1>7, <1>8, <1>9, <1>10, <1>11, <1>12
  DEF Next, UseQueues, UseTree

(* The structures stand for sequences at the start,                        *)
LEMMA IInvInit == Init => IInv
<1> SUFFICES ASSUME Init  PROVE IInv
  OBVIOUS
<1>1. PICK t \in {f \in [1 .. MAXPROC -> Proc] : IsInjective(f)} :
          Represents(StartQueues(t), StartKids)
  BY InitStep
<1>2. Complete(StartQueues(t))
  BY CompleteStart
<1> QED
  BY <1>1, <1>2 DEF IInv

(* after every step,                                                       *)
LEMMA IInvNext == IInv /\ [Next]_vars => IInv'
  BY EveryStep DEF IInv

(* and so always.                                                          *)
LEMMA IInvAlways == Spec => []IInv
<1>1. Init => IInv
  BY IInvInit
<1>2. IInv /\ [Next]_vars => IInv'
  BY IInvNext
<1> QED
  BY <1>1, <1>2, PTL DEF Spec

(* Phase1.TypeOK: every pointer of a pcb or a descriptor is NULL or points *)
(* to one, whatever the functions of pcb.c and asl.c have done to it.      *)
THEOREM Phase1Types == Spec => []TypeOK
<1>1. IInv => TypeOK
  <2>1. SUFFICES ASSUME NEW S, NEW K, Represents(S, K)
                 PROVE  TypeOK
    BY DEF IInv
  <2> DEFINE T == QTails(pcbList_h, readyQ, semds)
  <2>2. /\ RingsOK(p_next, p_prev, T, S, held) /\ AslOK(semds)
        /\ TreeOK(p_sib_next, p_sib_prev, p_prnt, p_child, K)
        /\ p_semAdd \in [Proc -> Addr \cup {NULL}]
    BY <2>1 DEF Represents
  <2>3. T[-1] = pcbList_h /\ T[0] = readyQ
    BY TailsAre
  <2> HIDE DEF T
  <2>4. {pcbList_h, readyQ} \subseteq Proc \cup {NULL}
    BY <2>2, <2>3, Ids DEF RingsOK
  <2>5. semds \in Heap
    BY <2>2 DEF AslOK, Shape
  <2>6. /\ p_next \in Links /\ p_prev \in Links /\ held \subseteq Proc
        /\ p_sib_next \in Links /\ p_sib_prev \in Links
        /\ p_prnt \in Links /\ p_child \in Links
    BY <2>2 DEF RingsOK, TreeOK
  <2> QED
    BY <2>2, <2>4, <2>5, <2>6 DEF TypeOK, Links
<1> QED
  BY <1>1, IInvAlways, PTL

(* Phase1.RingsDoublyLinked: every queue can be walked backwards from its  *)
(* tail, which outProcQ does (pcb.c:178-188).                              *)
THEOREM RingsStayLinked == Spec => []RingsDoublyLinked
<1>1. IInv => RingsDoublyLinked
  <2>1. SUFFICES ASSUME NEW S, NEW K, Represents(S, K)
                 PROVE  RingsDoublyLinked
    BY DEF IInv
  <2> DEFINE T == QTails(pcbList_h, readyQ, semds)
  <2>2. RingsOK(p_next, p_prev, T, S, held) /\ AslOK(semds)
    BY <2>1 DEF Represents
  <2>3. ASSUME NEW tp \in Tails
        PROVE  \E k \in QueueId : T[k] = tp
    <3>1. CASE tp = pcbList_h \/ tp = readyQ
      BY <3>1, TailsAre, Ids
    <3>2. CASE \E a \in Addr : Active(semds, a) /\ tp = Queue(semds, a)
      <4>1. PICK a \in Addr : Active(semds, a) /\ tp = Queue(semds, a)
        BY <3>2
      <4>2. T[a] = TailOf(semds)[a] /\ a \in QueueId
        BY TailsAre, Ids
      <4>3. tp = TailOf(semds)[a]
        BY <2>2, <4>1, ActiveTail
      <4> QED
        BY <4>2, <4>3
    <3> QED
      BY <3>1, <3>2 DEF Tails
  <2> HIDE DEF T
  <2>4. ASSUME NEW tp \in Tails \ {NULL}
        PROVE  /\ Last(Ring(p_next, tp)) = tp
               /\ \A p \in ToSet(Ring(p_next, tp)) :
                     p_next[p] \in Proc /\ p_prev[p_next[p]] = p
    <3>1. PICK k \in QueueId : T[k] = tp
      BY <2>3
    <3> DEFINE s == S[k]
               n == Len(s)
    <3>2. /\ IsRing(OfTail(p_next, p_prev, tp), s) /\ s \in Seq(Proc)
          /\ Simple(s) /\ Ring(p_next, tp) = s
          /\ s # <<>>
      BY <2>2, <3>1, RingsParts
    <3> HIDE DEF s
    <3>3. n \in Nat /\ n # 0 /\ \A i \in 1 .. n : s[i] \in Proc
      BY <3>2, SeqFacts
    <3>4. /\ tp = s[n]
          /\ \A i \in 1 .. n :
                /\ p_next[s[i]] = IF i = n THEN s[1] ELSE s[i + 1]
                /\ p_prev[s[i]] = IF i = 1 THEN s[n] ELSE s[i - 1]
      BY <3>2 DEF IsRing, OfTail
    <3>5. Last(s) = tp
      BY <3>4 DEF Last
    <3>6. ASSUME NEW p \in ToSet(s)
          PROVE  p_next[p] \in Proc /\ p_prev[p_next[p]] = p
      <4>1. In(p, s)
        BY <3>2, Members
      <4>2. PICK i \in 1 .. n : s[i] = p
        BY <4>1 DEF In
      <4> HIDE DEF n
      <4>3. CASE i = n
        <5>1. 1 \in 1 .. n /\ n \in 1 .. n
          BY <3>3
        <5>2. p_next[p] = s[1] /\ p_prev[s[1]] = s[n]
          BY <3>4, <4>2, <4>3, <5>1
        <5> QED
          BY <3>3, <4>2, <4>3, <5>1, <5>2
      <4>4. CASE i # n
        <5>1. i + 1 \in 1 .. n /\ i + 1 # 1 /\ (i + 1) - 1 = i
          BY <3>3, <4>4
        <5>2. p_next[p] = s[i + 1] /\ p_prev[s[i + 1]] = s[(i + 1) - 1]
          BY <3>4, <4>2, <4>4, <5>1
        <5> QED
          BY <3>3, <4>2, <5>1, <5>2
      <4> QED
        BY <4>3, <4>4
    <3> QED
      BY <3>2, <3>5, <3>6
  <2> QED
    BY <2>4 DEF RingsDoublyLinked
<1> QED
  BY <1>1, IInvAlways, PTL

(* Phase1.AslSound: the ASL is in ascending order between its dummies, has *)
(* a descriptor just for the addresses where pcbs wait, and loses none     *)
(* (asl.c:7-12, 100-102).                                                  *)
THEOREM AslStaysSound == Spec => []AslSound
<1>1. IInv => AslSound
  <2>1. SUFFICES ASSUME NEW S, NEW K, Represents(S, K)
                 PROVE  AslSound
    BY DEF IInv
  <2>2. AslOK(semds)
    BY <2>1 DEF Represents
  <2>3. \E asl : \E fr : Shape(semds, asl, fr) /\ Waited(semds, asl)
    BY <2>2 DEF AslOK
  <2>4. PICK asl : \E fr : Shape(semds, asl, fr) /\ Waited(semds, asl)
    BY <2>3
  <2>5. PICK fr : Shape(semds, asl, fr) /\ Waited(semds, asl)
    BY <2>4
  <2> DEFINE n == Len(asl)
             keys == [i \in DOMAIN asl |-> semds.add[asl[i]]]
  <2>6. /\ Chain(semds.next, semds.head) = asl
        /\ Chain(semds.next, semds.free) = fr
        /\ asl \in Seq(Semd) /\ fr \in Seq(Semd) /\ n \in Nat /\ n >= 2
        /\ semds.add[asl[1]] = 0 /\ semds.add[asl[n]] = NULL
        /\ \A s \in Semd : semds.add[s] \in Nat
        /\ \A i \in 1 .. n : asl[i] \in Semd
    BY <2>5, ShapeParts
  <2>7. /\ \A i, j \in 1 .. n : i < j => semds.add[asl[i]] < semds.add[asl[j]]
        /\ \A x : In(x, asl) => ~In(x, fr)
        /\ n + Len(fr) = MAXPROC + 2
        /\ \A i \in 2 .. n - 1 : semds.q[asl[i]] # NULL
    BY <2>5 DEF Shape, Waited
  <2>8. DOMAIN asl = 1 .. n
    BY <2>6, LenProperties
  <2> HIDE DEF n
  <2>9. /\ keys \in Seq(Nat) /\ Len(keys) = n
        /\ \A i \in 1 .. n : keys[i] = semds.add[asl[i]]
    <3>1. keys \in [1 .. n -> Nat]
      BY <2>6, <2>8
    <3>2. keys \in Seq(Nat) /\ Len(keys) = n
      <4> HIDE DEF keys
      <4> QED
        BY <2>6, <3>1, SeqFrom
    <3>3. \A i \in 1 .. n : keys[i] = semds.add[asl[i]]
      BY <2>8
    <3> QED
      BY <3>2, <3>3
  <2> HIDE DEF keys
  <2>10. Head(keys) = 0 /\ Last(keys) = NULL
    <3>1. 1 \in 1 .. n /\ n \in 1 .. n
      BY <2>6
    <3>2. keys[1] = 0 /\ keys[n] = NULL
      BY <2>6, <2>9, <3>1
    <3>3. Head(keys) = keys[1]
      BY DEF Head
    <3> QED
      BY <2>9, <3>2, <3>3 DEF Last
  <2>11. \A i \in 2 .. Len(keys) : keys[i - 1] < keys[i]
    <3>1. ASSUME NEW i \in 2 .. n
          PROVE  keys[i - 1] < keys[i]
      <4>1. i - 1 \in 1 .. n /\ i \in 1 .. n /\ i - 1 < i
        BY <2>6
      <4> QED
        BY <2>7, <2>9, <4>1
    <3> QED
      BY <2>9, <3>1
  <2>12. ToSet(asl) \cap ToSet(fr) = {}
    BY <2>6, <2>7, Members
  <2>13. \A i \in 2 .. Len(keys) - 1 : semds.q[asl[i]] # NULL
    BY <2>7, <2>9
  <2>14. Len(asl) + Len(fr) = MAXPROC + 2
    BY <2>7 DEF n
  <2> QED
    BY <2>6, <2>10, <2>11, <2>12, <2>13, <2>14 DEF AslSound, keys
<1> QED
  BY <1>1, IInvAlways, PTL

(* Phase1.SiblingsLinked: any child can be taken out of its parent's list  *)
(* by outChild (pcb.c:303-312).                                            *)
THEOREM SiblingsStayLinked == Spec => []SiblingsLinked
<1>1. IInv => SiblingsLinked
  <2>1. SUFFICES ASSUME NEW S, NEW K, Represents(S, K), NEW q \in Proc
                 PROVE  \A i \in DOMAIN Kids(q) :
                           /\ p_prnt[Kids(q)[i]] = q
                           /\ p_sib_prev[Kids(q)[i]] =
                                 IF i = 1 THEN NULL ELSE Kids(q)[i - 1]
    BY DEF IInv, SiblingsLinked
  <2>2. TreeOK(p_sib_next, p_sib_prev, p_prnt, p_child, K)
    BY <2>1 DEF Represents
  <2> DEFINE s == K[q]
  <2>3. /\ s \in Seq(Proc) /\ Chain(p_sib_next, p_child[q]) = s
        /\ \A i \in 1 .. Len(s) :
              /\ p_prnt[s[i]] = q
              /\ p_sib_prev[s[i]] = IF i = 1 THEN NULL ELSE s[i - 1]
    BY <2>2, TreeParts
  <2>4. DOMAIN s = 1 .. Len(s)
    BY <2>3, LenProperties
  <2> HIDE DEF s
  <2> QED
    BY <2>3, <2>4 DEF Kids
<1> QED
  BY <1>1, IInvAlways, PTL

(* One of four, as OneList has it.                                         *)
LEMMA OneOfFour ==
    ASSUME NEW a \in BOOLEAN, NEW b \in BOOLEAN, NEW c \in BOOLEAN, NEW d \in BOOLEAN,
           a \/ b \/ c \/ d,
           a => ~b /\ ~c /\ ~d, b => ~c /\ ~d, c => ~d
    PROVE  \E i \in 1 .. 4 : \A j \in 1 .. 4 : <<a, b, c, d>>[j] <=> j = i
<1> DEFINE t == <<a, b, c, d>>
<1>1. t[1] = a /\ t[2] = b /\ t[3] = c /\ t[4] = d
  OBVIOUS
<1>2. \A j \in 1 .. 4 : j = 1 \/ j = 2 \/ j = 3 \/ j = 4
  OBVIOUS
<1> HIDE DEF t
<1>3. CASE a
  <2>1. \A j \in 1 .. 4 : t[j] <=> j = 1
    BY <1>1, <1>2, <1>3
  <2> QED
    BY <2>1 DEF t
<1>4. CASE b
  <2>1. \A j \in 1 .. 4 : t[j] <=> j = 2
    BY <1>1, <1>2, <1>4
  <2> QED
    BY <2>1 DEF t
<1>5. CASE c
  <2>1. \A j \in 1 .. 4 : t[j] <=> j = 3
    BY <1>1, <1>2, <1>5
  <2> QED
    BY <2>1 DEF t
<1>6. CASE d
  <2>1. \A j \in 1 .. 4 : t[j] <=> j = 4
    BY <1>1, <1>2, <1>6
  <2> QED
    BY <2>1 DEF t
<1> QED
  BY <1>3, <1>4, <1>5, <1>6

(* Phase1.OneList: no function of pcb.c and asl.c leaves a pcb on two      *)
(* lists or lets it get lost, also if insertBlocked needs a descriptor or  *)
(* outBlocked does not find the pcb (asl.c:54-94, 123-147).                *)
THEOREM PcbsKeepOneList == Spec => []OneList
<1>1. IInv => OneList
  <2>1. SUFFICES ASSUME NEW S, NEW K, Represents(S, K), Complete(S),
                        NEW p \in Proc
                 PROVE  LET Q     == ProcQ(p_next, semds)
                            waits == {a \in Addr : Lists!Contains(Q[a], p)}
                            place == <<p \in held,
                                       Lists!Contains(Ring(p_next, pcbList_h), p),
                                       Lists!Contains(Ring(p_next, readyQ), p),
                                       waits # {}>>
                        IN  /\ \E i \in 1 .. 4 : \A j \in 1 .. 4 : place[j] <=> j = i
                            /\ \A a, b \in waits : a = b
    BY DEF IInv, OneList, Lists!OneList, ProcQ
  <2> DEFINE Q     == ProcQ(p_next, semds)
             waits == {a \in Addr : Lists!Contains(Q[a], p)}
  <2>2. RingsOK(p_next, p_prev, QTails(pcbList_h, readyQ, semds), S, held)
    BY <2>1 DEF Represents
  <2>3. /\ \A k, l \in QueueId : In(p, S[k]) /\ In(p, S[l]) => k = l
        /\ \A k \in QueueId : In(p, S[k]) => p \notin held
        /\ p \in held \/ \E k \in QueueId : In(p, S[k])
        /\ \A k \in QueueId : S[k] \in Seq(Proc)
    BY <2>1, <2>2 DEF RingsOK, Complete
  <2>4. /\ Ring(p_next, pcbList_h) = S[-1] /\ Ring(p_next, readyQ) = S[0]
        /\ Q = Blocked(S)
    BY <2>1, ListsSeen
  <2>5. \A k \in QueueId : Lists!Contains(S[k], p) = In(p, S[k])
    BY <2>3, Members, SameOperators DEF In, Contains
  <2>6. \A a \in Addr : Q[a] = S[a]
    BY <2>4 DEF Blocked
  <2>7. waits = {a \in Addr : In(p, S[a])}
    BY <2>5, <2>6, Ids
  <2> HIDE DEF Q, waits
  <2>8. \A a, b \in waits : a = b
    BY <2>3, <2>7, Ids
  <2>9. \E i \in 1 .. 4 : \A j \in 1 .. 4 :
            <<p \in held, In(p, S[-1]), In(p, S[0]), waits # {}>>[j] <=> j = i
    <3> DEFINE a == p \in held
               b == In(p, S[-1])
               c == In(p, S[0])
               d == waits # {}
    <3>1. a \in BOOLEAN /\ b \in BOOLEAN /\ c \in BOOLEAN /\ d \in BOOLEAN
      BY DEF In
    <3>2. p \in held \/ In(p, S[-1]) \/ In(p, S[0]) \/ waits # {}
      BY <2>3, <2>7 DEF QueueId
    <3>3. /\ p \in held => ~In(p, S[-1]) /\ ~In(p, S[0]) /\ ~(waits # {})
          /\ In(p, S[-1]) => ~In(p, S[0]) /\ ~(waits # {})
          /\ In(p, S[0]) => ~(waits # {})
      BY <2>3, <2>7, Ids
    <3>4. (a \/ b \/ c \/ d) /\ (a => ~b /\ ~c /\ ~d) /\ (b => ~c /\ ~d) /\ (c => ~d)
      BY <3>2, <3>3
    <3> HIDE DEF a, b, c, d
    <3>5. \E i \in 1 .. 4 : \A j \in 1 .. 4 : <<a, b, c, d>>[j] <=> j = i
      BY <3>1, <3>4, OneOfFour
    <3> QED
      BY <3>5 DEF a, b, c, d
  <2> QED
    BY <2>4, <2>5, <2>8, <2>9, Ids DEF waits, Q
<1> QED
  BY <1>1, IInvAlways, PTL

(* Phase1.Implements: pcb.c and asl.c do to their linked structures what   *)
(* ProcLists says of sequences.                                            *)
THEOREM Phase1Implements == Spec => Implements
<1>1. Init => Lists!Init
  <2>1. SUFFICES ASSUME Init  PROVE Lists!Init
    OBVIOUS
  <2>2. PICK t \in {f \in [1 .. MAXPROC -> Proc] : IsInjective(f)} :
            Represents(StartQueues(t), StartKids)
    BY <2>1, InitStep
  <2> DEFINE S == StartQueues(t)
  <2>3. S[-1] = t /\ S[0] = <<>> /\ \A a \in Addr : S[a] = <<>>
    BY Ids DEF StartQueues
  <2>4. Blocked(S) = [a \in Addr |-> <<>>]
    BY <2>3 DEF Blocked
  <2> HIDE DEF S
  <2>5. /\ Ring(p_next, pcbList_h) = S[-1] /\ Ring(p_next, readyQ) = S[0]
        /\ ProcQ(p_next, semds) = Blocked(S)
        /\ Children(p_sib_next, p_child) = StartKids
    BY <2>2, ListsSeen DEF S
  <2>6. /\ held = {} /\ p_semAdd = [p \in Proc |-> NULL]
        /\ p_prnt = [p \in Proc |-> NULL]
    BY <2>1 DEF Init
  <2>7. Lists!MAXPROC = MAXPROC
    BY DEF Lists!MAXPROC, MAXPROC, Cardinality, Lists!Cardinality
  <2>8. t \in {f \in [1 .. Lists!MAXPROC -> Proc] : Lists!IsInjective(f)}
    BY <2>7 DEF IsInjective, Lists!IsInjective
  <2>9. /\ Ring(p_next, pcbList_h)
             \in {f \in [1 .. Lists!MAXPROC -> Proc] : Lists!IsInjective(f)}
        /\ Ring(p_next, readyQ) = <<>>
        /\ ProcQ(p_next, semds) = [a \in Addr |-> <<>>]
        /\ Children(p_sib_next, p_child) = [p \in Proc |-> <<>>]
    BY <2>3, <2>4, <2>5, <2>8 DEF StartKids
  <2> QED
    BY <2>6, <2>9 DEF Lists!Init, ProcQ, Children, Kids
<1>2. IInv /\ [Next]_vars => [Lists!Next]_(Lists!listVars)
  BY EveryStep DEF IInv
<1> QED
  BY <1>1, <1>2, IInvAlways, PTL DEF Spec, Implements, Lists!Spec
=============================================================================
