------------------------------- MODULE Phase1 -------------------------------
(***************************************************************************)
(* Phase 1: pcb.c and asl.c on the fields of the pcbs and descriptors, one *)
(* action for each function that changes them, called by somebody who      *)
(* keeps to the use ProcLists describes.                                   *)
(***************************************************************************)
EXTENDS PcbRings

CONSTANT MaxInUse   \* bound: how many pcbs are in use at a time, for
                    \* callers of the "queues", of the "tree" or of both

VARIABLES
    p_next, p_prev, p_semAdd,                   \* pcb_t: queue
    p_prnt, p_child, p_sib_next, p_sib_prev,    \* pcb_t: tree
    pcbList_h, readyQ,                          \* tail pointers
    semds,      \* semd_h, semdFree_h and the descriptors (PcbRings)
    held,       \* the pcbs in use that the callers have on no queue
    use         \* bound: what the callers of this behaviour use

queues == <<p_next, p_prev, p_semAdd, pcbList_h, readyQ, semds, held>>
tree   == <<p_prnt, p_child, p_sib_next, p_sib_prev>>
vars   == <<queues, tree, use>>

Rings(tp) == [next |-> p_next, prev |-> p_prev, tp |-> tp]
SetLinks(r) == p_next' = r.next /\ p_prev' = r.prev

-----------------------------------------------------------------------------
(* initPcbs: freePcb of every pcb, in the order t of procTable.            *)
initPcbs(t) ==
    LET none == [p \in Proc |-> NULL]
        r[n \in 0 .. MAXPROC] ==
            IF n = 0 THEN [next |-> none, prev |-> none, tp |-> mkEmptyProcQ]
            ELSE insertProcQ(r[n - 1], t[n])
    IN  r[MAXPROC]

(* initASL: semdTable goes on the free list, and the first two descriptors *)
(* taken from it become the ends of the ASL.                               *)
Pushed(n) ==
    LET l[i \in 0 .. n] ==
            IF i = 0
            THEN [head |-> NULL, free |-> NULL,
                  next |-> [s \in Semd |-> NULL], add |-> [s \in Semd |-> 0],
                  q    |-> [s \in Semd |-> NULL]]
            ELSE freeSemd(l[i - 1], i)
    IN  l[n]

ShortTable == Pushed(MAXPROC + 1)   \* mutant: one descriptor less
semdTable  == Pushed(MAXPROC + 2)

initASL ==
    LET dummy1 == semdTable.free
        dummy2 == semdTable.next[dummy1]
    IN  [allocSemd(allocSemd(semdTable)) EXCEPT
            !.add[dummy1] = 0, !.add[dummy2] = NULL,
            !.head = dummy1, !.next[dummy1] = dummy2]

Init ==
    /\ \E t \in {f \in [1 .. MAXPROC -> Proc] : IsInjective(f)} :
          /\ p_next = initPcbs(t).next
          /\ p_prev = initPcbs(t).prev
          /\ pcbList_h = initPcbs(t).tp
    /\ p_semAdd = [p \in Proc |-> NULL]
    /\ p_prnt = [p \in Proc |-> NULL]
    /\ p_child = [p \in Proc |-> NULL]
    /\ p_sib_next = [p \in Proc |-> NULL]
    /\ p_sib_prev = [p \in Proc |-> NULL]
    /\ readyQ = mkEmptyProcQ
    /\ semds = initASL
    /\ held = {}
    /\ use \in DOMAIN MaxInUse

-----------------------------------------------------------------------------
Hold(p) == held' = held \cup {p}

(* Queues of pcbs.  The pcb that is taken out is then held by the caller;  *)
(* outProcQ's callers go on with the pcb they asked for.                   *)
allocPcb ==
    LET p == headProcQ(p_next, pcbList_h)
        r == removeProcQ(Rings(pcbList_h))
    IN  /\ ~emptyProcQ(pcbList_h)
        /\ Len(Ring(p_next, pcbList_h)) > MAXPROC - MaxInUse[use]
        /\ p_next' = [r.next EXCEPT ![p] = NULL]
        /\ p_prev' = [r.prev EXCEPT ![p] = NULL]
        /\ pcbList_h' = r.tp
        /\ p_semAdd' = [p_semAdd EXCEPT ![p] = NULL]
        /\ p_prnt' = [p_prnt EXCEPT ![p] = NULL]
        /\ p_child' = [p_child EXCEPT ![p] = NULL]
        /\ p_sib_next' = [p_sib_next EXCEPT ![p] = NULL]
        /\ p_sib_prev' = [p_sib_prev EXCEPT ![p] = NULL]
        /\ Hold(p)
        /\ UNCHANGED <<readyQ, semds>>

(* The pcbs in the list of children that starts at p_child of q.           *)
Kids(q)    == Chain(p_sib_next, p_child[q])
IsChild(p) == \E q \in Proc : Contains(Kids(q), p)

emptyChild(p) == p_child[p] = NULL

freePcb(p) ==
    LET r == insertProcQ(Rings(pcbList_h), p)
    IN  /\ p \in held /\ emptyChild(p) /\ ~IsChild(p)
        /\ SetLinks(r) /\ pcbList_h' = r.tp
        /\ held' = held \ {p}
        /\ UNCHANGED <<p_semAdd, readyQ, semds, tree>>

InsertReady(p) ==
    LET r == insertProcQ(Rings(readyQ), p)
    IN  /\ p \in held
        /\ SetLinks(r) /\ readyQ' = r.tp
        /\ held' = held \ {p}
        /\ UNCHANGED <<p_semAdd, pcbList_h, semds, tree>>

RemoveUnchecked ==      \* mutant: removeProcQ's NULL taken for a pcb
    LET r == removeProcQ(Rings(readyQ))
    IN  /\ SetLinks(r) /\ readyQ' = r.tp
        /\ Hold(headProcQ(p_next, readyQ))
        /\ UNCHANGED <<p_semAdd, pcbList_h, semds, tree>>

RemoveReady ==
    LET r == removeProcQ(Rings(readyQ))
    IN  /\ ~emptyProcQ(readyQ)
        /\ SetLinks(r) /\ readyQ' = r.tp
        /\ Hold(headProcQ(p_next, readyQ))
        /\ UNCHANGED <<p_semAdd, pcbList_h, semds, tree>>

OutReady(p) ==
    LET r == outProcQ(Rings(readyQ), p)
    IN  /\ Contains(Ring(p_next, readyQ), p)
        /\ SetLinks(r) /\ readyQ' = r.tp
        /\ Hold(p)
        /\ UNCHANGED <<p_semAdd, pcbList_h, semds, tree>>

-----------------------------------------------------------------------------
(* Queues of semaphores.                                                   *)
queueFrame == <<pcbList_h, readyQ, tree>>

(* The tail pointer in the descriptor of a.                                *)
Queue(l, a) == l.q[Found(l, a)]

(* Without a descriptor left insertBlocked does nothing but return TRUE,   *)
(* and BlockHelperFunction, which ignores the result, gives the pcb up.    *)
insertBlocked(a, p) ==
    LET l == IF Active(semds, a) THEN semds ELSE AddSemd(semds, a)
        r == insertProcQ(Rings(Queue(l, a)), p)
    IN  /\ p \in held
        /\ held' = held \ {p}
        /\ IF ~Active(semds, a) /\ semds.free = NULL
           THEN UNCHANGED <<p_next, p_prev, p_semAdd, semds>>
           ELSE /\ SetLinks(r) /\ semds' = PutQueue(l, a, r.tp)
                /\ p_semAdd' = [p_semAdd EXCEPT ![p] = a]
        /\ UNCHANGED queueFrame

headBlocked(a) ==
    IF Active(semds, a) THEN headProcQ(p_next, Queue(semds, a)) ELSE NULL

removeBlocked(a) ==
    LET r == removeProcQ(Rings(Queue(semds, a)))
    IN  /\ Active(semds, a)
        /\ SetLinks(r) /\ semds' = PutQueue(semds, a, r.tp)
        /\ Hold(headBlocked(a))
        /\ UNCHANGED <<p_semAdd, queueFrame>>

OutUnchecked(p) ==      \* mutant: p returned whether it was found or not
    LET a == p_semAdd[p]
        r == outProcQ(Rings(Queue(semds, a)), p)
    IN  /\ a # NULL
        /\ Active(semds, a)
        /\ SetLinks(r) /\ semds' = PutQueue(semds, a, r.tp)
        /\ Hold(p)
        /\ UNCHANGED <<p_semAdd, queueFrame>>

(* Also called for a pcb that was blocked once and is no longer: the queue *)
(* of its p_semAdd does not have it, and outProcQ returns NULL.            *)
outBlocked(p) ==
    LET a == p_semAdd[p]
        r == outProcQ(Rings(Queue(semds, a)), p)
        found == Contains(Ring(p_next, Queue(semds, a)), p)
    IN  /\ a # NULL
        /\ Active(semds, a)
        /\ SetLinks(r) /\ semds' = PutQueue(semds, a, r.tp)
        /\ IF found THEN Hold(p) ELSE UNCHANGED held
        /\ UNCHANGED <<p_semAdd, queueFrame>>

-----------------------------------------------------------------------------
(* The process tree.                                                       *)
insertChild(q, p) ==
    /\ q \in held /\ p \in held /\ p # q
    /\ p_prnt[p] = NULL /\ emptyChild(p)
    /\ p_prnt' = [p_prnt EXCEPT ![p] = q]
    /\ p_child' = [p_child EXCEPT ![q] = p]
    /\ IF emptyChild(q)
       THEN UNCHANGED <<p_sib_next, p_sib_prev>>
       ELSE /\ p_sib_next' = [p_sib_next EXCEPT ![p] = p_child[q]]
            /\ p_sib_prev' = [p_sib_prev EXCEPT ![p_child[q]] = p]
    /\ UNCHANGED queues

(* The child's own pointers stay as they are.                              *)
RemoveFirstOnly(q) ==   \* mutant: p_sib_prev of the new first child not reset
    /\ p_child' = [p_child EXCEPT ![q] = p_sib_next[@]]
    /\ UNCHANGED <<queues, p_prnt, p_sib_next, p_sib_prev>>

RemoveFirstChild(q) ==
    LET child == p_child[q]
        next  == p_sib_next[child]
    IN  IF next = NULL /\ p_sib_prev[child] = NULL
        THEN /\ p_child' = [p_child EXCEPT ![q] = NULL]
             /\ UNCHANGED <<queues, p_prnt, p_sib_next, p_sib_prev>>
        ELSE /\ p_child' = [p_child EXCEPT ![q] = next]
             /\ p_sib_prev' = [p_sib_prev EXCEPT ![next] = NULL]
             /\ UNCHANGED <<queues, p_prnt, p_sib_next>>

removeChild(q) == ~emptyChild(q) /\ RemoveFirstChild(q)

OutFirst(p) ==
    /\ p_child[p_prnt[p]] = p
    /\ RemoveFirstChild(p_prnt[p])

(* By the search along the siblings; p has a previous one.                 *)
OutInner(p) ==
    /\ p_child[p_prnt[p]] # p
    /\ p_sib_next' = [p_sib_next EXCEPT ![p_sib_prev[p]] = p_sib_next[p]]
    /\ p_sib_prev' = IF p_sib_next[p] = NULL THEN p_sib_prev
                     ELSE [p_sib_prev EXCEPT ![p_sib_next[p]] = p_sib_prev[p]]
    /\ UNCHANGED <<queues, p_prnt, p_child>>

outChild(p) == IsChild(p) /\ (OutFirst(p) \/ OutInner(p))

(***************************************************************************)
(* The queues and the tree are on different fields, of which only allocPcb *)
(* touches both, so a behaviour need not use both for all that can happen  *)
(* to either.  With a use that is neither it does (Phase1Proofs).          *)
(***************************************************************************)
UseQueues ==
    \/ RemoveReady
    \/ \E p \in Proc : InsertReady(p) \/ OutReady(p) \/ outBlocked(p)
    \/ \E a \in Addr : removeBlocked(a)
    \/ \E a \in Addr, p \in Proc : insertBlocked(a, p)

UseTree ==
    \/ \E p \in Proc : removeChild(p) \/ outChild(p)
    \/ \E q, p \in Proc : insertChild(q, p)

Next ==
    /\ \/ allocPcb
       \/ \E p \in Proc : freePcb(p)
       \/ use # "tree" /\ UseQueues
       \/ use # "queues" /\ UseTree
    /\ UNCHANGED use

Spec == Init /\ [][Next]_vars

-----------------------------------------------------------------------------
Heap == [next : [Semd -> Semd \cup {NULL}], add : [Semd -> Addr \cup {0, NULL}],
         q : [Semd -> Proc \cup {NULL}],
         head : Semd, free : Semd \cup {NULL}]

TypeOK ==
    /\ {p_next, p_prev, p_prnt, p_child, p_sib_next, p_sib_prev}
          \subseteq [Proc -> Proc \cup {NULL}]
    /\ p_semAdd \in [Proc -> Addr \cup {NULL}]
    /\ {pcbList_h, readyQ} \subseteq Proc \cup {NULL}
    /\ semds \in Heap
    /\ held \subseteq Proc

(* Every function of pcb.c and asl.c does to its linked structure what     *)
(* ProcLists says of sequences: FIFO queues, a stack of children, and a    *)
(* queue found for every address that has waiters.                         *)
Lists == INSTANCE ProcLists WITH
    pcbFree <- Ring(p_next, pcbList_h),
    readyQ  <- Ring(p_next, readyQ),
    procQ   <- [a \in Addr |-> IF Active(semds, a)
                               THEN Ring(p_next, Queue(semds, a)) ELSE <<>>],
    kids    <- [q \in Proc |-> Kids(q)]

Implements == Lists!Spec

(* A pcb is on one list or held by one caller, never on two (they share    *)
(* p_next and p_prev) and never lost, although insertBlocked can fail and  *)
(* outBlocked is asked for pcbs that are not there (asl.c:123-147).        *)
OneList == Lists!OneList

Tails == {pcbList_h, readyQ} \cup
         {Queue(semds, a) : a \in {b \in Addr : Active(semds, b)}}

(* Each ring can be walked backwards too: p_prev is the inverse of p_next  *)
(* on it and it closes at its tail, whatever was taken out of its middle   *)
(* or its ends before.  outProcQ relies on it (pcb.c:178-188).             *)
RingsDoublyLinked ==
    \A tp \in Tails \ {NULL} :
        /\ Last(Ring(p_next, tp)) = tp
        /\ \A p \in ToSet(Ring(p_next, tp)) :
              p_next[p] \in Proc /\ p_prev[p_next[p]] = p

(* The ASL runs from dummy to dummy in ascending order of the addresses,   *)
(* an address is on it exactly while pcbs wait there, and each descriptor  *)
(* is on it or free but not both (asl.c:7-12, 100-102).  So with a pcb not *)
(* blocked a descriptor is free, and insertBlocked never returns TRUE.     *)
AslSound ==
    LET asl  == Chain(semds.next, semds.head)
        free == Chain(semds.next, semds.free)
        keys == [i \in DOMAIN asl |-> semds.add[asl[i]]]
    IN  /\ Head(keys) = 0 /\ Last(keys) = NULL
        /\ \A i \in 2 .. Len(keys) : keys[i - 1] < keys[i]
        /\ \A i \in 2 .. Len(keys) - 1 : semds.q[asl[i]] # NULL
        /\ ToSet(asl) \cap ToSet(free) = {}
        /\ Len(asl) + Len(free) = MAXPROC + 2

(* The children of a pcb are linked both ways and all name it as their     *)
(* parent, so that outChild can take out any of them (pcb.c:303-312).      *)
SiblingsLinked ==
    \A q \in Proc : \A i \in DOMAIN Kids(q) :
        /\ p_prnt[Kids(q)[i]] = q
        /\ p_sib_prev[Kids(q)[i]] = IF i = 1 THEN NULL ELSE Kids(q)[i - 1]
=============================================================================
