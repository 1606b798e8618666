------------------------------ MODULE PcbRings ------------------------------
(***************************************************************************)
(* The operations of phase 1 on its linked structures, as functions of     *)
(* them.  A process queue is a ring of pcbs with a pointer to its tail:    *)
(* r.tp is the tail (NULL when empty), r.next and r.prev are the p_next    *)
(* and p_prev fields of all pcbs.  The ASL is a chain of descriptors:      *)
(* l.head is semd_h, l.free is semdFree_h, and l.next, l.add and l.q are   *)
(* the s_next, s_semAdd and s_procQ fields.                                *)
(***************************************************************************)
EXTENDS Integers, FiniteSets, SequencesExt

CONSTANTS
    Proc,   \* the pcbs of procTable
    Addr,   \* addresses of semaphores
    NULL    \* the null pointer; as an address it is above all others

MAXPROC == Cardinality(Proc)
Semd    == 1 .. MAXPROC + 2     \* the descriptors of semdTable

ASSUME RingsAssumption ==
    /\ IsFiniteSet(Proc) /\ NULL \notin Proc
    /\ NULL \in Nat /\ Addr \subseteq 1 .. NULL - 1
    /\ MAXPROC + 2 < NULL

(* The list that starts at x, to NULL or to where it has been before.      *)
Chain(next, x) ==
    LET from[seen \in SUBSET DOMAIN next] ==
            [y \in DOMAIN next \cup {NULL} |->
                IF y = NULL \/ y \in seen THEN <<>>
                ELSE <<y>> \o from[seen \cup {y}][next[y]]]
    IN  from[{}][x]

(* A ring from its head to its tail.                                       *)
Ring(next, tp) == IF tp = NULL THEN <<>> ELSE Chain(next, next[tp])

-----------------------------------------------------------------------------
mkEmptyProcQ     == NULL
emptyProcQ(tp)   == tp = NULL
headProcQ(next, tp) == IF emptyProcQ(tp) THEN NULL ELSE next[tp]

insertProcQ(r, p) ==
    IF emptyProcQ(r.tp)
    THEN [next |-> [r.next EXCEPT ![p] = p],
          prev |-> [r.prev EXCEPT ![p] = p],
          tp   |-> p]
    ELSE LET head == r.next[r.tp]
         IN  [next |-> [r.next EXCEPT ![p] = head, ![r.tp] = p],
              prev |-> [r.prev EXCEPT ![head] = p, ![p] = r.tp],
              tp   |-> p]

(* What is left; the pcb it returns is headProcQ's.                        *)
RemoveOneWay(r) ==      \* mutant: p_prev of the new head not set
    IF emptyProcQ(r.tp) THEN r
    ELSE IF r.tp = r.next[r.tp] THEN [r EXCEPT !.tp = mkEmptyProcQ]
    ELSE [r EXCEPT !.next[r.tp] = r.next[r.next[r.tp]]]

removeProcQ(r) ==
    IF emptyProcQ(r.tp) THEN r
    ELSE IF r.tp = r.next[r.tp] THEN [r EXCEPT !.tp = mkEmptyProcQ]
    ELSE LET second == r.next[r.next[r.tp]]
         IN  [r EXCEPT !.next[r.tp] = second, !.prev[second] = r.tp]

(* The search follows p_next from the tail until it is back there.  The    *)
(* tail moves back before it is removed; an inner pcb is the head of the   *)
(* ring as seen from its predecessor, and the tail stays.                  *)
OutTailStays(r, p) ==   \* mutant: the tail pointer not moved back
    IF p \notin ToSet(Ring(r.next, r.tp)) THEN r
    ELSE IF r.tp = r.next[r.tp] THEN removeProcQ(r)
    ELSE [removeProcQ([r EXCEPT !.tp = r.prev[p]]) EXCEPT !.tp = r.tp]

outProcQ(r, p) ==
    IF p \notin ToSet(Ring(r.next, r.tp)) THEN r
    ELSE IF r.tp = r.next[r.tp] THEN removeProcQ(r)
    ELSE IF r.tp = p THEN removeProcQ([r EXCEPT !.tp = r.prev[p]])
    ELSE [removeProcQ([r EXCEPT !.tp = r.prev[p]]) EXCEPT !.tp = r.tp]

-----------------------------------------------------------------------------
(* The last descriptor whose successor has an address not below a.         *)
searchASL(l, a) ==
    LET asl == Chain(l.next, l.head)
    IN  asl[CHOOSE n \in 1 .. Len(asl) - 1 :
                /\ l.add[asl[n + 1]] >= a
                /\ \A m \in 2 .. n : l.add[asl[m]] < a]

(* The descriptor of address a, if there is one.                           *)
Found(l, a)  == l.next[searchASL(l, a)]
Active(l, a) == l.add[Found(l, a)] = a

(* The descriptor it returns is l.free.                                    *)
allocSemd(l) ==
    [l EXCEPT !.free = l.next[l.free], !.next[l.free] = NULL,
              !.add[l.free] = 0, !.q[l.free] = NULL]

freeSemd(l, s) == [l EXCEPT !.next[s] = l.free, !.free = s]

(* A descriptor for address a, with an empty queue, where it belongs.      *)
AddSemd(l, a) ==
    LET s == l.free  before == searchASL(l, a)  b == allocSemd(l)
    IN  [b EXCEPT !.add[s] = a, !.q[s] = mkEmptyProcQ,
                  !.next[s] = b.next[before], !.next[before] = s]

(* The descriptor of a gets the queue tp, and is freed if that is empty.   *)
KeepSemd(l, a, tp) ==   \* mutant: a descriptor is never freed
    [l EXCEPT !.q[Found(l, a)] = tp]

PutQueue(l, a, tp) ==
    LET s == Found(l, a)
        before == searchASL(l, a)
        b == [l EXCEPT !.q[s] = tp]
    IN  IF emptyProcQ(tp)
        THEN freeSemd([b EXCEPT !.next[before] = b.next[s]], s)
        ELSE b
=============================================================================
