------------------------------ MODULE ProcLists ------------------------------
(***************************************************************************)
(* What phase 1 promises its callers: the pcbFree list, the ready queue    *)
(* and the queue of every semaphore are FIFO sequences of pcbs, and the    *)
(* process tree is a list of children for every pcb, the youngest first.   *)
(* This is the view of the lists that KayaState takes; Phase1 shows that   *)
(* the linked structures of pcb.c and asl.c implement it.                  *)
(*                                                                         *)
(* The guards are the use the callers make of the lists (exceptions.c,     *)
(* interrupts.c, scheduler.c): a pcb is put on a queue by who holds it, is *)
(* given a parent at most once between allocPcb and freePcb, and is free   *)
(* only when it has neither children nor a place among its parent's.       *)
(***************************************************************************)
EXTENDS Integers, FiniteSets, SequencesExt

CONSTANTS
    Proc,   \* the pcbs of procTable
    Addr,   \* addresses of semaphores
    NULL    \* the null pointer; as an address it is above all others

MAXPROC == Cardinality(Proc)

VARIABLES
    pcbFree, readyQ,    \* sequences of pcbs
    procQ,              \* for each address, the pcbs blocked there
    held,               \* pcbs in use that are on none of them
    p_semAdd, p_prnt,
    kids                \* for each pcb, its children

queues   == <<pcbFree, readyQ, procQ, held, p_semAdd>>
tree     == <<p_prnt, kids>>
listVars == <<queues, tree>>

InUse == Proc \ ToSet(pcbFree)

IsChild(p) == \E q \in Proc : Contains(kids[q], p)

Init ==
    /\ pcbFree \in {t \in [1 .. MAXPROC -> Proc] : IsInjective(t)}
    /\ readyQ = <<>>
    /\ procQ = [a \in Addr |-> <<>>]
    /\ held = {}
    /\ p_semAdd = [p \in Proc |-> NULL]
    /\ p_prnt = [p \in Proc |-> NULL]
    /\ kids = [p \in Proc |-> <<>>]

-----------------------------------------------------------------------------
allocPcb ==
    /\ pcbFree # <<>>
    /\ held' = held \cup {Head(pcbFree)}
    /\ pcbFree' = Tail(pcbFree)
    /\ p_semAdd' = [p_semAdd EXCEPT ![Head(pcbFree)] = NULL]
    /\ p_prnt' = [p_prnt EXCEPT ![Head(pcbFree)] = NULL]
    /\ UNCHANGED <<readyQ, procQ, kids>>

freePcb(p) ==
    /\ p \in held /\ held' = held \ {p}
    /\ kids[p] = <<>> /\ ~IsChild(p)
    /\ pcbFree' = Append(pcbFree, p)
    /\ UNCHANGED <<p_semAdd, readyQ, procQ, tree>>

insertProcQ(p) ==
    /\ p \in held /\ held' = held \ {p}
    /\ readyQ' = Append(readyQ, p)
    /\ UNCHANGED <<p_semAdd, pcbFree, procQ, tree>>

removeProcQ ==
    /\ readyQ # <<>>
    /\ held' = held \cup {Head(readyQ)}
    /\ readyQ' = Tail(readyQ)
    /\ UNCHANGED <<p_semAdd, pcbFree, procQ, tree>>

outProcQ(p) ==
    /\ held' = held \cup {p}
    /\ Contains(readyQ, p)
    /\ readyQ' = RemoveFirst(readyQ, p)
    /\ UNCHANGED <<p_semAdd, pcbFree, procQ, tree>>

insertBlocked(a, p) ==
    /\ p \in held /\ held' = held \ {p}
    /\ p_semAdd' = [p_semAdd EXCEPT ![p] = a]
    /\ procQ' = [procQ EXCEPT ![a] = Append(@, p)]
    /\ UNCHANGED <<pcbFree, readyQ, tree>>

(* p_semAdd stays as it is here and in outBlocked.                         *)
removeBlocked(a) ==
    /\ procQ[a] # <<>>
    /\ held' = held \cup {Head(procQ[a])}
    /\ procQ' = [procQ EXCEPT ![a] = Tail(@)]
    /\ UNCHANGED <<p_semAdd, pcbFree, readyQ, tree>>

outBlocked(p) ==
    /\ held' = held \cup {p}
    /\ p_semAdd[p] # NULL
    /\ Contains(procQ[p_semAdd[p]], p)
    /\ procQ' = [procQ EXCEPT ![p_semAdd[p]] = RemoveFirst(@, p)]
    /\ UNCHANGED <<p_semAdd, pcbFree, readyQ, tree>>

-----------------------------------------------------------------------------
insertChild(q, p) ==
    /\ q \in held /\ p \in held /\ p # q
    /\ p_prnt[p] = NULL /\ kids[p] = <<>>
    /\ p_prnt' = [p_prnt EXCEPT ![p] = q]
    /\ kids' = [kids EXCEPT ![q] = <<p>> \o @]
    /\ UNCHANGED queues

(* p_prnt of the child stays as it is here and in outChild.                *)
removeChild(q) ==
    /\ UNCHANGED <<held, p_prnt>>
    /\ kids[q] # <<>>
    /\ kids' = [kids EXCEPT ![q] = Tail(@)]
    /\ UNCHANGED queues

outChild(p) ==
    /\ UNCHANGED <<held, p_prnt>>
    /\ IsChild(p)
    /\ kids' = [kids EXCEPT ![p_prnt[p]] = RemoveFirst(@, p)]
    /\ UNCHANGED queues

Next ==
    \/ allocPcb
    \/ removeProcQ
    \/ \E p \in Proc : \/ freePcb(p) \/ insertProcQ(p) \/ outProcQ(p)
                       \/ outBlocked(p) \/ removeChild(p) \/ outChild(p)
    \/ \E a \in Addr : removeBlocked(a)
    \/ \E a \in Addr, p \in Proc : insertBlocked(a, p)
    \/ \E q, p \in Proc : insertChild(q, p)

Spec == Init /\ [][Next]_listVars

-----------------------------------------------------------------------------
(* A pcb has one pair of links, so it can be on one list at a time; and it *)
(* is never out of reach: who does not find it on a list holds it.         *)
OneList ==
    \A p \in Proc :
        LET waits == {a \in Addr : Contains(procQ[a], p)}
            place == <<p \in held, Contains(pcbFree, p), Contains(readyQ, p),
                       waits # {}>>
        IN  /\ \E i \in 1 .. 4 : \A j \in 1 .. 4 : place[j] <=> j = i
            /\ \A a, b \in waits : a = b
=============================================================================
