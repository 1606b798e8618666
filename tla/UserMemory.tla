----------------------------- MODULE UserMemory -----------------------------
(***************************************************************************)
(* What the support level promises a user process about its own segment: a *)
(* memory that holds what was read from the process's tape by the time the *)
(* process starts, and whose pages change from then on with each store of  *)
(* the process, at once, and with nothing else.                            *)
(***************************************************************************)
CONSTANTS
    Asid, Page,
    Blank,          \* the content of a page nothing was put in
    Tape(_, _),     \* the block for a page on the tape of a process
    Versions(_, _)  \* what a process may store in a page of its own

VARIABLES
    memory,         \* what each process finds in each of its pages
    written,        \* what its tape, or a store of its own, last put there
    started         \* the processes whose program runs, or has run

vars == <<memory, written, started>>

Init ==
    /\ memory = [a \in Asid |-> [p \in Page |-> Blank]]
    /\ written = memory
    /\ started = {}

Read(a, p) ==       \* a block comes from the tape
    /\ a \notin started
    /\ written' = [written EXCEPT ![a][p] = Tape(a, p)]
    /\ UNCHANGED <<memory, started>>

Load(a, p) ==       \* ... and gets to its page some time before the start
    /\ a \notin started
    /\ memory' = [memory EXCEPT ![a][p] = written[a][p]]
    /\ UNCHANGED <<written, started>>

Start(a) ==
    /\ a \notin started
    /\ memory[a] = written[a]
    /\ started' = started \cup {a}
    /\ UNCHANGED <<memory, written>>

Store(a, p) ==
    /\ a \in started
    /\ \E version \in Versions(a, p) :
           /\ memory' = [memory EXCEPT ![a][p] = version]
           /\ written' = [written EXCEPT ![a][p] = version]
    /\ UNCHANGED started

Next ==
    \E a \in Asid :
        Start(a) \/ \E p \in Page : Read(a, p) \/ Load(a, p) \/ Store(a, p)

Spec == Init /\ [][Next]_vars
=============================================================================
