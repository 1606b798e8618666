------------------------------ MODULE MCPhase1 ------------------------------
(* Phase1 with small tables for TLC.                                       *)
EXTENDS Phase1

QueuesAndTree == [queues |-> 3, tree |-> 4]

PcbSymmetry == Permutations(Proc)
=============================================================================
