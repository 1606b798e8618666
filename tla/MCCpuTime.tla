----------------------------- MODULE MCCpuTime -----------------------------
(* CpuTime for TLC: two processes, whose pcbs are alike.                   *)
EXTENDS CpuTime, TLC

Symmetry == Permutations(Pcb)
=============================================================================
