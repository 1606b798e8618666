------------------------------ MODULE MCNucleus ------------------------------
(* Instances of Nucleus for TLC.                                           *)
EXTENDS Nucleus

CONSTANTS p1, p2, p3, p4, m1, m2

MCProc2 == {p1, p2}
MCProc3 == {p1, p2, p3}
MCProc4 == {p1, p2, p3, p4}
MCSem1  == {m1}
MCSem2  == {m1, m2}
Symmetry2 == Permutations(MCProc2)
Symmetry3 == Permutations(MCProc3)

(* Processes that create, terminate and synchronise, wait for the clock,   *)
(* are preempted, and mask interrupts from a device command to its SYS8.   *)
ProcessCalls == {"CREATEPROCESS", "TERMINATEPROCESS", "VERHOGEN", "PASSEREN",
                 "WAITFORCLOCK", "IOREQUEST", "TIMER"}

(* Processes that set up exception vectors, pass exceptions up or die of   *)
(* them, block, and drive a device without masking, as p2test.c does.      *)
ContextCalls == {"CREATEPROCESS", "EXCEPTIONSTATEVEC", "SYSCALL9", "TRAP",
                 "INSTRUCTION", "PASSEREN", "VERHOGEN", "COMMAND",
                 "WAITFORIO"}

(* For liveness: nobody terminates, so that the graph stays small.         *)
FairCalls == {"CREATEPROCESS", "IOREQUEST", "WAITFORCLOCK", "TIMER"}

(* The instances that show what the comments do not say.                   *)
KillCalls    == {"CREATEPROCESS", "TERMINATEPROCESS", "VERHOGEN", "PASSEREN"}
ClockCalls   == {"CREATEPROCESS", "TERMINATEPROCESS", "WAITFORCLOCK",
                 "PASSEREN"}
PreemptCalls == {"CREATEPROCESS", "INSTRUCTION", "TIMER"}
IdleCalls    == {"CREATEPROCESS", "TERMINATEPROCESS", "IOREQUEST"}

None == {}
Start0 == {0}
Dev1 == {0}             \* a disk
DiskAndReceive == {0, 2} \* with two units, the second one a terminal
=============================================================================
