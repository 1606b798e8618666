---------------------------- MODULE MCUserProcs ----------------------------
(* Instances of UserProcs for TLC: two processes on a pool of two frames.  *)
EXTENDS UserProcs

Private(p) == [seg |-> KUSEG2, page |-> p]
Shared(p)  == [seg |-> KUSEG3, page |-> p]

TwoTapes  == <<1, 1>>
AString   == <<Private(0), Private(0)>>    \* one character, and its EOS

(* The pages of both compete for the pool; 2 prints, shares a page with    *)
(* whoever would, and may touch a page that has no entry.                  *)
VmTouches == <<{Private(1)}, {Private(0), Shared(0), Private(MAXKUSEG - 1)}>>
VmStores  == <<{Private(1)}, {}>>
VmCalls   == <<{"TRAP"}, {"TRAP", "WRITETOTERMINAL", "EMPTYCALL"}>>

(* The program of 1 uses its stack, and so does every compiled program.    *)
StackTouches == <<{Private(KUSEG2LAST)}, {Private(0)}>>
StackStores  == <<{}, {}>>
StackCalls   == <<{"TRAP"}, {"TRAP"}>>
=============================================================================
