------------------------------ MODULE InitProc ------------------------------
(***************************************************************************)
(* initProc.c: test(), which creates the user processes and waits for them *)
(* to terminate, and uProcInit with readTape, which copies the program of  *)
(* a process from its tape to its sectors of the backing store.            *)
(***************************************************************************)
EXTENDS SysSupport

(* SYS1 for one process after the other.                                   *)
CreateUser ==
    /\ At(0, "test", "create")
    /\ LET n == i[0] + 1
       IN  /\ pc' = [pc EXCEPT ![n] = <<"tape", "read">>,
                               ![0] = IF n = PROCCNT THEN <<"test", "P">> ELSE @]
           /\ i' = [i EXCEPT ![0] = IF n = PROCCNT THEN 0 ELSE n]
    /\ UNCHANGED <<semVars, pagerVars, diskVars, garbage, written>>

OneLess ==     \* mutant: the loop of P's is off by one
    /\ At(0, "test", "P")
    /\ P(0, masterSema4)
    /\ i' = [i EXCEPT ![0] = @ + 1]
    /\ GoTo(0, IF i[0] + 1 < PROCCNT - 1 THEN <<"test", "P">>
                                         ELSE <<"test", "SYS2">>)
    /\ UNCHANGED <<pagerVars, diskVars, garbage, written>>

(* P(masterSema4), PROCCNT times.                                          *)
WaitForUsers ==
    /\ At(0, "test", "P")
    /\ P(0, masterSema4)
    /\ i' = [i EXCEPT ![0] = @ + 1]
    /\ GoTo(0, IF i[0] + 1 < PROCCNT THEN <<"test", "P">>
                                     ELSE <<"test", "SYS2">>)
    /\ UNCHANGED <<pagerVars, diskVars, garbage, written>>

(* SYS2 ends test() and its children with it.                              *)
EndTest ==
    /\ At(0, "test", "SYS2")
    /\ pc' = [a \in Proc |-> <<"dead", "">>]
    /\ UNCHANGED <<semVars, i, pagerVars, diskVars, garbage, written>>

test == CreateUser \/ WaitForUsers \/ EndTest

-----------------------------------------------------------------------------
StartUser(a) ==
    /\ i' = [i EXCEPT ![a] = 0]
    /\ GoTo(a, <<"user", "run">>)

(* READBLK and its SYS8, on a tape no other process uses.  An error ends   *)
(* the loop, and the process starts with what there is.                    *)
ReadBlock(a) ==
    /\ At(a, "tape", "read")
    /\ \/ LET k == getCylinderNum(i[a])
          IN  /\ ram' = [ram EXCEPT ![TapeBuffer(a)] = <<a, k, 0>>]
              /\ written' = [written EXCEPT ![a][k] = <<a, k, 0>>]
              /\ GoTo(a, <<"tape", "P">>)
              /\ UNCHANGED i
       \/ StartUser(a) /\ UNCHANGED <<ram, written>>
    /\ UNCHANGED <<semVars, pagerVars, disk, cylinder, diskCmd, garbage>>

(* After the V: EOB means more blocks follow.                              *)
NextBlock(a) ==
    LET moreToRead == i[a] + 1 < TapeLen[a]
    IN  /\ ReleaseDisk(a, "tape", IF moreToRead THEN <<"tape", "read">>
                                                ELSE <<"user", "run">>)
        /\ i' = [i EXCEPT ![a] = IF moreToRead THEN @ + 1 ELSE 0]

readTape(a) ==
    \/ ReadBlock(a) \/ NextBlock(a)
    \/ GainDisk(a, "tape") \/ Seek(a, "tape") \/ Transfer(a, "tape")
=============================================================================
