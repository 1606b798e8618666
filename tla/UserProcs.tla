----------------------------- MODULE UserProcs -----------------------------
(***************************************************************************)
(* The support level (phase3) as a whole: test(), the loading of the user  *)
(* processes, their programs, the pager and the disk they share.           *)
(***************************************************************************)
EXTENDS InitProc

(* What the code of the support level does for process a, as opposed to    *)
(* what a's own program chooses to do.                                     *)
Support(a) == readTape(a) \/ UserTLBHandler(a) \/ WriteToTerminal(a)
              \/ UserTerminate(a)

(* Nothing runs any more: the nucleus halts, or waits for ever.            *)
Over ==
    /\ \A a \in Asid : pc[a] \in {<<"dead", "">>, <<"lost", "">>}
    /\ pc[0] = <<"dead", "">> \/ Blocked(0)
    /\ UNCHANGED vars

Next ==
    \/ test \/ DiskCompletes \/ Over
    \/ \E a \in Asid : Support(a) \/ User(a)

Spec == Init /\ [][Next]_vars

(* The nucleus gives every ready process its turn and ends every wait for  *)
(* a device (NoStarvation and WaitEnds of Nucleus).  Nothing is assumed of *)
(* the programs.                                                           *)
Fairness ==
    /\ WF_vars(DiskCompletes) /\ WF_vars(test)
    /\ \A a \in Asid : WF_vars(Support(a))

FairSpec == Spec /\ Fairness

-----------------------------------------------------------------------------
Point ==
    {<<"test", "create">>, <<"test", "P">>, <<"test", "SYS2">>,
     <<"none", "">>, <<"tape", "read">>, <<"user", "run">>, <<"fault", "P">>,
     <<"fault", "find">>, <<"fault", "map">>, <<"fault", "V">>,
     <<"print", "char">>, <<"exit", "V">>, <<"exit", "SYS2">>, <<"dead", "">>,
     <<"lost", "">>} \cup (Phase \X {"P", "seek", "transfer", "V"})

TypeOK ==
    /\ pc \in [Proc -> Point]
    /\ sema4 \in [Sema4 -> -PROCCNT .. PROCCNT]
    /\ waiting \in [Sema4 -> Seq(Proc)]
    /\ i \in [Proc -> Nat]
    /\ old \in [Asid -> [seg : {0, KUSEG2, KUSEG3}, page : PageNo \cup {0},
                         resume : {<<"user", "run">>, <<"print", "char">>}]]
    /\ frame \in [Asid -> Frame \cup {NOFRAME}]
    /\ nextFrame \in Frame
    /\ frameSwapPool \in [Frame -> PoolEntry]
    /\ pageTable \in [Proc -> [Index -> [valid : BOOLEAN, frame : Frame]]]
    /\ staleTLB \subseteq (Proc \X Index \X Frame)
    /\ ram \in [Address -> Content] /\ disk \in [Sector -> Content]
    /\ cylinder \in Index
    /\ diskCmd = NOCMD \/ diskCmd.proc \in Asid
    /\ garbage \in [SharedIndex -> BOOLEAN]
    /\ written \in [Proc -> [Index -> Content]]

-----------------------------------------------------------------------------
(* Who is between the P and the V of a mutex.                              *)
Holds(a, s) ==
    /\ a \notin Range(waiting[s])
    /\ \/ s = swapmutex /\ \/ pc[a][1] \in {"evict", "load"}
                           \/ pc[a] \in {"fault"} \X {"find", "map", "V"}
       \/ s = disk0 /\ pc[a] \in Phase \X {"seek", "transfer", "V"}
       \/ s = Terminal(a) /\ \/ pc[a] = <<"print", "char">>
                             \/ old[a].resume = <<"print", "char">>

Holders(s) == {a \in Asid : Holds(a, s)}

(* A mutex is held by one process at most, some process holds it when      *)
(* others wait, and its value is 1 less the holder and those who wait: no  *)
(* path through readTape, UserTLBHandler or WriteToTerminal forgets a V or *)
(* does one too many, whoever terminates.  Terminal mutexes are left out:  *)
(* UserTerminate releases none, and a process that traps while it prints   *)
(* keeps its own.                                                          *)
MutexesAgree ==
    \A s \in {swapmutex, disk0} :
        /\ \A a, b \in Holders(s) : a = b
        /\ sema4[s] = (IF Holders(s) = {} THEN 1 ELSE 0) - Len(waiting[s])

(* The frame pool and the page tables describe each other: a valid entry's *)
(* frame is listed as that page's, so two pages never share a frame; and   *)
(* the page listed for a frame is valid there, unless a handler is         *)
(* replacing it, so `^ VALIDON' in the handler always turns the bit off.   *)
PoolMatchesTables ==
    /\ \A t \in Proc, k \in Index :
           pageTable[t][k].valid =>
               LET e == frameSwapPool[pageTable[t][k].frame]
               IN  e.asid # UNOCCUPIEDFRAME /\ Table(e.asid, e.seg) = t
                   /\ Entry(e) = k
    /\ \A f \in Frame :
           LET e == frameSwapPool[f]
           IN  e.asid # UNOCCUPIEDFRAME =>
                  \/ PTE(e.asid, e) = [valid |-> TRUE, frame |-> f]
                  \/ \E a \in Asid : Holds(a, swapmutex) /\ frame[a] = f

(* test() leaves its loop of P's only when every user process has done the *)
(* V of UserTerminate, so its SYS2 takes no process down at work.          *)
TestWaitsForAll ==
    pc[0] \in {<<"test", "SYS2">>, <<"dead", "">>} /\ ~Blocked(0) =>
        \A a \in Asid : pc[a] \in {<<"exit", "SYS2">>, <<"dead", "">>}

-----------------------------------------------------------------------------
(* The private memory of a process: a page is in its frame while its entry *)
(* is valid, and still while a handler that invalidated it has not written *)
(* it back; otherwise it is on the disk.                                   *)
BeingEvicted(a, k) ==
    \E b \in Asid :
        /\ pc[b][1] = "evict"
        /\ pc[b][2] = "V" => diskCmd.proc = b
        /\ LET e == frameSwapPool[frame[b]]
           IN  e.asid = a /\ e.seg = KUSEG2 /\ Entry(e) = k

Memory ==
    [a \in Asid |-> [k \in Index |->
        IF pageTable[a][k].valid \/ BeingEvicted(a, k)
        THEN ram[pageTable[a][k].frame]
        ELSE disk[<<k, getSectorNum(a), getHeadNum(KUSEG2)>>]]]

Started == {a \in Asid : pc[a][1] \notin {"none", "tape"}}

Promise == INSTANCE UserMemory WITH
    Page <- Index, memory <- Memory, started <- Started,
    written <- [a \in Asid |-> written[a]],
    Tape <- LAMBDA a, k : <<a, k, 0>>,
    Versions <- LAMBDA a, k : {<<a, k, 1>>, <<a, k, 2>>}

(* However often pages are evicted and loaded, and whatever the others do, *)
(* the private segment of a process is, when its program starts, what was  *)
(* read from its tape, and from then on each of its pages holds the last   *)
(* store of its own program: it changes with that store, which is never    *)
(* lost or delayed, and with nothing else.  (The shared segment gets no    *)
(* such promise: see the README.)                                          *)
MemoryKept == Promise!Spec

(* When UserTLBHandler gives up the swap mutex to resume the program, the  *)
(* page that faulted is in memory.                                         *)
ServedIsValid ==
    [][\A a \in Asid :
          pc[a][1] = "fault" /\ pc'[a] = old[a].resume =>
              Valid(a, [seg |-> old[a].seg, page |-> old[a].page])]_vars

-----------------------------------------------------------------------------
(* Every fault is handled, however many processes contend for the pool and *)
(* the disk: the handlers never wait for each other in a circle, and the   *)
(* queues of the mutexes pass nobody over.                                 *)
FaultServed ==
    \A a \in Asid : pc[a] = <<"fault", "P">> ~>
                       pc[a] \in {<<"user", "run">>, <<"print", "char">>}

(* When all user processes have terminated, test() does too.               *)
TestEnds ==
    (\A a \in Asid : pc[a][1] \in {"exit", "dead"}) ~> pc[0] = <<"dead", "">>
=============================================================================
