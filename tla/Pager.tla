------------------------------- MODULE Pager -------------------------------
(***************************************************************************)
(* UserTLBHandler of pager.c, the handler of a user process's page faults. *)
(* pc[a] goes through "fault" (the swap mutex, the choice of a frame),     *)
(* "evict" if the frame is occupied, "load", and "fault" again.  The four  *)
(* steps around a disk transfer (P, seek, transfer, V) are the same code   *)
(* three times, here and in readTape: `for' tells which.                   *)
(***************************************************************************)
EXTENDS UserState

(* A reference to page x that no valid entry translates.  If there is no   *)
(* entry at all, the exception is not TLBINVALIDLOAD or -STORE, and SYS18. *)
TLBException(a, x, resume) ==
    /\ ~Valid(a, x)
    /\ IF HasEntry(x)
       THEN /\ old' = [old EXCEPT ![a] = [seg |-> x.seg, page |-> x.page,
                                          resume |-> resume]]
            /\ GoTo(a, <<"fault", "P">>)
       ELSE GoTo(a, <<"exit", "V">>) /\ UNCHANGED old
    /\ UNCHANGED <<semVars, i, frame, nextFrame, frameSwapPool, pageTable,
                   staleTLB, diskVars, garbage, written>>

GainPool(a) ==
    /\ At(a, "fault", "P")
    /\ P(a, swapmutex)
    /\ GoTo(a, <<"fault", "find">>)
    /\ UNCHANGED <<i, pagerVars, diskVars, garbage, written>>

(* V the swap mutex and load the state of the fault; the locals vanish.    *)
Resume(a) ==
    /\ V(swapmutex)
    /\ GoTo(a, old[a].resume)
    /\ old' = [old EXCEPT ![a] = NoFault]
    /\ frame' = [frame EXCEPT ![a] = NOFRAME]

(* An entry outside the table: pageTable is not what is written.  Either   *)
(* the address exists and the handler goes on, or it does not and a        *)
(* program trap makes the handler's process terminate.                     *)
Overrun(a, next) ==
    /\ \E point \in {next, <<"exit", "V">>} : GoTo(a, point)
    /\ UNCHANGED <<pageTable, staleTLB>>

(* entryLo ^ VALIDON, TLBCLR: the owner of the frame loses its page.       *)
NoTLBCLR(t, k) ==     \* mutant: the TLB is not cleared
    /\ pageTable' = [pageTable EXCEPT ![t][k].valid = ~@]
    /\ staleTLB' = staleTLB \cup {<<t, k, pageTable[t][k].frame>>}

FlipValid(t, k) ==
    /\ pageTable' = [pageTable EXCEPT ![t][k].valid = ~@]
    /\ staleTLB' = {}

(* segTable->entries[asid-1].kuseg3: for asid 1 a pointer never set.       *)
AlreadyThere(a) ==
    /\ old[a].seg = KUSEG3
    /\ IF a = 1 THEN garbage[old[a].page] ELSE pageTable[0][old[a].page].valid

findFrame == (nextFrame + 1) % POOLSIZE

BootWithoutVictim(a, e) ==     \* mutant: the owner of the frame keeps its entry
    /\ GoTo(a, IF e.asid = UNOCCUPIEDFRAME THEN <<"load", "P">>
                                           ELSE <<"evict", "P">>)
    /\ UNCHANGED <<pageTable, staleTLB>>

Boot(a, e) ==
    IF e.asid = UNOCCUPIEDFRAME
    THEN /\ GoTo(a, <<"load", "P">>)
         /\ UNCHANGED <<pageTable, staleTLB>>
    ELSE IF e.page \in Index
         THEN /\ FlipValid(Table(e.asid, e.seg), e.page)
              /\ GoTo(a, <<"evict", "P">>)
         ELSE Overrun(a, <<"evict", "P">>)

ChooseFrame(a) ==
    /\ At(a, "fault", "find")
    /\ IF AlreadyThere(a)
       THEN Resume(a) /\ UNCHANGED <<nextFrame, pageTable, staleTLB>>
       ELSE /\ nextFrame' = findFrame
            /\ frame' = [frame EXCEPT ![a] = findFrame]
            /\ Boot(a, frameSwapPool[findFrame])
            /\ UNCHANGED <<semVars, old>>
    /\ UNCHANGED <<i, frameSwapPool, diskVars, garbage, written>>

-----------------------------------------------------------------------------
Phase == {"tape", "evict", "load"}

(* Where each transfer goes: cylinder, sector, head and memory.            *)
BlockOf(a, for) ==
    CASE for = "tape"  -> [cyl |-> getCylinderNum(i[a]),
                           sector |-> getSectorNum(a),
                           head |-> getHeadNum(KUSEG2),
                           addr |-> TapeBuffer(a)]
      [] for = "evict" -> LET e == frameSwapPool[frame[a]]
                          IN  [cyl |-> getCylinderNum(e.page),
                               sector |-> getSectorNum(Table(e.asid, e.seg)),
                               head |-> getHeadNum(e.seg),
                               addr |-> frame[a]]
      [] for = "load"  -> [cyl |-> getCylinderNum(old[a].page),
                           sector |-> getSectorNum(a),
                           head |-> getHeadNum(old[a].seg),
                           addr |-> frame[a]]

GainDisk(a, for) ==
    /\ At(a, for, "P")
    /\ P(a, disk0)
    /\ GoTo(a, <<for, "seek">>)
    /\ UNCHANGED <<i, pagerVars, diskVars, garbage, written>>

(* With interrupts masked: the command and its SYS8.                       *)
Seek(a, for) ==
    /\ At(a, for, "seek")
    /\ Command(a, "seek", BlockOf(a, for).cyl, 0, 0, 0)
    /\ GoTo(a, <<for, "transfer">>)
    /\ UNCHANGED <<semVars, i, pagerVars, ram, disk, cylinder,
                   garbage, written>>

Transfer(a, for) ==
    /\ At(a, for, "transfer")
    /\ LET b == BlockOf(a, for)
       IN  Command(a, IF for = "load" THEN "read" ELSE "write", 0, b.addr,
                   b.sector, b.head)
    /\ GoTo(a, <<for, "V">>)
    /\ UNCHANGED <<semVars, i, pagerVars, ram, disk, cylinder,
                   garbage, written>>

DiskKept(a, for, next) ==     \* mutant: readTape ends without the V of the disk
    /\ At(a, for, "V")
    /\ IF for = "tape" THEN UNCHANGED semVars ELSE V(disk0)
    /\ GoTo(a, next)
    /\ UNCHANGED <<pagerVars, diskVars, garbage, written>>

ReleaseDisk(a, for, next) ==
    /\ At(a, for, "V")
    /\ V(disk0)
    /\ GoTo(a, next)
    /\ UNCHANGED <<pagerVars, diskVars, garbage, written>>

Evicted(a) == ReleaseDisk(a, "evict", <<"load", "P">>) /\ UNCHANGED i
Loaded(a)  == ReleaseDisk(a, "load", <<"fault", "map">>) /\ UNCHANGED i

WrongTable(a) ==     \* mutant: kuseg2 and kuseg3 are confused
    /\ At(a, "fault", "map")
    /\ frameSwapPool' = [frameSwapPool EXCEPT ![frame[a]] =
           [asid |-> a, seg |-> old[a].seg, page |-> old[a].page]]
    /\ pageTable' = [pageTable EXCEPT ![0][old[a].page] =
                                           [valid |-> TRUE, frame |-> frame[a]]]
    /\ staleTLB' = {}
    /\ GoTo(a, <<"fault", "V">>)
    /\ UNCHANGED <<semVars, i, old, frame, nextFrame, diskVars,
                   garbage, written>>

(* The swap pool and the page table learn of the page.                     *)
MapPage(a) ==
    /\ At(a, "fault", "map")
    /\ frameSwapPool' = [frameSwapPool EXCEPT ![frame[a]] =
           [asid |-> a, seg |-> old[a].seg, page |-> old[a].page]]
    /\ IF old[a].page \in Index
       THEN /\ pageTable' = [pageTable EXCEPT
                   ![Table(a, old[a].seg)][old[a].page] =
                       [valid |-> TRUE, frame |-> frame[a]]]
            /\ staleTLB' = {}
            /\ GoTo(a, <<"fault", "V">>)
       ELSE Overrun(a, <<"fault", "V">>)
    /\ UNCHANGED <<semVars, i, old, frame, nextFrame, diskVars,
                   garbage, written>>

ReleasePool(a) ==
    /\ At(a, "fault", "V")
    /\ Resume(a)
    /\ UNCHANGED <<i, nextFrame, frameSwapPool, pageTable, staleTLB, diskVars,
                   garbage, written>>

UserTLBHandler(a) ==
    \/ GainPool(a) \/ ChooseFrame(a)
    \/ \E for \in {"evict", "load"} :
           GainDisk(a, for) \/ Seek(a, for) \/ Transfer(a, for)
    \/ Evicted(a) \/ Loaded(a) \/ MapPage(a) \/ ReleasePool(a)
=============================================================================
