------------------------------ MODULE UserKept ------------------------------
(***************************************************************************)
(* The support level keeps what UserMemory promises, for any number of     *)
(* processes, frames and pages: the private segment of a process is what   *)
(* was read from its tape when it starts, and each page of it the last     *)
(* store of its own program after that.  Each step of UserProcs is one of  *)
(* UserMemory or changes nothing there.  On top of the invariants of the   *)
(* mutexes and the frame pool, this needs to know what the command of the  *)
(* disk and the page in a frame are about at each point, and that the      *)
(* blocks a process has read are on the disk before it starts.  With the   *)
(* bounds of the semaphores, all invariants together give every variable   *)
(* its type.                                                               *)
(***************************************************************************)
EXTENDS UserExclusion

Leg == {"P", "seek", "transfer", "V"}     \* the points of a disk transfer

SeekOf(b, for) ==
    [proc |-> b, op |-> "seek", cyl |-> BlockOf(b, for).cyl, addr |-> 0,
     sector |-> 0, head |-> 0]
TransferOf(b, for) ==
    [proc |-> b, op |-> IF for = "load" THEN "read" ELSE "write", cyl |-> 0,
     addr |-> BlockOf(b, for).addr, sector |-> BlockOf(b, for).sector,
     head |-> BlockOf(b, for).head]

-----------------------------------------------------------------------------
(* The inductive invariant, on top of Inv and PoolInv.                     *)
StoreTyped ==
    /\ ram \in [Address -> Content] /\ disk \in [Sector -> Content]
    /\ cylinder \in Index /\ staleTLB = {}

CommandOf(b) ==     \* the disk works for b
    \E for \in Phase :
        \/ pc[b] = <<for, "transfer">> /\ diskCmd = SeekOf(b, for)
        \/ pc[b] = <<for, "V">> /\ diskCmd = TransferOf(b, for)

ArmOK(b) ==         \* the arm is where b wants it
    \A for \in Phase :
        \/ pc[b] = <<for, "transfer">> /\ diskCmd.proc # b
        \/ pc[b] = <<for, "V">>
        => cylinder = BlockOf(b, for).cyl

TapeOK(b) ==        \* the buffer has the block that is being copied
    /\ b \notin Started => i[b] \in 0 .. TapeLen[b] - 1
    /\ \A k \in Leg : pc[b] = <<"tape", k>> =>
           ram[TapeBuffer(b)] = <<b, i[b], 0>>

FreshOK(b) ==       \* a process that has not started owns no frame
    b \notin Started =>
        /\ \A k \in Index : ~pageTable[b][k].valid
        /\ \A f \in Frame : frameSwapPool[f].asid # b

EvictOK(b) ==       \* the entry of a page being evicted still tells its frame
    pc[b][1] = "evict" =>
        Occupied(frame[b]) /\ Home(frame[b]).frame = frame[b]

LoadedOK(b) ==      \* a page that was read is the one on the disk
    /\ \/ pc[b] = <<"load", "V">> /\ diskCmd.proc # b
       \/ pc[b] = <<"fault", "map">>
    /\ old[b].seg = KUSEG2
    => ram[frame[b]] = disk[<<old[b].page, getSectorNum(b), 0>>]

Kept(b) == ArmOK(b) /\ TapeOK(b) /\ FreshOK(b) /\ EvictOK(b) /\ LoadedOK(b)

KeptInv == /\ StoreTyped
           /\ diskCmd = NOCMD \/ \E b \in Asid : CommandOf(b)
           /\ \A b \in Asid : Kept(b)

-----------------------------------------------------------------------------
(* Points taken apart.                                                     *)
LEMMA Parts ==
    ASSUME NEW q \in UserPoint
    PROVE  /\ q = <<q[1], q[2]>>
           /\ q[1] = "evict" => q[2] \in Leg
           /\ q[1] \in {"none", "tape"} =>
                  \/ q = <<"none", "">> \/ q = <<"tape", "read">>
                  \/ q[1] = "tape" /\ q[2] \in Leg
<1>1. PICK f, k :
          /\ q = <<f, k>>
          /\ \/ f \in {"tape", "evict", "load"} /\ k \in Leg
             \/ f = "none" /\ k = ""
             \/ f = "tape" /\ k = "read"
             \/ f \in {"user", "fault", "print", "exit", "lost", "dead"}
  <2>1. CASE q \in Phase \X Leg
    <3>1. PICK f \in Phase, k \in Leg : q = <<f, k>>
      BY <2>1
    <3> QED
      BY <3>1 DEF Phase
  <2>2. CASE q \notin Phase \X Leg
    <3>1. q \in {<<"none", "">>, <<"tape", "read">>, <<"user", "run">>,
                 <<"fault", "P">>, <<"fault", "find">>, <<"fault", "map">>,
                 <<"fault", "V">>, <<"print", "char">>, <<"exit", "V">>,
                 <<"lost", "">>, <<"exit", "SYS2">>, <<"dead", "">>}
      BY <2>2 DEF UserPoint, GonePoint, Leg
    <3> QED
      BY <3>1
  <2> QED
    BY <2>1, <2>2
<1>2. q[1] = f /\ q[2] = k
  BY <1>1
<1>3. q = <<q[1], q[2]>>
  BY <1>1, <1>2
<1>4. q[1] = "evict" => q[2] \in Leg
  BY <1>1, <1>2
<1>5. q[1] \in {"none", "tape"} =>
          \/ q = <<"none", "">> \/ q = <<"tape", "read">>
          \/ q[1] = "tape" /\ q[2] \in Leg
  BY <1>1, <1>2
<1> QED
  BY <1>3, <1>4, <1>5

(* Where the processes are, and what each part of Kept looks at.           *)
LEMMA Places ==
    ASSUME Inv, NEW b \in Asid
    PROVE  /\ pc[b] = <<pc[b][1], pc[b][2]>>
           /\ pc[b][1] = "evict" => /\ pc[b][2] \in Leg
                                    /\ Kind(pc[b]) = "replacing"
           /\ b \notin Started =>
                  /\ \/ pc[b] \in {<<"none", "">>, <<"tape", "read">>}
                     \/ \E k \in Leg : pc[b] = <<"tape", k>>
                  /\ Kind(pc[b]) = "other"
           /\ b \in Started <=> pc[b][1] \notin {"none", "tape"}
<1>1. pc[b] \in UserPoint
  BY DEF Inv, Typed, ProcTyped
<1>2. b \in Started <=> pc[b][1] \notin {"none", "tape"}
  BY DEF Started
<1>3. pc[b] = <<pc[b][1], pc[b][2]>>
  BY <1>1, Parts
<1>4. ASSUME pc[b][1] = "evict"
      PROVE  pc[b][2] \in Leg /\ Kind(pc[b]) = "replacing"
  <2>1. pc[b][2] \in Leg
    BY <1>1, <1>4, Parts
  <2>2. pc[b] = <<"evict", pc[b][2]>>
    BY <1>3, <1>4
  <2> QED
    BY <2>1, <2>2, Kinds DEF Leg
<1>5. ASSUME b \notin Started
      PROVE  /\ \/ pc[b] \in {<<"none", "">>, <<"tape", "read">>}
                \/ \E k \in Leg : pc[b] = <<"tape", k>>
             /\ Kind(pc[b]) = "other"
  <2>1. CASE pc[b] \in {<<"none", "">>, <<"tape", "read">>}
    BY <2>1, Kinds
  <2>2. CASE pc[b][1] = "tape" /\ pc[b][2] \in Leg
    <3>1. pc[b] = <<"tape", pc[b][2]>>
      BY <1>3, <2>2
    <3> QED
      BY <2>2, <3>1, Kinds DEF Leg
  <2> QED
    BY <1>1, <1>2, <1>5, <2>1, <2>2, Parts
<1> QED
  BY <1>2, <1>3, <1>4, <1>5

(* The disk has one user at a time.                                        *)
LEMMA OneTransfers ==
    ASSUME Inv, NEW a \in Asid, NEW for \in Phase, NEW k \in Leg, k # "P",
           pc[a] = <<for, k>>, ~Blocked(a),
           NEW b \in Asid, NEW to \in Phase, NEW l \in {"transfer", "V"},
           pc[b] = <<to, l>>
    PROVE  b = a
<1>1. MutexOK(disk0) /\ Entering(disk0) = Phase \X {"seek"}
  BY DEF Inv, SharedMutex, Entering, swapmutex, disk0
<1>2. pc[a] \in Inside(disk0) /\ pc[b] \in Inside(disk0)
  BY Points DEF Leg
<1>3. pc[b] \notin Entering(disk0)
  BY <1>1
<1>4. b \notin Range(waiting[disk0])
  BY <1>1, <1>3 DEF MutexOK
<1>5. a \notin Range(waiting[disk0])
  BY Semaphores DEF Blocked
<1> QED
  BY <1>1, <1>2, <1>4, <1>5 DEF MutexOK, In

-----------------------------------------------------------------------------
(* What the step of a process leaves to the others.                        *)
LEMMA OwnTouches ==
    ASSUME Inv, PoolInv, NEW a \in Asid, Support(a) \/ User(a)
    PROVE  /\ ~Blocked(a)
           /\ UNCHANGED <<disk, cylinder>>
           /\ UNCHANGED ram \/ Store(a) \/ ReadBlock(a)
           /\ \/ UNCHANGED diskCmd
              \/ \E for \in Phase : Seek(a, for) \/ Transfer(a, for)
           /\ UNCHANGED frameSwapPool \/ MapPage(a)
           /\ UNCHANGED pageTable \/ ChooseFrame(a) \/ MapPage(a)
           /\ \A b \in Asid : b # a =>
                  /\ pc'[b] = pc[b] /\ i'[b] = i[b]
                  /\ old'[b] = old[b] /\ frame'[b] = frame[b]
<1>1. \A b \in Asid : b # a => pc'[b] = pc[b]
  <2>1. CASE UNCHANGED pc
    BY <2>1
  <2>2. ASSUME NEW q, GoTo(a, q)
        PROVE  \A b \in Asid : b # a => pc'[b] = pc[b]
    BY <2>2, PcMoves
  <2> QED
    BY <2>1, <2>2, OwnStep
<1>2. CASE User(a)
  <2>1. UNCHANGED <<frame, frameSwapPool, pageTable, disk, cylinder, diskCmd>>
        /\ ~Blocked(a) /\ (UNCHANGED ram \/ Store(a))
    BY <1>2 DEF User, Store, UserFault, TLBException, UserTrap, EmptyCall,
                PrintCall, At, pagerVars, diskVars
  <2>2. \A b \in Asid : b # a => i'[b] = i[b] /\ old'[b] = old[b]
    BY <1>2, Processes
       DEF User, Store, UserFault, TLBException, UserTrap, EmptyCall,
           PrintCall, pagerVars, Inv, Typed, ProcTyped, PagerTyped
  <2> QED
    BY <1>1, <2>1, <2>2
<1>3. CASE WriteToTerminal(a) \/ UserTerminate(a)
  <2>1. UNCHANGED <<frame, frameSwapPool, pageTable, ram, disk, cylinder,
                    diskCmd>>
        /\ ~Blocked(a)
    BY <1>3 DEF WriteToTerminal, PrintChar, PrintFault, PrintEnd, PrintDone,
                TLBException, UserTerminate, At, pagerVars, diskVars
  <2>2. \A b \in Asid : b # a => i'[b] = i[b] /\ old'[b] = old[b]
    BY <1>3, Processes
       DEF WriteToTerminal, PrintChar, PrintFault, PrintEnd, PrintDone,
           TLBException, UserTerminate, pagerVars, Inv, Typed, ProcTyped,
           PagerTyped
  <2> QED
    BY <1>1, <2>1, <2>2
<1>4. ASSUME NEW for \in Phase, GainDisk(a, for) \/ Seek(a, for)
                                \/ Transfer(a, for)
      PROVE  UNCHANGED <<i, old, frame, frameSwapPool, pageTable, ram, disk,
                         cylinder>>
             /\ ~Blocked(a)
             /\ \/ UNCHANGED diskCmd
                \/ \E to \in Phase : Seek(a, to) \/ Transfer(a, to)
  <2>1. UNCHANGED <<i, old, frame, frameSwapPool, pageTable, ram, disk,
                    cylinder>>
        /\ ~Blocked(a)
    BY <1>4 DEF GainDisk, Seek, Transfer, At, pagerVars, diskVars
  <2>2. UNCHANGED diskCmd \/ Seek(a, for) \/ Transfer(a, for)
    BY <1>4 DEF GainDisk, diskVars
  <2> QED
    BY <2>1, <2>2
<1>5. CASE ReadBlock(a) \/ NextBlock(a)
  <2>1. UNCHANGED <<old, frame, frameSwapPool, pageTable, disk, cylinder,
                    diskCmd>>
        /\ ~Blocked(a) /\ (UNCHANGED ram \/ ReadBlock(a))
    BY <1>5 DEF ReadBlock, NextBlock, ReleaseDisk, At, pagerVars, diskVars
  <2>2. \A b \in Asid : b # a => i'[b] = i[b]
    BY <1>5, Processes
       DEF ReadBlock, NextBlock, StartUser, Inv, Typed, ProcTyped
  <2> QED
    BY <1>1, <2>1, <2>2
<1>6. CASE readTape(a)
  <2>1. ASSUME GainDisk(a, "tape") \/ Seek(a, "tape") \/ Transfer(a, "tape")
        PROVE  UNCHANGED <<i, old, frame, frameSwapPool, pageTable, ram, disk,
                           cylinder>>
               /\ ~Blocked(a)
               /\ \/ UNCHANGED diskCmd
                  \/ \E to \in Phase : Seek(a, to) \/ Transfer(a, to)
    BY <1>4, <2>1 DEF Phase
  <2> QED
    BY <1>1, <1>5, <1>6, <2>1 DEF readTape
<1>7. CASE GainPool(a) \/ Evicted(a) \/ Loaded(a)
  <2>1. UNCHANGED <<i, old, frame, frameSwapPool, pageTable, ram, disk,
                    cylinder, diskCmd>>
        /\ ~Blocked(a)
    BY <1>7 DEF GainPool, Evicted, Loaded, ReleaseDisk, At, pagerVars, diskVars
  <2> QED
    BY <1>1, <2>1
<1>8. CASE ChooseFrame(a) \/ ReleasePool(a)
  <2>1. UNCHANGED <<i, frameSwapPool, ram, disk, cylinder, diskCmd>>
        /\ ~Blocked(a) /\ (UNCHANGED pageTable \/ ChooseFrame(a))
    BY <1>8 DEF ChooseFrame, ReleasePool, At, diskVars
  <2>2. \A b \in Asid : b # a => old'[b] = old[b]
    BY <1>8 DEF ChooseFrame, ReleasePool, Resume, Inv, Typed, PagerTyped
  <2>3. \A b \in Asid : b # a => frame'[b] = frame[b]
    BY <1>8 DEF ChooseFrame, ReleasePool, Resume, PoolInv, PoolTyped
  <2> QED
    BY <1>1, <2>1, <2>2, <2>3
<1>9. CASE MapPage(a)
  <2>1. UNCHANGED <<i, old, frame, ram, disk, cylinder, diskCmd>>
        /\ ~Blocked(a)
    BY <1>9 DEF MapPage, At, diskVars
  <2> QED
    BY <1>1, <1>9, <2>1
<1>10. CASE UserTLBHandler(a)
  <2>1. ASSUME NEW for \in {"evict", "load"},
               GainDisk(a, for) \/ Seek(a, for) \/ Transfer(a, for)
        PROVE  UNCHANGED <<i, old, frame, frameSwapPool, pageTable, ram, disk,
                           cylinder>>
               /\ ~Blocked(a)
               /\ \/ UNCHANGED diskCmd
                  \/ \E to \in Phase : Seek(a, to) \/ Transfer(a, to)
    BY <1>4, <2>1 DEF Phase
  <2> QED
    BY <1>1, <1>7, <1>8, <1>9, <1>10, <2>1 DEF UserTLBHandler
<1> QED
  BY <1>2, <1>3, <1>6, <1>10 DEF Support

(* Other processes do not touch the page a handler is replacing.           *)
LEMMA OthersPages ==
    ASSUME Inv, PoolInv, NEW a \in Asid, Support(a) \/ User(a),
           NEW b \in Asid, b # a
    PROVE  /\ \A t \in Proc, k \in Index :
                  t # a /\ t # 0 /\ pageTable'[t][k].valid =>
                      pageTable[t][k].valid
           /\ \A f \in Frame : \/ frameSwapPool'[f] = frameSwapPool[f]
                               \/ frameSwapPool'[f].asid = a
           /\ Kind(pc[b]) = "replacing" => UNCHANGED <<pageTable, frameSwapPool>>
<1>1. CASE ChooseFrame(a) /\ ~AlreadyThere(a)
  <2>1. frameSwapPool' = frameSwapPool /\ Kind(pc[b]) # "replacing"
    BY <1>1, Chosen
  <2>2. \A t \in Proc, k \in Index :
            pageTable'[t][k].valid => pageTable[t][k].valid
    BY <1>1, Chosen
  <2> QED
    BY <2>1, <2>2
<1>2. CASE MapPage(a)
  <2>1. Kind(pc[b]) # "replacing"
    <3>1. \A c \in Asid :
              c # a => Kind(pc[c]) \notin {"replacing", "served"}
      BY <1>2, Mapped
    <3> QED
      BY <3>1
  <2>2. \A t \in Proc, k \in Index : pageTable'[t][k] =
            IF t = Table(a, old[a].seg) /\ k = old[a].page
            THEN [valid |-> TRUE, frame |-> frame[a]]
            ELSE pageTable[t][k]
    BY <1>2, Mapped
  <2>3. frameSwapPool'[frame[a]].asid = a
    <3>1. frameSwapPool'[frame[a]] =
              [asid |-> a, seg |-> old[a].seg, page |-> old[a].page]
      BY <1>2, Mapped
    <3> QED
      BY <3>1
  <2>4. \A g \in Frame : g # frame[a] => frameSwapPool'[g] = frameSwapPool[g]
    BY <1>2, Mapped
  <2>5. Table(a, old[a].seg) \in {0, a}
    BY DEF Table
  <2> QED
    BY <2>1, <2>2, <2>3, <2>4, <2>5
<1>3. CASE UNCHANGED <<pageTable, frameSwapPool>>
  BY <1>3
<1>4. ASSUME ChooseFrame(a), AlreadyThere(a)
      PROVE  UNCHANGED <<pageTable, frameSwapPool>>
  BY <1>4 DEF ChooseFrame
<1> QED
  BY <1>1, <1>2, <1>3, <1>4, OwnTouches

(* Nor do they write to it.                                                *)
LEMMA Stored ==
    ASSUME Inv, PoolInv, StoreTyped, NEW a \in Asid, Store(a)
    PROVE  \E x \in Stores[a], ver \in {1, 2}, f \in Frame :
              /\ Valid(a, x) /\ PTE(a, x).frame = f
              /\ Table(a, x.seg) \in Proc /\ Entry(x) \in Index
              /\ <<Table(a, x.seg), Entry(x), ver>> \in Content
              /\ ram' = [ram EXCEPT ![f] = <<Table(a, x.seg), Entry(x), ver>>]
              /\ written' = [written EXCEPT ![Table(a, x.seg)][Entry(x)] =
                                 <<Table(a, x.seg), Entry(x), ver>>]
<1>1. PICK x \in Stores[a], ver \in {1, 2} :
          /\ \E f \in Reach(a, x) :
                 ram' = [ram EXCEPT ![f] = <<Table(a, x.seg), Entry(x), ver>>]
          /\ written' = [written EXCEPT ![Table(a, x.seg)][Entry(x)] =
                             <<Table(a, x.seg), Entry(x), ver>>]
  BY DEF Store
<1>2. PICK f \in Reach(a, x) :
          ram' = [ram EXCEPT ![f] = <<Table(a, x.seg), Entry(x), ver>>]
  BY <1>1
<1>3. f \in Frame /\ Valid(a, x) /\ PTE(a, x).frame = f
  BY DEF Reach, StoreTyped
<1>4. x \in VPage
  BY UserAssumption
<1>5. Table(a, x.seg) \in Proc
  BY Processes DEF Table
<1>6. Entry(x) \in Index
  <2>1. x.page \in PageNo /\ HasEntry(x)
    BY <1>3, <1>4 DEF VPage, Valid
  <2>2. CASE x.page = KUSEG2LAST
    BY <2>2, UserAssumption DEF Entry, Index
  <2>3. CASE x.page # KUSEG2LAST
    BY <2>1, <2>3 DEF PageNo, Entry
  <2> QED
    BY <2>2, <2>3
<1>7. <<Table(a, x.seg), Entry(x), ver>> \in Content
  BY <1>5, <1>6 DEF Content
<1> QED
  BY <1>1, <1>2, <1>3, <1>5, <1>6, <1>7

LEMMA ReplacedFrame ==
    ASSUME PoolInv, NEW b \in Asid, Kind(pc[b]) = "replacing"
    PROVE  /\ frame[b] \in Frame
           /\ \A t \in Proc, k \in Index :
                  pageTable[t][k].valid => pageTable[t][k].frame # frame[b]
<1>1. frame[b] \in Frame /\ (Occupied(frame[b]) => ~Home(frame[b]).valid)
  BY DEF PoolInv, ReplacingOK
<1>2. ASSUME NEW t \in Proc, NEW k \in Index, pageTable[t][k].valid,
             pageTable[t][k].frame = frame[b]
      PROVE  FALSE
  <2>1. /\ Occupied(frame[b]) /\ TableOf(frameSwapPool[frame[b]]) = t
        /\ frameSwapPool[frame[b]].page = k
    BY <1>2 DEF PoolInv, ListedOK
  <2> QED
    BY <1>1, <1>2, <2>1 DEF Home
<1> QED
  BY <1>1, <1>2

LEMMA Buffers ==
    /\ Frame \subseteq Address
    /\ \A b \in Asid : TapeBuffer(b) \in Address \ Frame
    /\ \A b, c \in Asid : TapeBuffer(b) = TapeBuffer(c) => b = c
  BY UserAssumption DEF Frame, Address, TapeBuffer, Asid

LEMMA RamMoves ==
    ASSUME Inv, PoolInv, StoreTyped, NEW a \in Asid, Support(a) \/ User(a)
    PROVE  /\ ram' \in [Address -> Content]
           /\ \A b \in Asid : b # a =>
                  ram'[TapeBuffer(b)] = ram[TapeBuffer(b)]
           /\ \A b \in Asid : b # a /\ Kind(pc[b]) = "replacing" =>
                  ram'[frame[b]] = ram[frame[b]]
<1>1. CASE UNCHANGED ram
  BY <1>1 DEF StoreTyped
<1>2. CASE Store(a)
  <2>1. PICK x \in Stores[a], ver \in {1, 2}, f \in Frame :
            /\ Valid(a, x) /\ PTE(a, x).frame = f
            /\ Table(a, x.seg) \in Proc /\ Entry(x) \in Index
            /\ <<Table(a, x.seg), Entry(x), ver>> \in Content
            /\ ram' = [ram EXCEPT ![f] = <<Table(a, x.seg), Entry(x), ver>>]
            /\ written' = [written EXCEPT ![Table(a, x.seg)][Entry(x)] =
                               <<Table(a, x.seg), Entry(x), ver>>]
    BY <1>2, Stored
  <2>2. /\ ram' \in [Address -> Content]
        /\ \A m \in Address : m # f => ram'[m] = ram[m]
    BY <2>1, Buffers DEF StoreTyped
  <2>3. ASSUME NEW b \in Asid, Kind(pc[b]) = "replacing"
        PROVE  frame[b] # f /\ frame[b] \in Address
    BY <2>1, <2>3, ReplacedFrame, Buffers DEF Valid, PTE
  <2> QED
    BY <2>2, <2>3, Buffers
<1>3. CASE ReadBlock(a) /\ ~UNCHANGED ram
  <2>1. ram' = [ram EXCEPT ![TapeBuffer(a)] = <<a, getCylinderNum(i[a]), 0>>]
    BY <1>3 DEF ReadBlock
  <2>2. <<a, getCylinderNum(i[a]), 0>> \in Content
    <3>1. getCylinderNum(i[a]) \in Index
      BY UserAssumption DEF getCylinderNum, Index, Inv, Typed, ProcTyped, Proc, Asid
    <3> QED
      BY <3>1, Processes DEF Content
  <2>3. /\ ram' \in [Address -> Content]
        /\ \A m \in Address : m # TapeBuffer(a) => ram'[m] = ram[m]
    BY <2>1, <2>2, Buffers DEF StoreTyped
  <2>4. ASSUME NEW b \in Asid, Kind(pc[b]) = "replacing"
        PROVE  frame[b] \in Frame
    BY <2>4, ReplacedFrame
  <2> QED
    BY <2>3, <2>4, Buffers
<1> QED
  BY <1>1, <1>2, <1>3, OwnTouches

-----------------------------------------------------------------------------
(* The invariant of the processes that do not move.                        *)
LEMMA BlockStill ==
    ASSUME Inv, PoolInv, NEW a \in Asid, Support(a) \/ User(a),
           NEW b \in Asid, b # a, NEW for \in Phase,
           for = "evict" => Kind(pc[b]) = "replacing"
    PROVE  BlockOf(b, for)' = BlockOf(b, for)
<1>1. i'[b] = i[b] /\ old'[b] = old[b] /\ frame'[b] = frame[b]
  BY OwnTouches
<1>2. CASE for = "evict"
  <2>1. frameSwapPool' = frameSwapPool
    BY <1>2, OthersPages
  <2> QED
    BY <1>1, <1>2, <2>1 DEF BlockOf
<1>3. CASE for = "load"
  BY <1>1, <1>3 DEF BlockOf
<1>4. CASE for = "tape"
  BY <1>1, <1>4 DEF BlockOf
<1> QED
  BY <1>2, <1>3, <1>4 DEF Phase

LEMMA PhaseKind ==
    \A for \in Phase, k \in Leg :
        Kind(<<for, k>>) = IF for = "tape" THEN "other" ELSE "replacing"
<1> SUFFICES ASSUME NEW for \in Phase, NEW k \in Leg
             PROVE  Kind(<<for, k>>) = IF for = "tape" THEN "other"
                                                       ELSE "replacing"
  OBVIOUS
<1>1. CASE for = "tape"
  BY <1>1, Kinds DEF Leg
<1>2. CASE for = "evict"
  BY <1>2, Kinds DEF Leg
<1>3. CASE for = "load"
  BY <1>3, Kinds DEF Leg
<1> QED
  BY <1>1, <1>2, <1>3 DEF Phase

LEMMA CommandStill ==
    ASSUME Inv, PoolInv, NEW a \in Asid, Support(a) \/ User(a),
           NEW b \in Asid, b # a, NEW for \in Phase,
           NEW l \in {"transfer", "V"}, pc[b] = <<for, l>>
    PROVE  UNCHANGED diskCmd /\ BlockOf(b, for)' = BlockOf(b, for)
<1>1. ASSUME NEW to \in Phase, Seek(a, to) \/ Transfer(a, to)
      PROVE  FALSE
  <2>1. PICK k \in {"seek", "transfer"} : pc[a] = <<to, k>> /\ ~Blocked(a)
    BY <1>1 DEF Seek, Transfer, At
  <2>2. k \in Leg /\ k # "P"
    BY DEF Leg
  <2> QED
    BY <2>1, <2>2, OneTransfers
<1>2. UNCHANGED diskCmd
  <2>1. \/ UNCHANGED diskCmd
        \/ \E to \in Phase : Seek(a, to) \/ Transfer(a, to)
    BY OwnTouches
  <2> QED
    BY <1>1, <2>1
<1>3. for = "evict" => Kind(pc[b]) = "replacing"
  <2>1. l \in Leg
    BY DEF Leg
  <2> QED
    BY <2>1, PhaseKind
<1>4. BlockOf(b, for)' = BlockOf(b, for)
  BY <1>3, BlockStill
<1> QED
  BY <1>2, <1>4

LEMMA OthersKept ==
    ASSUME Inv, PoolInv, StoreTyped, NEW a \in Asid, Support(a) \/ User(a),
           NEW b \in Asid, b # a, Kept(b)
    PROVE  Kept(b)' /\ (UNCHANGED diskCmd /\ CommandOf(b) => CommandOf(b)')
<1>1. /\ pc'[b] = pc[b] /\ i'[b] = i[b] /\ old'[b] = old[b]
      /\ frame'[b] = frame[b] /\ UNCHANGED <<disk, cylinder>>
  BY OwnTouches
<1>2. b \in Started' <=> b \in Started
  BY <1>1 DEF Started
<1>3. ArmOK(b)'
  <2> SUFFICES ASSUME NEW for \in Phase,
                      \/ pc'[b] = <<for, "transfer">> /\ diskCmd'.proc # b
                      \/ pc'[b] = <<for, "V">>
               PROVE  cylinder' = BlockOf(b, for)'.cyl
    BY DEF ArmOK
  <2>1. UNCHANGED diskCmd /\ BlockOf(b, for)' = BlockOf(b, for)
    BY <1>1, CommandStill
  <2> QED
    BY <1>1, <2>1 DEF Kept, ArmOK
<1>4. TapeOK(b)'
  <2>1. ram'[TapeBuffer(b)] = ram[TapeBuffer(b)]
    BY RamMoves
  <2> QED
    BY <1>1, <1>2, <2>1 DEF Kept, TapeOK
<1>5. FreshOK(b)'
  <2> SUFFICES ASSUME b \notin Started
               PROVE  /\ \A k \in Index : ~pageTable'[b][k].valid
                      /\ \A f \in Frame : frameSwapPool'[f].asid # b
    BY <1>2 DEF FreshOK
  <2>1. /\ \A k \in Index : ~pageTable[b][k].valid
        /\ \A f \in Frame : frameSwapPool[f].asid # b
    BY DEF Kept, FreshOK
  <2>2. b \in Proc /\ b # 0
    BY Processes
  <2> QED
    BY <2>1, <2>2, OthersPages
<1>6. EvictOK(b)'
  <2> SUFFICES ASSUME pc[b][1] = "evict"
               PROVE  Occupied(frame[b])' /\ Home(frame[b])'.frame = frame[b]
    BY <1>1 DEF EvictOK
  <2>1. UNCHANGED <<pageTable, frameSwapPool>>
    BY Places, OthersPages
  <2> QED
    BY <1>1, <2>1 DEF Kept, EvictOK, Occupied, Home, TableOf
<1>7. LoadedOK(b)'
  <2> SUFFICES ASSUME \/ pc[b] = <<"load", "V">> /\ diskCmd'.proc # b
                      \/ pc[b] = <<"fault", "map">>,
                      old[b].seg = KUSEG2
               PROVE  ram'[frame[b]] = disk[<<old[b].page, getSectorNum(b), 0>>]
    BY <1>1 DEF LoadedOK
  <2>1. \/ pc[b] = <<"load", "V">> /\ diskCmd.proc # b
        \/ pc[b] = <<"fault", "map">>
    BY CommandStill DEF Phase
  <2>2. Kind(pc[b]) = "replacing"
    BY <2>1, Kinds
  <2> QED
    BY <2>1, <2>2, RamMoves DEF Kept, LoadedOK
<1>8. ASSUME UNCHANGED diskCmd, CommandOf(b)  PROVE CommandOf(b)'
  <2>1. PICK for \in Phase :
            \/ pc[b] = <<for, "transfer">> /\ diskCmd = SeekOf(b, for)
            \/ pc[b] = <<for, "V">> /\ diskCmd = TransferOf(b, for)
    BY <1>8 DEF CommandOf
  <2>2. BlockOf(b, for)' = BlockOf(b, for)
    BY <2>1, CommandStill
  <2>3. SeekOf(b, for)' = SeekOf(b, for)
        /\ TransferOf(b, for)' = TransferOf(b, for)
    BY <2>2 DEF SeekOf, TransferOf
  <2> QED
    BY <1>1, <1>8, <2>1, <2>3 DEF CommandOf
<1> QED
  BY <1>3, <1>4, <1>5, <1>6, <1>7, <1>8 DEF Kept

-----------------------------------------------------------------------------
(* The invariant of the process that moves.                                *)
Idle == {<<"user", "run">>, <<"print", "char">>, <<"exit", "V">>,
         <<"exit", "SYS2">>, <<"dead", "">>, <<"lost", "">>, <<"fault", "P">>,
         <<"fault", "find">>, <<"fault", "V">>}

LEMMA IdlePoints ==
    \A q \in Idle : /\ q[1] \notin {"none", "tape", "evict", "load"}
                    /\ q # <<"fault", "map">>
                    /\ \A for \in Phase : \A k : q # <<for, k>>
<1> SUFFICES ASSUME NEW q \in Idle
             PROVE  /\ q[1] \notin {"none", "tape", "evict", "load"}
                    /\ q # <<"fault", "map">>
                    /\ \A for \in Phase : \A k : q # <<for, k>>
  OBVIOUS
<1>1. PICK f, k :
          /\ q = <<f, k>>
          /\ \/ f \in {"user", "print", "exit", "dead", "lost"}
             \/ f = "fault" /\ k \in {"P", "find", "V"}
  BY DEF Idle
<1>2. q[1] = f
  BY <1>1
<1>3. q # <<"fault", "map">>
  BY <1>1
<1>4. \A for \in Phase : \A l : q # <<for, l>>
  BY <1>1 DEF Phase
<1> QED
  BY <1>1, <1>2, <1>3, <1>4

LEMMA KeptIdle ==
    ASSUME NEW b \in Asid, pc'[b] \in Idle
    PROVE  Kept(b)' /\ b \in Started'
<1>1. /\ pc'[b][1] \notin {"none", "tape", "evict", "load"}
      /\ pc'[b] # <<"fault", "map">>
      /\ \A for \in Phase : \A k : pc'[b] # <<for, k>>
  BY IdlePoints
<1>2. b \in Started'
  BY <1>1 DEF Started
<1>3. ArmOK(b)' /\ LoadedOK(b)'
  BY <1>1 DEF ArmOK, LoadedOK, Phase
<1>4. TapeOK(b)' /\ FreshOK(b)' /\ EvictOK(b)'
  BY <1>1, <1>2 DEF TapeOK, FreshOK, EvictOK, Phase
<1> QED
  BY <1>2, <1>3, <1>4 DEF Kept

LEMMA IdleSteps ==     \* of the programs, and the ends of the handler
    ASSUME Inv, PoolInv, NEW a \in Asid,
           \/ User(a) \/ WriteToTerminal(a) \/ UserTerminate(a)
           \/ GainPool(a) \/ ReleasePool(a)
           \/ ChooseFrame(a) /\ AlreadyThere(a)
    PROVE  pc[a] \in Idle /\ pc'[a] \in Idle
<1>1. CASE User(a)
  <2>1. pc[a] = <<"user", "run">>
    BY <1>1 DEF User, Store, UserFault, UserTrap, EmptyCall, PrintCall, At
  <2>2. \/ UNCHANGED pc
        \/ \E q \in {<<"fault", "P">>, <<"exit", "V">>, <<"lost", "">>,
                     <<"print", "char">>} : GoTo(a, q)
    BY <1>1 DEF User, Store, UserFault, TLBException, UserTrap, EmptyCall,
                PrintCall, ToExit
  <2> QED
    BY <2>1, <2>2, PcMoves DEF Idle
<1>2. CASE WriteToTerminal(a) \/ UserTerminate(a)
  <2>1. pc[a] \in {<<"print", "char">>, <<"exit", "V">>, <<"exit", "SYS2">>}
    BY <1>2 DEF WriteToTerminal, PrintChar, PrintFault, PrintEnd,
                UserTerminate, At
  <2>2. \/ UNCHANGED pc
        \/ \E q \in {<<"fault", "P">>, <<"exit", "V">>, <<"user", "run">>,
                     <<"exit", "SYS2">>, <<"dead", "">>} : GoTo(a, q)
    BY <1>2 DEF WriteToTerminal, PrintChar, PrintFault, PrintEnd, PrintDone,
                TLBException, UserTerminate
  <2> QED
    BY <2>1, <2>2, PcMoves DEF Idle
<1>3. CASE GainPool(a)
  BY <1>3, PcMoves DEF GainPool, At, Idle
<1>4. ASSUME Resume(a), pc[a] \in {<<"fault", "V">>, <<"fault", "find">>}
      PROVE  pc[a] \in Idle /\ pc'[a] \in Idle
  <2>1. old[a].resume \in {<<"user", "run">>, <<"print", "char">>}
    BY DEF Inv, Typed, PagerTyped
  <2> QED
    BY <1>4, <2>1, PcMoves DEF Resume, Idle
<1>5. CASE ReleasePool(a)
  BY <1>4, <1>5 DEF ReleasePool, At
<1>6. ASSUME ChooseFrame(a), AlreadyThere(a)
      PROVE  pc[a] \in Idle /\ pc'[a] \in Idle
  BY <1>4, <1>6 DEF ChooseFrame, At
<1> QED
  BY <1>1, <1>2, <1>3, <1>5, <1>6

LEMMA Legs ==
    \A for \in Phase, k \in Leg :
        /\ <<for, k>>[1] = for /\ <<for, k>>[2] = k
        /\ <<for, k>> # <<"fault", "map">>
  BY DEF Phase, Leg

LEMMA KeptDisk ==     \* the three steps to a transfer
    ASSUME Inv, PoolInv, StoreTyped, NEW a \in Asid, Kept(a), NEW for \in Phase,
           GainDisk(a, for) \/ Seek(a, for) \/ Transfer(a, for)
    PROVE  /\ Kept(a)'
           /\ UNCHANGED diskCmd \/ CommandOf(a)'
           /\ a \in Started' <=> a \in Started
<1>1. PICK k \in {"P", "seek", "transfer"}, l \in {"seek", "transfer", "V"} :
          /\ pc[a] = <<for, k>> /\ ~Blocked(a) /\ GoTo(a, <<for, l>>)
          /\ \/ k = "P" /\ l = "seek" /\ UNCHANGED diskCmd
             \/ k = "seek" /\ l = "transfer" /\ diskCmd' = SeekOf(a, for)
             \/ k = "transfer" /\ l = "V" /\ diskCmd' = TransferOf(a, for)
  <2>1. CASE GainDisk(a, for)
    BY <2>1 DEF GainDisk, At, diskVars
  <2>2. CASE Seek(a, for)
    BY <2>2 DEF Seek, At, Command, SeekOf
  <2>3. CASE Transfer(a, for)
    BY <2>3 DEF Transfer, At, Command, TransferOf
  <2> QED
    BY <2>1, <2>2, <2>3
<1>2. UNCHANGED <<i, old, frame, frameSwapPool, pageTable, ram, disk, cylinder>>
  BY DEF GainDisk, Seek, Transfer, pagerVars, diskVars
<1>3. pc'[a] = <<for, l>> /\ k \in Leg /\ l \in Leg
  BY <1>1, PcMoves DEF Leg
<1>4. pc'[a][1] = for /\ pc[a][1] = for
  BY <1>1, <1>3, Legs
<1>5. a \in Started' <=> a \in Started
  BY <1>4 DEF Started
<1>6. BlockOf(a, for)' = BlockOf(a, for)
  BY <1>2 DEF BlockOf
<1>7. \A to \in Phase : \A m : pc'[a] = <<to, m>> <=> to = for /\ m = l
  BY <1>3
<1>8. TapeOK(a)'
  BY <1>1, <1>2, <1>3, <1>5, <1>7 DEF Kept, TapeOK, Phase
<1>9. FreshOK(a)'
  BY <1>2, <1>5 DEF Kept, FreshOK
<1>10. EvictOK(a)'
  BY <1>2, <1>4 DEF Kept, EvictOK, Occupied, Home, TableOf
<1>11. ASSUME l = "transfer" \/ l = "V"
       PROVE  diskCmd'.proc = a /\ CommandOf(a)'
  <2>1. SeekOf(a, for)' = SeekOf(a, for)
        /\ TransferOf(a, for)' = TransferOf(a, for)
    BY <1>6 DEF SeekOf, TransferOf
  <2>2. SeekOf(a, for).proc = a /\ TransferOf(a, for).proc = a
    BY DEF SeekOf, TransferOf
  <2> QED
    BY <1>1, <1>3, <1>11, <2>1, <2>2 DEF CommandOf
<1>12. ArmOK(a)'
  <2> SUFFICES ASSUME l = "V"  PROVE cylinder' = BlockOf(a, for)'.cyl
    BY <1>7, <1>11 DEF ArmOK
  <2>1. pc[a] = <<for, "transfer">> /\ diskCmd.proc # a
    BY <1>1 DEF Blocked
  <2> QED
    BY <1>2, <1>6, <2>1 DEF Kept, ArmOK
<1>13. LoadedOK(a)'
  <2>1. pc'[a] # <<"fault", "map">>
    BY <1>3, Legs
  <2>2. pc'[a] = <<"load", "V">> => diskCmd'.proc = a
    BY <1>3, <1>11
  <2> QED
    BY <2>1, <2>2 DEF LoadedOK
<1>14. UNCHANGED diskCmd \/ CommandOf(a)'
  BY <1>1, <1>11
<1> QED
  BY <1>5, <1>8, <1>9, <1>10, <1>12, <1>13, <1>14 DEF Kept

LEMMA KeptTape ==
    ASSUME Inv, PoolInv, StoreTyped, NEW a \in Asid, Kept(a),
           ReadBlock(a) \/ NextBlock(a)
    PROVE  Kept(a)'
<1>1. CASE pc'[a] = <<"user", "run">>
  BY <1>1, KeptIdle DEF Idle
<1>2. CASE pc'[a] # <<"user", "run">>
  <2>1. pc[a] \in {<<"tape", "read">>, <<"tape", "V">>}
    BY DEF ReadBlock, NextBlock, ReleaseDisk, At
  <2>2. a \notin Started
    BY <2>1 DEF Started
  <2>3. UNCHANGED <<frameSwapPool, pageTable>>
    BY DEF ReadBlock, NextBlock, ReleaseDisk, pagerVars
  <2>4. i[a] \in 0 .. TapeLen[a] - 1
    BY <2>2 DEF Kept, TapeOK
  <2>5. /\ pc'[a] = <<"tape", "P">> \/ pc'[a] = <<"tape", "read">>
        /\ i'[a] \in 0 .. TapeLen[a] - 1
        /\ pc'[a] = <<"tape", "P">> =>
               ram'[TapeBuffer(a)] = <<a, i'[a], 0>>
    <3>1. CASE ReadBlock(a)
      <4>1. /\ ram' = [ram EXCEPT ![TapeBuffer(a)] =
                           <<a, getCylinderNum(i[a]), 0>>]
            /\ GoTo(a, <<"tape", "P">>) /\ UNCHANGED i
        BY <1>2, <3>1, PcMoves DEF ReadBlock, StartUser
      <4>2. getCylinderNum(i[a]) = i[a]
        BY <2>4, UserAssumption DEF getCylinderNum
      <4> QED
        BY <2>4, <4>1, <4>2, PcMoves, Buffers DEF StoreTyped
    <3>2. CASE NextBlock(a)
      <4>1. GoTo(a, IF i[a] + 1 < TapeLen[a] THEN <<"tape", "read">>
                                             ELSE <<"user", "run">>)
        BY <3>2 DEF NextBlock, ReleaseDisk
      <4>2. i[a] + 1 < TapeLen[a] /\ pc'[a] = <<"tape", "read">>
        BY <1>2, <4>1, PcMoves
      <4>3. i' = [i EXCEPT ![a] = i[a] + 1]
        BY <3>2, <4>2 DEF NextBlock
      <4>4. i'[a] = i[a] + 1
        BY <4>3, Processes DEF Inv, Typed, ProcTyped
      <4>5. i'[a] \in 0 .. TapeLen[a] - 1
        BY <2>4, <4>2, <4>4, UserAssumption
      <4> QED
        BY <4>2, <4>5
    <3> QED
      BY <3>1, <3>2
  <2>6. TapeOK(a)'
    BY <2>5 DEF TapeOK, Leg
  <2>7. FreshOK(a)'
    BY <2>2, <2>3 DEF Kept, FreshOK
  <2>8. ArmOK(a)' /\ LoadedOK(a)' /\ EvictOK(a)'
    BY <2>5 DEF ArmOK, LoadedOK, EvictOK
  <2> QED
    BY <2>6, <2>7, <2>8 DEF Kept
<1> QED
  BY <1>1, <1>2

LEMMA KeptChoose ==
    ASSUME Inv, PoolInv, StoreTyped, NEW a \in Asid, Kept(a), ChooseFrame(a)
    PROVE  Kept(a)'
<1>1. CASE AlreadyThere(a)
  BY <1>1, IdleSteps, KeptIdle
<1>2. CASE ~AlreadyThere(a)
  <2> DEFINE f == findFrame
  <2>1. /\ f \in Frame /\ frame'[a] = f /\ UNCHANGED frameSwapPool
        /\ pc'[a] = (IF Occupied(f) THEN <<"evict", "P">>
                                    ELSE <<"load", "P">>)
    BY <1>2, Chosen
  <2>2. Occupied(f) => Home(f).valid /\ Home(f).frame = f
    BY <1>2, <2>1, Chosen
  <2>3. \A t \in Proc, k \in Index :
            pageTable'[t][k].frame = pageTable[t][k].frame
    BY <1>2, Chosen
  <2> HIDE DEF f
  <2>4. EvictOK(a)'
    <3>1. CASE Occupied(f)
      <4>1. /\ frameSwapPool[f].page \in Index
            /\ TableOf(frameSwapPool[f]) \in Proc
        BY <2>1, <3>1, Slots
      <4>2. Home(frame[a])' =
                pageTable'[TableOf(frameSwapPool[f])][frameSwapPool[f].page]
        BY <2>1 DEF Home, TableOf
      <4>3. Home(frame[a])'.frame = f /\ Occupied(frame[a])'
        BY <2>1, <2>2, <2>3, <3>1, <4>1, <4>2 DEF Home, Occupied
      <4> QED
        BY <2>1, <4>3 DEF EvictOK
    <3>2. CASE ~Occupied(f)
      BY <2>1, <3>2 DEF EvictOK
    <3> QED
      BY <3>1, <3>2
  <2>5. pc'[a][1] \in {"evict", "load"} /\ pc'[a][2] = "P"
        /\ pc'[a] = <<pc'[a][1], "P">>
    BY <2>1
  <2>6. a \in Started'
    BY <2>5 DEF Started
  <2>7. ArmOK(a)' /\ TapeOK(a)' /\ FreshOK(a)' /\ LoadedOK(a)'
    BY <2>5, <2>6 DEF ArmOK, TapeOK, FreshOK, LoadedOK
  <2> QED
    BY <2>4, <2>7 DEF Kept
<1> QED
  BY <1>1, <1>2

LEMMA KeptRelease ==
    ASSUME Inv, PoolInv, StoreTyped, NEW a \in Asid, Kept(a),
           Evicted(a) \/ Loaded(a)
    PROVE  Kept(a)'
<1>1. UNCHANGED <<i, old, frame, frameSwapPool, pageTable, ram, disk, cylinder,
                  diskCmd>>
  BY DEF Evicted, Loaded, ReleaseDisk, pagerVars, diskVars
<1>2. CASE Evicted(a)
  <2>1. pc'[a] = <<"load", "P">>
    BY <1>2, PcMoves DEF Evicted, ReleaseDisk
  <2>2. a \in Started'
    BY <2>1 DEF Started
  <2> QED
    BY <2>1, <2>2 DEF Kept, ArmOK, TapeOK, FreshOK, EvictOK, LoadedOK
<1>3. CASE Loaded(a)
  <2>1. pc[a] = <<"load", "V">> /\ ~Blocked(a) /\ pc'[a] = <<"fault", "map">>
    BY <1>3, PcMoves DEF Loaded, ReleaseDisk, At
  <2>2. a \in Started'
    BY <2>1 DEF Started
  <2>3. LoadedOK(a)'
    <3>1. diskCmd.proc # a
      BY <2>1 DEF Blocked
    <3> QED
      BY <1>1, <2>1, <3>1 DEF Kept, LoadedOK
  <2>4. ArmOK(a)' /\ TapeOK(a)' /\ FreshOK(a)' /\ EvictOK(a)'
    BY <2>1, <2>2 DEF ArmOK, TapeOK, FreshOK, EvictOK, Phase
  <2> QED
    BY <2>3, <2>4 DEF Kept
<1> QED
  BY <1>2, <1>3

LEMMA OwnKept ==
    ASSUME Inv, PoolInv, StoreTyped, NEW a \in Asid, Kept(a),
           Support(a) \/ User(a)
    PROVE  Kept(a)' /\ (UNCHANGED diskCmd \/ CommandOf(a)')
<1>1. UNCHANGED diskCmd \/ CommandOf(a)'
  BY KeptDisk, OwnTouches
<1>2. CASE \/ User(a) \/ WriteToTerminal(a) \/ UserTerminate(a)
           \/ GainPool(a) \/ ReleasePool(a)
  BY <1>1, <1>2, IdleSteps, KeptIdle
<1>3. CASE MapPage(a)
  <2>1. pc'[a] = <<"fault", "V">>
    BY <1>3, Mapped
  <2> QED
    BY <1>1, <2>1, KeptIdle DEF Idle
<1>4. CASE readTape(a)
  <2>1. CASE GainDisk(a, "tape") \/ Seek(a, "tape") \/ Transfer(a, "tape")
    BY <1>1, <2>1, KeptDisk DEF Phase
  <2> QED
    BY <1>1, <1>4, <2>1, KeptTape DEF readTape
<1>5. CASE UserTLBHandler(a)
  <2>1. ASSUME NEW for \in {"evict", "load"},
               GainDisk(a, for) \/ Seek(a, for) \/ Transfer(a, for)
        PROVE  Kept(a)'
    BY <2>1, KeptDisk DEF Phase
  <2> QED
    BY <1>1, <1>2, <1>3, <1>5, <2>1, KeptChoose, KeptRelease DEF UserTLBHandler
<1> QED
  BY <1>2, <1>4, <1>5 DEF Support

LEMMA KeptOwnStep ==
    ASSUME Inv, PoolInv, KeptInv, NEW a \in Asid, Support(a) \/ User(a)
    PROVE  KeptInv'
<1>1. StoreTyped'
  <2>1. ram' \in [Address -> Content] /\ UNCHANGED <<disk, cylinder>>
    BY RamMoves, OwnTouches DEF KeptInv
  <2>2. staleTLB' = {}
    <3>1. staleTLB' \in {staleTLB, {}}
      <4>1. CASE ChooseFrame(a)
        <5>1. CASE AlreadyThere(a)
          BY <4>1, <5>1 DEF ChooseFrame
        <5>2. CASE ~AlreadyThere(a)
          BY <4>1, <5>2, Chosen
        <5> QED
          BY <5>1, <5>2
      <4>2. CASE MapPage(a)
        BY <4>2, Mapped
      <4>3. CASE User(a) \/ WriteToTerminal(a) \/ UserTerminate(a)
        BY <4>3 DEF User, Store, UserFault, TLBException, UserTrap, EmptyCall,
                    PrintCall, WriteToTerminal, PrintChar, PrintFault,
                    PrintEnd, PrintDone, UserTerminate, pagerVars
      <4>4. CASE readTape(a)
        BY <4>4 DEF readTape, ReadBlock, NextBlock, ReleaseDisk, GainDisk,
                    Seek, Transfer, pagerVars
      <4>5. CASE UserTLBHandler(a) /\ ~ChooseFrame(a) /\ ~MapPage(a)
        BY <4>5 DEF UserTLBHandler, GainPool, Evicted, Loaded, ReleaseDisk,
                    GainDisk, Seek, Transfer, ReleasePool, pagerVars
      <4> QED
        BY <4>1, <4>2, <4>3, <4>4, <4>5 DEF Support
    <3> QED
      BY <3>1 DEF KeptInv, StoreTyped
  <2> QED
    BY <2>1, <2>2 DEF KeptInv, StoreTyped
<1>2. \A b \in Asid : Kept(b)'
  BY OthersKept, OwnKept DEF KeptInv
<1>3. diskCmd' = NOCMD \/ \E b \in Asid : CommandOf(b)'
  <2>1. CASE UNCHANGED diskCmd /\ diskCmd # NOCMD
    <3>1. PICK b \in Asid : CommandOf(b)
      BY <2>1 DEF KeptInv
    <3>2. diskCmd.proc = b
      BY <3>1 DEF CommandOf, SeekOf, TransferOf
    <3>3. b # a
      BY <3>2, OwnTouches DEF Blocked
    <3> QED
      BY <2>1, <3>1, <3>3, OthersKept DEF KeptInv
  <2>2. CASE CommandOf(a)'
    BY <2>2
  <2> QED
    BY <2>1, <2>2, OwnKept DEF KeptInv
<1> QED
  BY <1>1, <1>2, <1>3 DEF KeptInv

-----------------------------------------------------------------------------
(* The disk completes its command.                                         *)
LEMMA AtMostOne ==     \* at a transfer, and at the replacement of a page
    ASSUME Inv, NEW a \in Asid, NEW b \in Asid
    PROVE  /\ \A for, to \in Phase, k, l \in {"transfer", "V"} :
                  pc[a] = <<for, k>> /\ pc[b] = <<to, l>> => a = b
           /\ Kind(pc[a]) = "replacing" /\ Kind(pc[b]) = "replacing" => a = b
<1>1. ASSUME NEW for \in Phase, NEW to \in Phase, NEW k \in {"transfer", "V"},
             NEW l \in {"transfer", "V"}, pc[a] = <<for, k>>, pc[b] = <<to, l>>
      PROVE  a = b
  <2>1. MutexOK(disk0) /\ Entering(disk0) = Phase \X {"seek"}
    BY DEF Inv, SharedMutex, Entering, swapmutex, disk0
  <2>2. pc[a] \in Inside(disk0) /\ pc[b] \in Inside(disk0)
    BY <1>1, Points
  <2>3. pc[a] \notin Entering(disk0) /\ pc[b] \notin Entering(disk0)
    BY <1>1, <2>1
  <2>4. a \in In(disk0) /\ b \in In(disk0)
    BY <2>1, <2>2, <2>3 DEF MutexOK, In
  <2> QED
    BY <2>1, <2>4 DEF MutexOK
<1>2. ASSUME Kind(pc[a]) = "replacing", Kind(pc[b]) = "replacing"
      PROVE  a = b
  <2>1. MutexOK(swapmutex) /\ Entering(swapmutex) = {<<"fault", "find">>}
    BY DEF Inv, SharedMutex, Entering
  <2>2. pc[a] \in Inside(swapmutex)
    BY <1>2 DEF Kind, Replacing, Inside
  <2>3. Kind(<<"fault", "find">>) = "looking"
    BY Kinds
  <2>4. a \in In(swapmutex)
    BY <1>2, <2>1, <2>2, <2>3 DEF MutexOK, In
  <2> QED
    BY <1>2, <2>4, OneReplaces
<1> QED
  BY <1>1, <1>2

LEMMA Cylinders ==
    ASSUME Inv, PoolInv, NEW b \in Asid, Kept(b), NEW for \in Phase,
           NEW k \in Leg, pc[b] = <<for, k>>
    PROVE  /\ BlockOf(b, for).cyl \in Index
           /\ for = "tape" => BlockOf(b, for) =
                  [cyl |-> i[b], sector |-> getSectorNum(b), head |-> 0,
                   addr |-> TapeBuffer(b)]
           /\ for = "evict" => BlockOf(b, for) =
                  [cyl |-> frameSwapPool[frame[b]].page,
                   sector |-> getSectorNum(TableOf(frameSwapPool[frame[b]])),
                   head |-> getHeadNum(frameSwapPool[frame[b]].seg),
                   addr |-> frame[b]]
           /\ for = "load" => BlockOf(b, for) =
                  [cyl |-> old[b].page, sector |-> getSectorNum(b),
                   head |-> getHeadNum(old[b].seg), addr |-> frame[b]]
<1>1. \A n \in Index : getCylinderNum(n) = n
  BY UserAssumption DEF getCylinderNum, Index
<1>2. CASE for = "tape"
  <2>1. b \notin Started
    BY <1>2 DEF Started
  <2>2. i[b] \in Index
    BY <2>1, UserAssumption DEF Kept, TapeOK, Index
  <2>3. BlockOf(b, for) =
            [cyl |-> i[b], sector |-> getSectorNum(b), head |-> 0,
             addr |-> TapeBuffer(b)]
    BY <1>1, <1>2, <2>2 DEF BlockOf, getHeadNum
  <2> QED
    BY <1>2, <2>2, <2>3
<1>3. CASE for = "evict"
  <2> DEFINE e == frameSwapPool[frame[b]]
  <2>1. pc[b][1] = "evict" /\ Kind(pc[b]) = "replacing"
    BY <1>3, PhaseKind, Legs
  <2>2. frame[b] \in Frame /\ Occupied(frame[b])
    BY <2>1, ReplacedFrame DEF Kept, EvictOK
  <2>3. e.page \in Index
    BY <2>2, Slots
  <2>4. BlockOf(b, for) =
            [cyl |-> e.page, sector |-> getSectorNum(TableOf(e)),
             head |-> getHeadNum(e.seg), addr |-> frame[b]]
    BY <1>1, <1>3, <2>3 DEF BlockOf, TableOf
  <2> QED
    BY <1>3, <2>3, <2>4
<1>4. CASE for = "load"
  <2>1. Kind(pc[b]) = "replacing"
    BY <1>4, Kinds DEF Leg
  <2>2. old[b].page \in Index
    BY <2>1 DEF PoolInv, FaultOK
  <2>3. BlockOf(b, for) =
            [cyl |-> old[b].page, sector |-> getSectorNum(b),
             head |-> getHeadNum(old[b].seg), addr |-> frame[b]]
    BY <1>1, <1>4, <2>2 DEF BlockOf
  <2> QED
    BY <1>4, <2>2, <2>3
<1> QED
  BY <1>2, <1>3, <1>4 DEF Phase

(* The sector that holds a page of a private segment.                      *)
Place(c, k) == <<k, getSectorNum(c), getHeadNum(KUSEG2)>>

LEMMA Sectors ==
    /\ \A c \in Asid, k \in Index : Place(c, k) \in Sector
    /\ \A c, b \in Asid, k, l \in Index :
           Place(c, k) = Place(b, l) => c = b /\ k = l
    /\ \A k, h : <<k, getSectorNum(0), h>> \notin Sector
    /\ \A c \in Asid, k \in Index : \A seg :
           <<k, getSectorNum(c), getHeadNum(seg)>> \in Sector
<1>1. \A c \in Asid : getSectorNum(c) \in 0 .. PROCCNT - 1
  BY UserAssumption DEF getSectorNum, Asid
<1>2. getSectorNum(0) \notin 0 .. PROCCNT - 1
  BY UserAssumption DEF getSectorNum
<1>3. \A c, b \in Asid : getSectorNum(c) = getSectorNum(b) => c = b
  BY UserAssumption DEF getSectorNum, Asid
<1>4. \A seg : getHeadNum(seg) \in {0, 1}
  BY DEF getHeadNum
<1> QED
  BY <1>1, <1>2, <1>3, <1>4 DEF Place, Sector

(* What a completion does for the process that gave the command.           *)
SeekDone(b) ==
    /\ \E for \in Phase :
           pc[b] = <<for, "transfer">> /\ cylinder' = BlockOf(b, for).cyl
    /\ UNCHANGED <<ram, disk>>

TapeDone(b) ==
    /\ pc[b] = <<"tape", "V">> /\ diskCmd.proc = b /\ i[b] \in Index
    /\ UNCHANGED <<ram, cylinder>>
    /\ disk' = [disk EXCEPT ![Place(b, i[b])] = <<b, i[b], 0>>]

EvictDone(b) ==
    /\ pc[b] = <<"evict", "V">> /\ diskCmd.proc = b
    /\ UNCHANGED <<ram, cylinder>>
    /\ LET e == frameSwapPool[frame[b]]
       IN  IF e.seg = KUSEG2
           THEN disk' = [disk EXCEPT ![Place(e.asid, e.page)] = ram[frame[b]]]
           ELSE UNCHANGED disk

LoadDone(b) ==
    /\ pc[b] = <<"load", "V">> /\ diskCmd.proc = b
    /\ UNCHANGED <<disk, cylinder>>
    /\ ram' = [ram EXCEPT ![frame[b]] =
           disk[<<old[b].page, getSectorNum(b), getHeadNum(old[b].seg)>>]]

LEMMA DiskDone ==
    ASSUME Inv, PoolInv, KeptInv, DiskCompletes
    PROVE  \E b \in Asid :
              SeekDone(b) \/ TapeDone(b) \/ EvictDone(b) \/ LoadDone(b)
<1>1. PICK b \in Asid : CommandOf(b)
  BY DEF KeptInv, DiskCompletes
<1>2. PICK for \in Phase :
          \/ pc[b] = <<for, "transfer">> /\ diskCmd = SeekOf(b, for)
          \/ pc[b] = <<for, "V">> /\ diskCmd = TransferOf(b, for)
  BY <1>1 DEF CommandOf
<1>3. CASE pc[b] = <<for, "transfer">> /\ diskCmd = SeekOf(b, for)
  BY <1>3 DEF DiskCompletes, SeekOf, SeekDone
<1>4. CASE pc[b] = <<for, "V">> /\ diskCmd = TransferOf(b, for)
  <2> DEFINE B == BlockOf(b, for)
  <2>1. /\ diskCmd.proc = b /\ diskCmd.addr = B.addr
        /\ diskCmd.sector = B.sector /\ diskCmd.head = B.head
        /\ diskCmd.op = IF for = "load" THEN "read" ELSE "write"
    BY <1>4 DEF TransferOf
  <2>2. cylinder = B.cyl /\ Kept(b)
    BY <1>4 DEF KeptInv, Kept, ArmOK
  <2> DEFINE block == <<B.cyl, B.sector, B.head>>
  <2>3. /\ UNCHANGED cylinder
        /\ for # "load" => /\ UNCHANGED ram
                           /\ disk' = IF block \in Sector
                                      THEN [disk EXCEPT ![block] = ram[B.addr]]
                                      ELSE disk
        /\ for = "load" /\ block \in Sector =>
               /\ UNCHANGED disk
               /\ ram' = [ram EXCEPT ![B.addr] = disk[block]]
    BY <2>1, <2>2 DEF DiskCompletes
  <2>4. CASE for = "tape"
    <3>1. B = [cyl |-> i[b], sector |-> getSectorNum(b), head |-> 0,
               addr |-> TapeBuffer(b)]
          /\ B.cyl \in Index
      BY <1>4, <2>2, <2>4, Cylinders DEF Leg
    <3>2. block = Place(b, i[b]) /\ block \in Sector /\ i[b] \in Index
      BY <3>1, Sectors DEF Place, getHeadNum
    <3>3. ram[TapeBuffer(b)] = <<b, i[b], 0>>
      BY <1>4, <2>2, <2>4 DEF Kept, TapeOK, Leg
    <3> QED
      BY <1>4, <2>1, <2>3, <2>4, <3>1, <3>2, <3>3 DEF TapeDone
  <2>5. CASE for = "evict"
    <3> DEFINE e == frameSwapPool[frame[b]]
    <3>1. B = [cyl |-> e.page, sector |-> getSectorNum(TableOf(e)),
               head |-> getHeadNum(e.seg), addr |-> frame[b]]
          /\ B.cyl \in Index
      BY <1>4, <2>2, <2>5, Cylinders DEF Leg
    <3>2. CASE e.seg = KUSEG2
      <4>1. TableOf(e) = e.asid
        BY <3>2 DEF TableOf, Table
      <4>2. e.asid \in Asid
        <5>1. pc[b][1] = "evict" /\ Kind(pc[b]) = "replacing"
          <6>1. pc[b] = <<"evict", "V">> /\ Kind(<<"evict", "V">>) = "replacing"
            BY <1>4, <2>5, Kinds
          <6> QED
            BY <6>1
        <5>2. frame[b] \in Frame /\ Occupied(frame[b])
          BY <2>2, <5>1, ReplacedFrame DEF Kept, EvictOK
        <5> QED
          BY <5>2 DEF PoolInv, PoolTyped, Occupied, Unoccupied
      <4>3. block = Place(e.asid, e.page) /\ block \in Sector
        BY <3>1, <3>2, <4>1, <4>2, Sectors DEF Place
      <4> QED
        BY <1>4, <2>1, <2>3, <2>5, <3>1, <3>2, <4>3 DEF EvictDone
    <3>3. CASE e.seg # KUSEG2
      <4>1. TableOf(e) = 0
        BY <3>3 DEF TableOf, Table
      <4>2. block \notin Sector
        BY <3>1, <4>1, Sectors
      <4> QED
        BY <1>4, <2>1, <2>3, <2>5, <3>3, <4>2 DEF EvictDone
    <3> QED
      BY <3>2, <3>3
  <2>6. CASE for = "load"
    <3>1. B = [cyl |-> old[b].page, sector |-> getSectorNum(b),
               head |-> getHeadNum(old[b].seg), addr |-> frame[b]]
          /\ B.cyl \in Index
      BY <1>4, <2>2, <2>6, Cylinders DEF Leg
    <3>2. block = <<old[b].page, getSectorNum(b), getHeadNum(old[b].seg)>>
          /\ block \in Sector
      BY <3>1, Sectors
    <3> QED
      BY <1>4, <2>1, <2>3, <2>6, <3>1, <3>2 DEF LoadDone
  <2> QED
    BY <2>4, <2>5, <2>6 DEF Phase
<1> QED
  BY <1>2, <1>3, <1>4

LEMMA KeptDone ==
    ASSUME Inv, PoolInv, KeptInv, DiskCompletes
    PROVE  KeptInv'
<1>1. PICK b \in Asid :
          SeekDone(b) \/ TapeDone(b) \/ EvictDone(b) \/ LoadDone(b)
  BY DiskDone
<1>2. /\ UNCHANGED <<pc, i, old, frame, frameSwapPool, pageTable, staleTLB>>
      /\ diskCmd' = NOCMD
  BY DEF DiskCompletes, pagerVars
<1>3. \A c \in Asid : diskCmd'.proc # c
  BY <1>2, Processes DEF NOCMD
<1>4. \A c \in Asid, for \in Phase : BlockOf(c, for)' = BlockOf(c, for)
  BY <1>2 DEF BlockOf
<1>5. \A c \in Asid : Kept(c)
  BY DEF KeptInv
<1>6. ASSUME NEW for \in Phase, NEW l \in {"transfer", "V"}, pc[b] = <<for, l>>
      PROVE  BlockOf(b, for).cyl \in Index
  BY <1>5, <1>6, Cylinders DEF Leg
<1>7. StoreTyped'
  <2>1. CASE SeekDone(b)
    BY <1>2, <1>6, <2>1 DEF SeekDone, KeptInv, StoreTyped
  <2>2. CASE TapeDone(b)
    <3>1. <<b, i[b], 0>> \in Content
      BY <2>2, Processes DEF TapeDone, Content
    <3> QED
      BY <1>2, <2>2, <3>1 DEF TapeDone, KeptInv, StoreTyped
  <2>3. CASE EvictDone(b)
    <3>1. frame[b] \in Address
      <4>1. Kind(pc[b]) = "replacing"
        BY <2>3, Kinds DEF EvictDone
      <4> QED
        BY <4>1, ReplacedFrame, Buffers
    <3>2. ram[frame[b]] \in Content
      BY <3>1 DEF KeptInv, StoreTyped
    <3> QED
      BY <1>2, <2>3, <3>2 DEF EvictDone, KeptInv, StoreTyped
  <2>4. CASE LoadDone(b)
    <3> DEFINE d == <<old[b].page, getSectorNum(b), getHeadNum(old[b].seg)>>
    <3>1. d \in Sector
      <4>1. Kind(pc[b]) = "replacing"
        BY <2>4, Kinds DEF LoadDone
      <4>2. old[b].page \in Index
        BY <4>1 DEF PoolInv, FaultOK
      <4> QED
        BY <4>2, Sectors
    <3> HIDE DEF d
    <3>2. disk[d] \in Content
      BY <3>1 DEF KeptInv, StoreTyped
    <3>3. ram' = [ram EXCEPT ![frame[b]] = disk[d]]
      BY <2>4 DEF LoadDone, d
    <3> QED
      BY <1>2, <2>4, <3>2, <3>3 DEF LoadDone, KeptInv, StoreTyped
  <2> QED
    BY <1>1, <2>1, <2>2, <2>3, <2>4
<1>8. ASSUME NEW c \in Asid  PROVE ArmOK(c)'
  <2> SUFFICES ASSUME NEW for \in Phase, NEW l \in {"transfer", "V"},
                      pc[c] = <<for, l>>
               PROVE  cylinder' = BlockOf(c, for).cyl
    BY <1>2, <1>4 DEF ArmOK
  <2>1. CASE SeekDone(b)
    <3>1. PICK to \in Phase : pc[b] = <<to, "transfer">>
                              /\ cylinder' = BlockOf(b, to).cyl
      BY <2>1 DEF SeekDone
    <3>2. c = b
      BY <3>1, AtMostOne
    <3> QED
      BY <3>1, <3>2
  <2>2. CASE TapeDone(b) \/ EvictDone(b) \/ LoadDone(b)
    <3>1. UNCHANGED cylinder
          /\ pc[b] \in {<<"tape", "V">>, <<"evict", "V">>, <<"load", "V">>}
      BY <2>2 DEF TapeDone, EvictDone, LoadDone
    <3>2. PICK to \in Phase : pc[b] = <<to, "V">>
      BY <3>1 DEF Phase
    <3>3. c = b
      BY <3>2, AtMostOne
    <3>4. l = "V"
      BY <3>2, <3>3
    <3> QED
      BY <1>5, <3>1, <3>4 DEF Kept, ArmOK
  <2> QED
    BY <1>1, <2>1, <2>2
<1>9. ASSUME NEW c \in Asid  PROVE TapeOK(c)'
  <2>1. ram'[TapeBuffer(c)] = ram[TapeBuffer(c)]
    <3>1. CASE LoadDone(b)
      <4>1. Kind(pc[b]) = "replacing"
        BY <3>1, Kinds DEF LoadDone
      <4>2. TapeBuffer(c) # frame[b] /\ TapeBuffer(c) \in Address
        BY <4>1, ReplacedFrame, Buffers
      <4> QED
        BY <3>1, <4>2 DEF LoadDone, KeptInv, StoreTyped
    <3>2. CASE ~LoadDone(b)
      BY <1>1, <3>2 DEF SeekDone, TapeDone, EvictDone
    <3> QED
      BY <3>1, <3>2
  <2> QED
    BY <1>2, <1>5, <2>1 DEF Kept, TapeOK, Started
<1>10. ASSUME NEW c \in Asid  PROVE FreshOK(c)' /\ EvictOK(c)'
  BY <1>2, <1>5 DEF Kept, FreshOK, EvictOK, Started, Occupied, Home, TableOf
<1>11. ASSUME NEW c \in Asid  PROVE LoadedOK(c)'
  <2> DEFINE d == <<old[c].page, getSectorNum(c), 0>>
  <2> SUFFICES ASSUME pc[c] \in {<<"load", "V">>, <<"fault", "map">>},
                      old[c].seg = KUSEG2
               PROVE  ram'[frame[c]] = disk'[d]
    BY <1>2 DEF LoadedOK
  <2>1. Kind(pc[c]) = "replacing"
    BY Kinds
  <2>2. frame[c] \in Frame /\ frame[c] \in Address /\ old[c].page \in Index
    BY <2>1, ReplacedFrame, Buffers DEF PoolInv, FaultOK
  <2>3. d = Place(c, old[c].page) /\ d \in Sector
    BY <2>2, Sectors DEF Place, getHeadNum
  <2>4. CASE LoadDone(b)
    <3>1. c = b
      BY <2>1, <2>4, Kinds, AtMostOne DEF LoadDone
    <3>2. getHeadNum(old[b].seg) = 0
      BY <3>1 DEF getHeadNum
    <3> QED
      BY <2>2, <2>4, <3>1, <3>2 DEF LoadDone, KeptInv, StoreTyped
  <2>5. CASE ~LoadDone(b)
    <3>1. pc[c] = <<"fault", "map">>
      <4> SUFFICES ASSUME pc[c] = <<"load", "V">>  PROVE FALSE
        OBVIOUS
      <4>1. PICK to \in Phase, l \in {"transfer", "V"} :
                pc[b] = <<to, l>> /\ (l = "V" => to # "load")
        BY <1>1, <2>5 DEF SeekDone, TapeDone, EvictDone, Phase
      <4>2. b = c
        BY <4>1, AtMostOne DEF Phase
      <4> QED
        BY <4>1, <4>2
    <3>2. ram[frame[c]] = disk[d]
      BY <1>5, <3>1 DEF Kept, LoadedOK
    <3>3. CASE SeekDone(b)
      BY <3>2, <3>3 DEF SeekDone
    <3>4. CASE TapeDone(b)
      <4>1. b # c
        BY <3>1, <3>4 DEF TapeDone
      <4>2. d # Place(b, i[b])
        BY <2>2, <2>3, <3>4, <4>1, Sectors DEF TapeDone
      <4> QED
        BY <2>3, <3>2, <3>4, <4>2 DEF TapeDone, KeptInv, StoreTyped
    <3>5. CASE EvictDone(b)
      <4>1. Kind(pc[b]) = "replacing"
        BY <3>5, Kinds DEF EvictDone
      <4>2. b = c
        BY <2>1, <4>1, AtMostOne
      <4> QED
        BY <3>1, <3>5, <4>2 DEF EvictDone
    <3> QED
      BY <1>1, <2>5, <3>3, <3>4, <3>5
  <2> QED
    BY <2>4, <2>5
<1> QED
  BY <1>2, <1>7, <1>8, <1>9, <1>10, <1>11 DEF KeptInv, Kept

-----------------------------------------------------------------------------
(* test(), the initial state, and all steps together.                      *)
LEMMA KeptTest ==
    ASSUME Inv, PoolInv, KeptInv, test
    PROVE  /\ KeptInv' /\ Started' = Started
           /\ UNCHANGED <<frame, frameSwapPool, pageTable, ram, disk, diskCmd>>
           /\ \A b \in Asid : /\ pc[b][1] = "evict" => pc'[b] = pc[b]
                              /\ pc'[b][1] = "evict" => pc'[b] = pc[b]
           /\ \A b \in Asid \ Started :
                  \/ pc'[b] = pc[b]
                  \/ pc[b] = <<"none", "">> /\ pc'[b] = <<"tape", "read">>
<1>1. UNCHANGED <<old, frame, frameSwapPool, pageTable, staleTLB, ram, disk,
                  cylinder, diskCmd>>
  BY DEF test, CreateUser, WaitForUsers, EndTest, pagerVars, diskVars
<1>2. \A b \in Asid : i'[b] = i[b]
  BY Processes DEF test, CreateUser, WaitForUsers, EndTest, Inv, Typed,
                   ProcTyped
<1>3. \A b \in Asid : Kept(b)
  BY DEF KeptInv
<1>4. ASSUME NEW b \in Asid, pc'[b] = pc[b]
      PROVE  /\ Kept(b)' /\ (CommandOf(b) => CommandOf(b)')
             /\ b \in Started' <=> b \in Started
  <2>1. \A for \in Phase : BlockOf(b, for)' = BlockOf(b, for)
    BY <1>1, <1>2 DEF BlockOf
  <2>2. ArmOK(b)' /\ (CommandOf(b) => CommandOf(b)')
    <3>1. ArmOK(b)'
      BY <1>1, <1>3, <1>4, <2>1 DEF Kept, ArmOK
    <3>2. \A for \in Phase : SeekOf(b, for)' = SeekOf(b, for)
                             /\ TransferOf(b, for)' = TransferOf(b, for)
      BY <2>1 DEF SeekOf, TransferOf
    <3> QED
      BY <1>1, <1>4, <3>1, <3>2 DEF CommandOf
  <2>3. b \in Started' <=> b \in Started
    BY <1>4 DEF Started
  <2>4. TapeOK(b)' /\ FreshOK(b)'
    BY <1>1, <1>2, <1>3, <1>4, <2>3 DEF Kept, TapeOK, FreshOK
  <2>5. EvictOK(b)' /\ LoadedOK(b)'
    BY <1>1, <1>3, <1>4 DEF Kept, EvictOK, LoadedOK, Occupied, Home, TableOf
  <2> QED
    BY <2>2, <2>3, <2>4, <2>5 DEF Kept
<1>5. StoreTyped'
  BY <1>1 DEF KeptInv, StoreTyped
<1>6. ASSUME \A b \in Asid : CommandOf(b) => pc'[b] = pc[b],
             \A b \in Asid : Kept(b)'
      PROVE  KeptInv'
  <2>1. diskCmd' = NOCMD \/ \E b \in Asid : CommandOf(b)'
    <3>1. CASE diskCmd = NOCMD
      BY <1>1, <3>1
    <3>2. CASE diskCmd # NOCMD
      BY <1>4, <1>6, <3>2 DEF KeptInv
    <3> QED
      BY <3>1, <3>2
  <2> QED
    BY <1>5, <1>6, <2>1 DEF KeptInv
<1>7. CASE CreateUser
  <2> DEFINE n == i[0] + 1
  <2>1. /\ pc[0] = <<"test", "create">> /\ pc \in [Proc -> Point]
        /\ \E q : pc' = [pc EXCEPT ![n] = <<"tape", "read">>, ![0] = q]
    BY <1>7 DEF CreateUser, At, Inv, Typed, ProcTyped
  <2>2. \A b \in Asid : b # n => pc'[b] = pc[b]
    BY <2>1, Processes
  <2>3. ASSUME NEW b \in Asid, b = n
        PROVE  pc[b] = <<"none", "">> /\ pc'[b] = <<"tape", "read">>
    <3>1. i[0] \in 0 .. PROCCNT - 1
      BY <2>1 DEF Inv, MasterOK
    <3>2. b > i[0]
      BY <2>3, <3>1, Processes
    <3>3. pc[b] = <<"none", "">>
      BY <2>1, <3>2 DEF Inv, MasterOK
    <3>4. pc'[b] = <<"tape", "read">>
      BY <2>1, <2>3, Processes
    <3> QED
      BY <3>3, <3>4
  <2>4. ASSUME NEW b \in Asid, b = n
        PROVE  /\ Kept(b)' /\ ~CommandOf(b)
               /\ b \notin Started /\ b \notin Started'
    <3>1. pc'[b] = <<"tape", "read">> /\ \E k : pc[b] = <<"none", k>>
      BY <2>3, <2>4
    <3>2. b \notin Started /\ b \notin Started'
      BY <3>1 DEF Started
    <3>3. ~CommandOf(b)
      BY <3>1 DEF CommandOf, Phase
    <3>4. TapeOK(b)'
      BY <1>2, <1>3, <3>1, <3>2 DEF Kept, TapeOK, Leg
    <3>5. FreshOK(b)'
      BY <1>1, <1>3, <3>2 DEF Kept, FreshOK
    <3>6. ArmOK(b)' /\ EvictOK(b)' /\ LoadedOK(b)'
      BY <3>1 DEF ArmOK, EvictOK, LoadedOK, Phase
    <3> QED
      BY <3>2, <3>3, <3>4, <3>5, <3>6 DEF Kept
  <2> HIDE DEF n
  <2>5. KeptInv'
    BY <1>4, <1>6, <2>2, <2>4
  <2>6. \A b \in Asid : b \in Started' <=> b \in Started
    BY <1>4, <2>2, <2>4
  <2>7. Started' = Started
    BY <2>6 DEF Started
  <2>8. \A b \in Asid : /\ pc[b][1] = "evict" => pc'[b] = pc[b]
                        /\ pc'[b][1] = "evict" => pc'[b] = pc[b]
    <3> SUFFICES ASSUME NEW b \in Asid, b = n
                 PROVE  pc[b][1] # "evict" /\ pc'[b][1] # "evict"
      BY <2>2
    <3>1. pc'[b] = <<"tape", "read">> /\ \E k : pc[b] = <<"none", k>>
      BY <2>3
    <3> QED
      BY <3>1
  <2> QED
    BY <1>1, <2>2, <2>3, <2>5, <2>7, <2>8
<1>8. CASE WaitForUsers
  <2>1. \A b \in Asid : pc'[b] = pc[b]
    BY <1>8, Processes DEF WaitForUsers, GoTo, Inv, Typed, ProcTyped
  <2>2. Started' = Started
    BY <1>4, <2>1 DEF Started
  <2> QED
    BY <1>1, <1>4, <1>6, <2>1, <2>2
<1>9. CASE EndTest
  <2>1. Gone = Asid /\ pc' = [a \in Proc |-> <<"dead", "">>]
    BY <1>9, AllGone DEF EndTest, At
  <2>2. ASSUME NEW b \in Asid
        PROVE  pc[b] \in Idle /\ pc'[b] \in Idle
    <3>1. pc[b] \in GonePoint /\ pc'[b] = <<"dead", "">>
      BY <2>1, Processes DEF Gone
    <3> QED
      BY <3>1 DEF GonePoint, Idle
  <2>3. ASSUME NEW b \in Asid
        PROVE  /\ pc[b][1] \notin {"none", "tape", "evict", "load"}
               /\ pc'[b][1] \notin {"none", "tape", "evict", "load"}
               /\ ~CommandOf(b)
    BY <2>2, IdlePoints DEF CommandOf
  <2>4. KeptInv'
    BY <1>6, <2>2, <2>3, KeptIdle
  <2>5. Started' = Started
    BY <2>3 DEF Started
  <2> QED
    BY <1>1, <2>3, <2>4, <2>5 DEF Started
<1> QED
  BY <1>7, <1>8, <1>9 DEF test

LEMMA KeptInit ==
    ASSUME Init
    PROVE  KeptInv
<1>1. StoreTyped
  <2>1. 0 \in Index /\ Blank \in Content
    BY UserAssumption DEF Index, Content
  <2> QED
    BY <2>1 DEF Init, StoreTyped
<1>2. ASSUME NEW b \in Asid  PROVE Kept(b)
  <2>1. i[b] = 0 /\ \E k : pc[b] = <<"none", k>>
    BY Processes DEF Init
  <2>2. TapeOK(b)
    <3>1. 0 \in 0 .. TapeLen[b] - 1
      BY UserAssumption
    <3> QED
      BY <2>1, <3>1 DEF TapeOK, Leg
  <2>3. FreshOK(b)
    <3>1. /\ \A k \in Index : pageTable[b][k] = [valid |-> FALSE, frame |-> 0]
          /\ \A f \in Frame : frameSwapPool[f] = Unoccupied
      BY Processes DEF Init
    <3> QED
      BY <3>1, Processes DEF FreshOK, Unoccupied, UNOCCUPIEDFRAME
  <2>4. ArmOK(b) /\ EvictOK(b) /\ LoadedOK(b)
    BY <2>1 DEF ArmOK, EvictOK, LoadedOK, Phase
  <2> QED
    BY <2>2, <2>3, <2>4 DEF Kept
<1>3. diskCmd = NOCMD
  BY DEF Init
<1> QED
  BY <1>1, <1>2, <1>3 DEF KeptInv

LEMMA KeptStutter ==
    ASSUME KeptInv, UNCHANGED vars
    PROVE  KeptInv'
<1>1. UNCHANGED <<pc, i, old, frame, frameSwapPool, pageTable, staleTLB, ram,
                  disk, cylinder, diskCmd>>
  BY DEF vars
<1>2. /\ \A b, for : BlockOf(b, for)' = BlockOf(b, for)
      /\ Started' = Started
  BY <1>1 DEF BlockOf, Started
<1>3. \A b \in Asid : CommandOf(b)' <=> CommandOf(b)
  BY <1>1, <1>2 DEF CommandOf, SeekOf, TransferOf
<1>4. \A b \in Asid : Kept(b)' <=> Kept(b)
  BY <1>1, <1>2 DEF Kept, ArmOK, TapeOK, FreshOK, EvictOK, LoadedOK, Occupied,
                    Home, TableOf
<1> QED
  BY <1>1, <1>3, <1>4 DEF KeptInv, StoreTyped

LEMMA KeptNext ==
    ASSUME Inv, PoolInv, KeptInv, [Next]_vars
    PROVE  KeptInv'
<1>1. CASE UNCHANGED vars
  BY <1>1, KeptStutter
<1>2. CASE Next
  <2>1. CASE Over
    BY <2>1, KeptStutter DEF Over
  <2> QED
    BY <1>2, <2>1, KeptTest, KeptDone, KeptOwnStep DEF Next
<1> QED
  BY <1>1, <1>2

-----------------------------------------------------------------------------
(* Where a page of a private segment is.                                   *)
Evicting(b) == pc[b][1] = "evict" /\ (pc[b][2] = "V" => diskCmd.proc = b)
Victim(b)   == frameSwapPool[frame[b]]
InFrame(a, k) == pageTable[a][k].valid \/ BeingEvicted(a, k)

LEMMA MemoryCell ==
    ASSUME NEW a \in Asid, NEW k \in Index
    PROVE  /\ InFrame(a, k) => Memory[a][k] = ram[pageTable[a][k].frame]
           /\ ~InFrame(a, k) => Memory[a][k] = disk[Place(a, k)]
           /\ InFrame(a, k)' => Memory'[a][k] = ram'[pageTable'[a][k].frame]
           /\ ~InFrame(a, k)' => Memory'[a][k] = disk'[Place(a, k)]
<1>1. Memory[a][k] = IF InFrame(a, k) THEN ram[pageTable[a][k].frame]
                                      ELSE disk[Place(a, k)]
  BY DEF Memory, InFrame, Place
<1>2. Memory'[a][k] = IF InFrame(a, k)' THEN ram'[pageTable'[a][k].frame]
                                        ELSE disk'[Place(a, k)]
  BY DEF Memory, InFrame, Place
<1> QED
  BY <1>1, <1>2

LEMMA MemorySame ==
    ASSUME \A a \in Asid, k \in Index : Memory'[a][k] = Memory[a][k]
    PROVE  Memory' = Memory
  BY DEF Memory

LEMMA OneCell ==     \* functions of functions that differ in one place
    ASSUME NEW S, NEW T, NEW M, NEW N,
           M = [a \in S |-> [k \in T |-> M[a][k]]],
           N = [a \in S |-> [k \in T |-> N[a][k]]],
           NEW a \in S, NEW p \in T, NEW v, N[a][p] = v,
           \A c \in S, k \in T : ~(c = a /\ k = p) => N[c][k] = M[c][k]
    PROVE  N = [M EXCEPT ![a][p] = v]
<1> DEFINE R == [M[a] EXCEPT ![p] = v]
           F == [M EXCEPT ![a] = R]
<1>1. M[a] = [k \in T |-> M[a][k]] /\ N[a] = [k \in T |-> N[a][k]]
  OBVIOUS
<1>2. R = [k \in T |-> IF k = p THEN v ELSE M[a][k]]
  BY <1>1
<1>3. R = N[a]
  BY <1>1, <1>2
<1> HIDE DEF R
<1>4. ASSUME NEW c \in S, c # a  PROVE N[c] = M[c]
  <2>1. /\ N[c] = [k \in T |-> N[c][k]] /\ M[c] = [k \in T |-> M[c][k]]
        /\ \A k \in T : N[c][k] = M[c][k]
    BY <1>4
  <2> QED
    BY <2>1
<1>5. F = [c \in S |-> IF c = a THEN R ELSE M[c]]
  OBVIOUS
<1>6. N = [c \in S |-> N[c]]
  OBVIOUS
<1>7. N = F
  BY <1>3, <1>4, <1>5, <1>6
<1> QED
  BY <1>7 DEF R

LEMMA MemoryMoves ==
    ASSUME NEW a \in Asid, NEW p \in Index, NEW v, Memory'[a][p] = v,
           \A c \in Asid, k \in Index :
               ~(c = a /\ k = p) => Memory'[c][k] = Memory[c][k]
    PROVE  Memory' = [Memory EXCEPT ![a][p] = v]
<1>1. /\ Memory = [c \in Asid |-> [k \in Index |-> Memory[c][k]]]
      /\ Memory' = [c \in Asid |-> [k \in Index |-> Memory'[c][k]]]
  BY DEF Memory
<1> QED
  BY <1>1, OneCell

(* The page that is being evicted.                                         *)
LEMMA EntryIs == \A e : e.page \in Index => Entry(e) = e.page
  BY UserAssumption DEF Entry, Index

LEMMA EvictedPage ==
    ASSUME Inv, PoolInv, KeptInv, NEW b \in Asid, pc[b][1] = "evict"
    PROVE  /\ frame[b] \in Frame /\ Occupied(frame[b])
           /\ Victim(b).page \in Index /\ Entry(Victim(b)) = Victim(b).page
           /\ Victim(b).asid \in Asid
           /\ Victim(b).seg = KUSEG2 =>
                  LET c == Victim(b).asid
                      k == Victim(b).page
                  IN  ~pageTable[c][k].valid /\ pageTable[c][k].frame = frame[b]
<1>1. Kind(pc[b]) = "replacing"
  BY Places
<1>2. frame[b] \in Frame /\ Occupied(frame[b]) /\ Home(frame[b]).frame = frame[b]
      /\ ~Home(frame[b]).valid
  BY <1>1 DEF KeptInv, Kept, EvictOK, PoolInv, ReplacingOK
<1>3. Victim(b) \in [asid : Asid, seg : {KUSEG2, KUSEG3}, page : Index]
  BY <1>2 DEF PoolInv, PoolTyped, Occupied, Unoccupied, Victim
<1>4. Victim(b).page \in Index /\ Entry(Victim(b)) = Victim(b).page
  BY <1>3, EntryIs
<1>5. Victim(b).seg = KUSEG2 =>
          Home(frame[b]) = pageTable[Victim(b).asid][Victim(b).page]
  BY DEF Home, TableOf, Table, Victim
<1> QED
  BY <1>2, <1>3, <1>4, <1>5

LEMMA BeingEvictedIs ==
    ASSUME Inv, PoolInv, KeptInv, NEW a \in Asid, NEW k \in Index
    PROVE  BeingEvicted(a, k) <=>
               \E b \in Asid : /\ Evicting(b)
                               /\ Victim(b).seg = KUSEG2
                               /\ Victim(b).asid = a /\ Victim(b).page = k
<1>1. BeingEvicted(a, k) <=>
          \E b \in Asid : /\ Evicting(b) /\ Victim(b).seg = KUSEG2
                          /\ Victim(b).asid = a /\ Entry(Victim(b)) = k
  BY DEF BeingEvicted, Evicting, Victim
<1>2. \A b \in Asid : Evicting(b) => Entry(Victim(b)) = Victim(b).page
  BY EvictedPage DEF Evicting
<1> QED
  BY <1>1, <1>2

(* A step that moves no page.                                              *)
LEMMA QuietMemory ==
    ASSUME PoolInv, UNCHANGED <<pageTable, frameSwapPool, disk>>,
           \A f \in Frame : ram'[f] = ram[f],
           \A b \in Asid : /\ Evicting(b)' <=> Evicting(b)
                           /\ Evicting(b) => frame'[b] = frame[b]
    PROVE  Memory' = Memory
<1> SUFFICES ASSUME NEW a \in Asid, NEW k \in Index
             PROVE  Memory'[a][k] = Memory[a][k]
  BY MemorySame
<1>1. BeingEvicted(a, k)' <=> BeingEvicted(a, k)
  <2>1. /\ BeingEvicted(a, k) <=>
             \E b \in Asid : /\ Evicting(b) /\ Victim(b).seg = KUSEG2
                             /\ Victim(b).asid = a /\ Entry(Victim(b)) = k
        /\ BeingEvicted(a, k)' <=>
             \E b \in Asid : /\ Evicting(b)' /\ Victim(b)'.seg = KUSEG2
                             /\ Victim(b)'.asid = a /\ Entry(Victim(b))' = k
    BY DEF BeingEvicted, Evicting, Victim
  <2>2. \A b \in Asid : Evicting(b) => Victim(b)' = Victim(b)
    BY DEF Victim
  <2>3. \A b \in Asid : Evicting(b) => Entry(Victim(b))' = Entry(Victim(b))
    BY <2>2 DEF Entry
  <2> QED
    BY <2>1, <2>2, <2>3
<1>2. InFrame(a, k)' <=> InFrame(a, k)
  BY <1>1 DEF InFrame
<1>3. pageTable[a][k].frame \in Frame
  BY Processes DEF PoolInv, PoolTyped
<1> QED
  BY <1>2, <1>3, MemoryCell

-----------------------------------------------------------------------------
(* The steps of a process and its pages.                                   *)
LEMMA EvictingStill ==
    ASSUME Inv, PoolInv, NEW a \in Asid, Support(a) \/ User(a),
           NEW b \in Asid, b # a
    PROVE  (Evicting(b)' <=> Evicting(b)) /\ frame'[b] = frame[b]
<1>1. pc'[b] = pc[b] /\ frame'[b] = frame[b]
  BY OwnTouches
<1>2. ASSUME pc[b][1] = "evict", pc[b][2] = "V"
      PROVE  UNCHANGED diskCmd
  <2>1. pc[b] = <<"evict", "V">>
    BY <1>2, Places
  <2> QED
    BY <2>1, CommandStill DEF Phase
<1> QED
  BY <1>1, <1>2 DEF Evicting

LEMMA EvictingOwn ==
    ASSUME Inv, PoolInv, NEW a \in Asid, Support(a) \/ User(a),
           ~(ChooseFrame(a) /\ ~AlreadyThere(a))
    PROVE  (Evicting(a)' <=> Evicting(a)) /\ (Evicting(a) => frame'[a] = frame[a])
<1>1. CASE \/ User(a) \/ WriteToTerminal(a) \/ UserTerminate(a)
           \/ GainPool(a) \/ ReleasePool(a) \/ ChooseFrame(a)
  <2>1. pc[a] \in Idle /\ pc'[a] \in Idle
    BY <1>1, IdleSteps
  <2>2. pc[a][1] # "evict" /\ pc'[a][1] # "evict"
    BY <2>1, IdlePoints
  <2> QED
    BY <2>2 DEF Evicting
<1>2. CASE MapPage(a)
  <2>1. pc[a] = <<"fault", "map">> /\ pc'[a] = <<"fault", "V">>
    BY <1>2, Mapped
  <2> QED
    BY <2>1 DEF Evicting
<1>3. CASE ReadBlock(a) \/ NextBlock(a) \/ Loaded(a)
  <2>1. pc[a][1] # "evict"
    BY <1>3 DEF ReadBlock, NextBlock, Loaded, ReleaseDisk, At
  <2>2. pc'[a] \in {<<"tape", "P">>, <<"tape", "read">>, <<"user", "run">>,
                    <<"fault", "map">>}
    BY <1>3, PcMoves DEF ReadBlock, StartUser, NextBlock, Loaded, ReleaseDisk
  <2>3. pc'[a][1] # "evict"
    BY <2>2
  <2> QED
    BY <2>1, <2>3 DEF Evicting
<1>4. CASE Evicted(a)
  <2>1. pc[a] = <<"evict", "V">> /\ diskCmd.proc # a
        /\ pc'[a] = <<"load", "P">>
    BY <1>4, PcMoves DEF Evicted, ReleaseDisk, At, Blocked
  <2> QED
    BY <2>1 DEF Evicting
<1>5. ASSUME NEW for \in Phase,
             GainDisk(a, for) \/ Seek(a, for) \/ Transfer(a, for)
      PROVE  (Evicting(a)' <=> Evicting(a)) /\ frame'[a] = frame[a]
  <2>1. frame' = frame
    BY <1>5 DEF GainDisk, Seek, Transfer, pagerVars
  <2>2. PICK k \in {"P", "seek", "transfer"}, l \in {"seek", "transfer", "V"} :
            /\ pc[a] = <<for, k>> /\ pc'[a] = <<for, l>>
            /\ l = "V" => diskCmd'.proc = a
    <3>1. CASE GainDisk(a, for)
      BY <3>1, PcMoves DEF GainDisk, At
    <3>2. CASE Seek(a, for)
      BY <3>2, PcMoves DEF Seek, At
    <3>3. CASE Transfer(a, for)
      BY <3>3, PcMoves DEF Transfer, At, Command
    <3> QED
      BY <1>5, <3>1, <3>2, <3>3
  <2>3. /\ pc[a][1] = for /\ pc'[a][1] = for
        /\ pc[a][2] # "V" /\ pc'[a][2] = l
    BY <2>2
  <2> QED
    BY <2>1, <2>2, <2>3 DEF Evicting
<1>6. CASE readTape(a)
  BY <1>3, <1>5, <1>6 DEF readTape, Phase
<1>7. CASE UserTLBHandler(a)
  <2>1. ASSUME NEW for \in {"evict", "load"},
               GainDisk(a, for) \/ Seek(a, for) \/ Transfer(a, for)
        PROVE  (Evicting(a)' <=> Evicting(a)) /\ frame'[a] = frame[a]
    BY <1>5, <2>1 DEF Phase
  <2> QED
    BY <1>1, <1>2, <1>3, <1>4, <1>7, <2>1 DEF UserTLBHandler
<1> QED
  BY <1>1, <1>6, <1>7 DEF Support

LEMMA MemoryStill ==     \* no page moves, and no program stores
    ASSUME Inv, PoolInv, KeptInv, NEW a \in Asid, Support(a) \/ User(a),
           ~(ChooseFrame(a) /\ ~AlreadyThere(a)), ~MapPage(a), ~Store(a)
    PROVE  Memory' = Memory
<1>1. UNCHANGED <<pageTable, frameSwapPool, disk>>
  <2>1. ChooseFrame(a) => UNCHANGED pageTable
    BY DEF ChooseFrame
  <2> QED
    BY <2>1, OwnTouches
<1>2. \A f \in Frame : ram'[f] = ram[f]
  <2>1. CASE UNCHANGED ram
    BY <2>1
  <2>2. CASE ReadBlock(a)
    <3>1. \/ UNCHANGED ram
          \/ ram' = [ram EXCEPT ![TapeBuffer(a)] =
                         <<a, getCylinderNum(i[a]), 0>>]
      BY <2>2 DEF ReadBlock
    <3> QED
      BY <3>1, Buffers DEF KeptInv, StoreTyped
  <2> QED
    BY <2>1, <2>2, OwnTouches
<1>3. \A b \in Asid : /\ Evicting(b)' <=> Evicting(b)
                      /\ Evicting(b) => frame'[b] = frame[b]
  BY EvictingStill, EvictingOwn
<1> QED
  BY <1>1, <1>2, <1>3, QuietMemory

LEMMA MemoryChoose ==     \* a page leaves its table, but stays in its frame
    ASSUME Inv, PoolInv, KeptInv, NEW a \in Asid, ChooseFrame(a),
           ~AlreadyThere(a)
    PROVE  Memory' = Memory
<1> DEFINE f == findFrame
           e == frameSwapPool[f]
<1>1. /\ f \in Frame /\ frame'[a] = f /\ UNCHANGED frameSwapPool
      /\ pc[a] = <<"fault", "find">>
      /\ pc'[a] = (IF Occupied(f) THEN <<"evict", "P">> ELSE <<"load", "P">>)
  BY Chosen
<1>2. \A b \in Asid : b # a => pc'[b] = pc[b]
  BY Chosen
<1>3. /\ \A b \in Asid : Kind(pc[b]) \notin {"replacing", "served"}
      /\ \A g \in Frame : Occupied(g) => Home(g).valid /\ Home(g).frame = g
  BY Chosen
<1>4. \A t \in Proc, k \in Index :
          /\ pageTable'[t][k].frame = pageTable[t][k].frame
          /\ pageTable'[t][k].valid <=>
                 /\ pageTable[t][k].valid
                 /\ ~(Occupied(f) /\ t = TableOf(e) /\ k = e.page)
  BY Chosen
<1>5. UNCHANGED <<ram, disk>>
  BY DEF ChooseFrame, diskVars
<1> SUFFICES ASSUME NEW c \in Asid, NEW k \in Index
             PROVE  Memory'[c][k] = Memory[c][k]
  BY MemorySame
<1> HIDE DEF f
<1>6. ~BeingEvicted(c, k)
  <2>1. \A b \in Asid : pc[b][1] # "evict"
    BY <1>3, Places
  <2> QED
    BY <2>1 DEF BeingEvicted
<1>7. BeingEvicted(c, k)' <=>
          Occupied(f) /\ e.asid = c /\ e.seg = KUSEG2 /\ Entry(e) = k
  <2>1. BeingEvicted(c, k)' <=>
            \E b \in Asid :
                /\ pc'[b][1] = "evict" /\ (pc'[b][2] = "V" => diskCmd'.proc = b)
                /\ frameSwapPool'[frame'[b]].asid = c
                /\ frameSwapPool'[frame'[b]].seg = KUSEG2
                /\ Entry(frameSwapPool'[frame'[b]]) = k
    BY DEF BeingEvicted
  <2>2. \A b \in Asid : b # a => pc'[b][1] # "evict"
    <3>1. \A b \in Asid : pc[b][1] # "evict"
      BY <1>3, Places
    <3> QED
      BY <1>2, <3>1
  <2>3. /\ Occupied(f) => pc'[a][1] = "evict" /\ pc'[a][2] # "V"
        /\ ~Occupied(f) => pc'[a][1] # "evict"
    BY <1>1
  <2> QED
    BY <1>1, <2>1, <2>2, <2>3
<1>8. InFrame(c, k)' <=> InFrame(c, k)
  <2>1. c \in Proc /\ c # 0
    BY Processes
  <2>2. CASE Occupied(f)
    <3>1. e.page \in Index /\ Entry(e) = e.page /\ Home(f).valid
      BY <1>1, <1>3, <2>2, Slots, EntryIs
    <3>2. TableOf(e) = IF e.seg = KUSEG2 THEN e.asid ELSE 0
      BY DEF TableOf, Table
    <3>3. Home(f) = pageTable[TableOf(e)][e.page]
      BY DEF Home
    <3> QED
      BY <1>4, <1>6, <1>7, <2>1, <2>2, <3>1, <3>2, <3>3 DEF InFrame
  <2>3. CASE ~Occupied(f)
    BY <1>4, <1>6, <1>7, <2>1, <2>3 DEF InFrame
  <2> QED
    BY <2>2, <2>3
<1>9. pageTable'[c][k].frame = pageTable[c][k].frame
  BY <1>4, Processes
<1> QED
  BY <1>5, <1>8, <1>9, MemoryCell

LEMMA MemoryMap ==     \* a page that was read enters its table
    ASSUME Inv, PoolInv, KeptInv, NEW a \in Asid, MapPage(a)
    PROVE  Memory' = Memory
<1>1. /\ pc[a] = <<"fault", "map">> /\ pc'[a] = <<"fault", "V">>
      /\ ~Wanted(a).valid
  BY Mapped
<1>2. \A b \in Asid : b # a => Kind(pc[b]) \notin {"replacing", "served"}
  BY Mapped
<1>3. \A b \in Asid : b # a => pc'[b] = pc[b]
  BY Mapped
<1>4. \A t \in Proc, k \in Index : pageTable'[t][k] =
          IF t = Table(a, old[a].seg) /\ k = old[a].page
          THEN [valid |-> TRUE, frame |-> frame[a]]
          ELSE pageTable[t][k]
  BY Mapped
<1>5. UNCHANGED <<ram, disk>>
  BY DEF MapPage, diskVars
<1> SUFFICES ASSUME NEW c \in Asid, NEW k \in Index
             PROVE  Memory'[c][k] = Memory[c][k]
  BY MemorySame
<1>6. \A b \in Asid : pc[b][1] # "evict" /\ pc'[b][1] # "evict"
  <2>1. pc[a][1] # "evict" /\ pc'[a][1] # "evict"
    BY <1>1
  <2> QED
    BY <1>2, <1>3, <2>1, Places
<1>7. ~BeingEvicted(c, k) /\ ~BeingEvicted(c, k)'
  BY <1>6 DEF BeingEvicted
<1>8. c \in Proc /\ c # 0
  BY Processes
<1>9. CASE c = Table(a, old[a].seg) /\ k = old[a].page
  <2>1. c = a /\ old[a].seg = KUSEG2
    BY <1>8, <1>9 DEF Table
  <2>2. pageTable'[c][k] = [valid |-> TRUE, frame |-> frame[a]]
    BY <1>4, <1>8, <1>9
  <2>3. InFrame(c, k)' /\ pageTable'[c][k].frame = frame[a]
    BY <2>2 DEF InFrame
  <2>4. ~InFrame(c, k)
    BY <1>1, <1>7, <1>9 DEF InFrame, Wanted
  <2>5. ram[frame[a]] = disk[Place(c, k)]
    <3>1. ram[frame[a]] = disk[<<old[a].page, getSectorNum(a), 0>>]
      BY <1>1, <2>1 DEF KeptInv, Kept, LoadedOK
    <3> QED
      BY <1>9, <2>1, <3>1 DEF Place, getHeadNum
  <2> QED
    BY <1>5, <2>3, <2>4, <2>5, MemoryCell
<1>10. CASE ~(c = Table(a, old[a].seg) /\ k = old[a].page)
  <2>1. pageTable'[c][k] = pageTable[c][k]
    BY <1>4, <1>8, <1>10
  <2>2. InFrame(c, k)' <=> InFrame(c, k)
    BY <1>7, <2>1 DEF InFrame
  <2> QED
    BY <1>5, <2>1, <2>2, MemoryCell
<1> QED
  BY <1>9, <1>10

-----------------------------------------------------------------------------
(* A process starts when the last block of its tape is on the disk.        *)
LEMMA StartedOwn ==
    ASSUME Inv, PoolInv, KeptInv, NEW a \in Asid, Support(a) \/ User(a)
    PROVE  \/ Started' = Started
           \/ /\ ReadBlock(a) \/ NextBlock(a)
              /\ a \notin Started /\ Started' = Started \cup {a}
<1>1. \A b \in Asid : b # a => (b \in Started' <=> b \in Started)
  BY OwnTouches DEF Started
<1>2. StoreTyped /\ Kept(a)
  BY DEF KeptInv
<1>3. ASSUME a \in Started' <=> a \in Started
      PROVE  Started' = Started
  <2>1. \A b \in Asid : b \in Started' <=> b \in Started
    BY <1>1, <1>3
  <2> QED
    BY <2>1 DEF Started
<1>4. CASE ReadBlock(a) \/ NextBlock(a)
  <2>1. pc[a][1] = "tape"
    BY <1>4 DEF ReadBlock, NextBlock, ReleaseDisk, At
  <2>2. a \notin Started
    BY <2>1 DEF Started
  <2>3. CASE a \in Started'
    <3>1. \A b \in Asid : b \in Started' <=> b \in Started \cup {a}
      BY <1>1, <2>3
    <3>2. Started' = Started \cup {a}
      BY <3>1 DEF Started
    <3> QED
      BY <1>4, <2>2, <3>2
  <2> QED
    BY <1>3, <2>2, <2>3
<1>5. CASE \/ User(a) \/ WriteToTerminal(a) \/ UserTerminate(a)
           \/ GainPool(a) \/ ReleasePool(a)
           \/ ChooseFrame(a) /\ AlreadyThere(a)
  <2>1. pc[a] \in Idle /\ pc'[a] \in Idle
    BY <1>5, IdleSteps
  <2>2. a \in Started /\ a \in Started'
    BY <2>1, IdlePoints DEF Started
  <2> QED
    BY <1>3, <2>2
<1>6. ASSUME NEW for \in Phase,
             GainDisk(a, for) \/ Seek(a, for) \/ Transfer(a, for)
      PROVE  Started' = Started
  BY <1>2, <1>3, <1>6, KeptDisk
<1>7. CASE (ChooseFrame(a) /\ ~AlreadyThere(a)) \/ MapPage(a)
  <2>1. pc[a] \in {<<"fault", "find">>, <<"fault", "map">>}
        /\ pc'[a] \in {<<"evict", "P">>, <<"load", "P">>, <<"fault", "V">>}
    BY <1>7, Chosen, Mapped
  <2>2. a \in Started /\ a \in Started'
    BY <2>1 DEF Started
  <2> QED
    BY <1>3, <2>2
<1>8. CASE Evicted(a) \/ Loaded(a)
  <2>1. pc[a] \in {<<"evict", "V">>, <<"load", "V">>}
        /\ pc'[a] \in {<<"load", "P">>, <<"fault", "map">>}
    BY <1>8, PcMoves DEF Evicted, Loaded, ReleaseDisk, At
  <2>2. a \in Started /\ a \in Started'
    BY <2>1 DEF Started
  <2> QED
    BY <1>3, <2>2
<1>9. CASE readTape(a)
  BY <1>4, <1>6, <1>9 DEF readTape, Phase
<1>10. CASE UserTLBHandler(a)
  <2>1. ASSUME NEW for \in {"evict", "load"},
               GainDisk(a, for) \/ Seek(a, for) \/ Transfer(a, for)
        PROVE  Started' = Started
    BY <1>6, <2>1 DEF Phase
  <2> QED
    BY <1>5, <1>7, <1>8, <1>10, <2>1 DEF UserTLBHandler
<1> QED
  BY <1>5, <1>9, <1>10 DEF Support

-----------------------------------------------------------------------------
(* What was last put in the pages of a process: until it starts, the disk  *)
(* has it, but for the block that is being copied from its tape.           *)
Copying(b) ==
    \E l \in Leg : pc[b] = <<"tape", l>> /\ (l = "V" => diskCmd.proc = b)

FileOK(b) ==
    /\ \A l \in Leg : pc[b] = <<"tape", l>> =>
           written[b][i[b]] = <<b, i[b], 0>>
    /\ \A k \in Index : \/ disk[Place(b, k)] = written[b][k]
                        \/ k = i[b] /\ Copying(b)

WrittenInv == /\ written \in [Proc -> [Index -> Content]]
              /\ \A b \in Asid \ Started : FileOK(b)

LEMMA OwnWrites ==
    ASSUME Inv, PoolInv, KeptInv, WrittenInv, NEW a \in Asid,
           Support(a) \/ User(a)
    PROVE  /\ written' = written \/ Store(a) \/ ReadBlock(a)
           /\ written' \in [Proc -> [Index -> Content]]
           /\ \A b \in Asid : b # a => written'[b] = written[b]
<1>1. written' = written \/ Store(a) \/ ReadBlock(a)
  <2>1. CASE readTape(a)
    BY <2>1 DEF readTape, NextBlock, ReleaseDisk, GainDisk, Seek, Transfer
  <2>2. CASE UserTLBHandler(a)
    BY <2>2 DEF UserTLBHandler, GainPool, ChooseFrame, GainDisk, Seek,
                Transfer, Evicted, Loaded, ReleaseDisk, MapPage, ReleasePool
  <2>3. CASE User(a) \/ WriteToTerminal(a) \/ UserTerminate(a)
    BY <2>3 DEF User, UserFault, TLBException, UserTrap, EmptyCall,
                PrintCall, WriteToTerminal, PrintChar, PrintFault, PrintEnd,
                PrintDone, UserTerminate
  <2> QED
    BY <2>1, <2>2, <2>3 DEF Support
<1>2. CASE written' = written
  BY <1>2 DEF WrittenInv
<1>3. ASSUME NEW t \in {0, a}, NEW k \in Index, NEW v \in Content,
             written' = [written EXCEPT ![t][k] = v]
      PROVE  /\ written' \in [Proc -> [Index -> Content]]
             /\ \A b \in Asid : b # a => written'[b] = written[b]
  BY <1>3, Processes DEF WrittenInv
<1>4. CASE Store(a)
  <2>1. PICK x \in Stores[a], ver \in {1, 2}, f \in Frame :
            /\ Valid(a, x) /\ PTE(a, x).frame = f
            /\ Table(a, x.seg) \in Proc /\ Entry(x) \in Index
            /\ <<Table(a, x.seg), Entry(x), ver>> \in Content
            /\ ram' = [ram EXCEPT ![f] = <<Table(a, x.seg), Entry(x), ver>>]
            /\ written' = [written EXCEPT ![Table(a, x.seg)][Entry(x)] =
                               <<Table(a, x.seg), Entry(x), ver>>]
    BY <1>4, Stored DEF KeptInv
  <2>2. Table(a, x.seg) \in {0, a}
    BY DEF Table
  <2> QED
    BY <1>1, <1>3, <2>1, <2>2
<1>5. CASE ReadBlock(a)
  <2> DEFINE k == getCylinderNum(i[a])
  <2>1. k \in Index
    BY UserAssumption DEF getCylinderNum, Index, Inv, Typed, ProcTyped, Proc,
                          Asid
  <2>2. <<a, k, 0>> \in Content
    BY <2>1, Processes DEF Content
  <2>3. written' = written \/ written' = [written EXCEPT ![a][k] = <<a, k, 0>>]
    BY <1>5 DEF ReadBlock
  <2> HIDE DEF k
  <2> QED
    BY <1>1, <1>2, <1>3, <2>1, <2>2, <2>3
<1> QED
  BY <1>1, <1>2, <1>4, <1>5

LEMMA FileOthers ==
    ASSUME Inv, PoolInv, KeptInv, WrittenInv, NEW a \in Asid,
           Support(a) \/ User(a), NEW b \in Asid \ Started, b # a
    PROVE  FileOK(b)'
<1>1. /\ pc'[b] = pc[b] /\ i'[b] = i[b] /\ UNCHANGED disk
      /\ written'[b] = written[b]
  BY OwnTouches, OwnWrites
<1>2. Copying(b)' <=> Copying(b)
  <2>1. pc[b] = <<"tape", "V">> => UNCHANGED diskCmd
    BY CommandStill DEF Phase
  <2> QED
    BY <1>1, <2>1 DEF Copying
<1>3. FileOK(b)
  BY DEF WrittenInv
<1>4. \A k \in Index : \/ disk'[Place(b, k)] = written'[b][k]
                       \/ k = i'[b] /\ Copying(b)'
  BY <1>1, <1>2, <1>3 DEF FileOK
<1>5. \A l \in Leg : pc'[b] = <<"tape", l>> =>
          written'[b][i'[b]] = <<b, i'[b], 0>>
  BY <1>1, <1>3 DEF FileOK
<1> QED
  BY <1>4, <1>5 DEF FileOK, Place

LEMMA BeforeStart ==     \* a process that has not started is in readTape
    ASSUME Inv, PoolInv, KeptInv, NEW a \in Asid \ Started,
           Support(a) \/ User(a)
    PROVE  readTape(a)
<1>1. pc[a][1] \in {"none", "tape"}
  BY DEF Started
<1>2. CASE \/ User(a) \/ WriteToTerminal(a) \/ UserTerminate(a)
           \/ GainPool(a) \/ ReleasePool(a)
           \/ ChooseFrame(a) /\ AlreadyThere(a)
  <2>1. pc[a] \in Idle
    BY <1>2, IdleSteps
  <2> QED
    BY <1>1, <2>1, IdlePoints
<1>3. CASE UserTLBHandler(a)
  BY <1>1, <1>3 DEF UserTLBHandler, GainPool, ChooseFrame, GainDisk, Seek,
                    Transfer, Evicted, Loaded, ReleaseDisk, MapPage,
                    ReleasePool, At
<1> QED
  BY <1>2, <1>3 DEF Support

LEMMA FileRead ==
    ASSUME Inv, PoolInv, KeptInv, WrittenInv, NEW a \in Asid \ Started,
           ReadBlock(a), a \notin Started'
    PROVE  FileOK(a)'
<1>1. pc[a] = <<"tape", "read">> /\ UNCHANGED disk
  BY DEF ReadBlock, At
<1>2. i[a] \in Index /\ getCylinderNum(i[a]) = i[a]
  <2>1. i[a] \in 0 .. TapeLen[a] - 1
    BY DEF KeptInv, Kept, TapeOK
  <2> QED
    BY <2>1, UserAssumption DEF getCylinderNum, Index
<1>3. ~StartUser(a)
  <2> SUFFICES ASSUME GoTo(a, <<"user", "run">>)  PROVE FALSE
    BY DEF StartUser
  <2>1. pc'[a] = <<"user", "run">>
    BY PcMoves
  <2> QED
    BY <2>1 DEF Started
<1>4. /\ GoTo(a, <<"tape", "P">>) /\ UNCHANGED i
      /\ written' = [written EXCEPT ![a][i[a]] = <<a, i[a], 0>>]
  BY <1>2, <1>3 DEF ReadBlock
<1>5. pc'[a] = <<"tape", "P">> /\ i'[a] = i[a]
  BY <1>4, PcMoves
<1>6. /\ written'[a][i[a]] = <<a, i[a], 0>>
      /\ \A k \in Index : k # i[a] => written'[a][k] = written[a][k]
  BY <1>2, <1>4, Processes DEF WrittenInv
<1>7. Copying(a)'
  BY <1>5 DEF Copying, Leg
<1>8. \A k \in Index : k # i[a] => disk[Place(a, k)] = written[a][k]
  BY DEF WrittenInv, FileOK
<1>9. \A k \in Index : \/ disk'[Place(a, k)] = written'[a][k]
                       \/ k = i'[a] /\ Copying(a)'
  BY <1>1, <1>5, <1>6, <1>7, <1>8
<1> QED
  BY <1>5, <1>6, <1>9 DEF FileOK, Place

LEMMA FileSettled ==     \* nothing of the tape is on its way
    ASSUME WrittenInv, NEW a \in Asid \ Started,
           ReadBlock(a) \/ NextBlock(a)
    PROVE  \A k \in Index : disk[Place(a, k)] = written[a][k]
<1>1. \/ pc[a] = <<"tape", "read">>
      \/ pc[a] = <<"tape", "V">> /\ diskCmd.proc # a
  BY DEF ReadBlock, NextBlock, ReleaseDisk, At, Blocked
<1>2. ~Copying(a)
  BY <1>1 DEF Copying, Leg
<1> QED
  BY <1>2 DEF WrittenInv, FileOK

LEMMA FileOwn ==
    ASSUME Inv, PoolInv, KeptInv, WrittenInv, NEW a \in Asid,
           Support(a) \/ User(a), a \notin Started, a \notin Started'
    PROVE  FileOK(a)'
<1>1. readTape(a)
  BY BeforeStart
<1>2. CASE ReadBlock(a)
  BY <1>2, FileRead
<1>3. CASE NextBlock(a)
  <2>1. UNCHANGED <<disk, written>>
    BY <1>3 DEF NextBlock, ReleaseDisk, diskVars
  <2>2. \E q \in {<<"tape", "read">>, <<"user", "run">>} : pc'[a] = q
    BY <1>3, PcMoves DEF NextBlock, ReleaseDisk
  <2>3. \A k \in Index : disk'[Place(a, k)] = written'[a][k]
    BY <1>3, <2>1, FileSettled
  <2> QED
    BY <2>2, <2>3 DEF FileOK, Place, Leg
<1>4. CASE GainDisk(a, "tape") \/ Seek(a, "tape") \/ Transfer(a, "tape")
  <2>1. /\ UNCHANGED <<disk, written, i>>
        /\ \E l \in Leg : pc[a] = <<"tape", l>>
    BY <1>4 DEF GainDisk, Seek, Transfer, At, Leg, diskVars
  <2>2. \/ \E l \in {"seek", "transfer"} : pc'[a] = <<"tape", l>>
        \/ pc'[a] = <<"tape", "V">> /\ diskCmd'.proc = a
    BY <1>4, PcMoves DEF GainDisk, Seek, Transfer, Command
  <2>3. Copying(a)'
    BY <2>2 DEF Copying, Leg
  <2>4. FileOK(a)
    BY DEF WrittenInv
  <2>5. \A k \in Index : \/ disk'[Place(a, k)] = written'[a][k]
                         \/ k = i'[a] /\ Copying(a)'
    BY <2>1, <2>3, <2>4 DEF FileOK
  <2>6. written'[a][i'[a]] = <<a, i'[a], 0>>
    BY <2>1, <2>4 DEF FileOK
  <2> QED
    BY <2>5, <2>6 DEF FileOK, Place
<1> QED
  BY <1>1, <1>2, <1>3, <1>4 DEF readTape

LEMMA WrittenOwnStep ==
    ASSUME Inv, PoolInv, KeptInv, WrittenInv, NEW a \in Asid,
           Support(a) \/ User(a)
    PROVE  WrittenInv'
<1>1. Asid \ Started' \subseteq Asid \ Started
  BY StartedOwn
<1>2. ASSUME NEW b \in Asid, b \notin Started'  PROVE FileOK(b)'
  BY <1>1, <1>2, FileOthers, FileOwn
<1> QED
  BY <1>2, OwnWrites DEF WrittenInv

LEMMA WrittenDone ==
    ASSUME Inv, PoolInv, KeptInv, WrittenInv, DiskCompletes
    PROVE  WrittenInv'
<1>1. PICK b \in Asid :
          SeekDone(b) \/ TapeDone(b) \/ EvictDone(b) \/ LoadDone(b)
  BY DiskDone
<1>2. UNCHANGED <<pc, i, written>> /\ diskCmd' = NOCMD
  BY DEF DiskCompletes
<1>3. Started' = Started
  BY <1>2 DEF Started
<1> SUFFICES ASSUME NEW c \in Asid, c \notin Started
             PROVE  FileOK(c)'
  BY <1>2, <1>3 DEF WrittenInv
<1>4. FileOK(c)
  BY DEF WrittenInv
<1> SUFFICES ASSUME NEW k \in Index
             PROVE  \/ disk'[Place(c, k)] = written[c][k]
                    \/ k = i[c] /\ Copying(c)'
  BY <1>2, <1>4 DEF FileOK, Place
<1>5. \A m \in Asid, l \in Index :
          /\ Place(c, k) \in Sector
          /\ Place(c, k) = Place(m, l) => m = c /\ l = k
  BY Sectors
<1>6. CASE TapeDone(b) /\ c = b /\ k = i[b]
  <2>1. disk'[Place(c, k)] = <<c, k, 0>>
    BY <1>5, <1>6 DEF TapeDone, KeptInv, StoreTyped
  <2>2. written[c][k] = <<c, k, 0>>
    BY <1>4, <1>6 DEF TapeDone, FileOK, Leg
  <2> QED
    BY <2>1, <2>2
<1>7. CASE ~(TapeDone(b) /\ c = b /\ k = i[b])
  <2>1. disk'[Place(c, k)] = disk[Place(c, k)]
    <3>1. CASE SeekDone(b) \/ LoadDone(b)
      BY <3>1 DEF SeekDone, LoadDone
    <3>2. CASE TapeDone(b)
      <4>1. i[b] \in Index /\ disk' = [disk EXCEPT ![Place(b, i[b])] =
                                           <<b, i[b], 0>>]
        BY <3>2 DEF TapeDone
      <4>2. Place(c, k) # Place(b, i[b])
        BY <1>5, <1>7, <3>2, <4>1
      <4> QED
        BY <1>5, <4>1, <4>2 DEF KeptInv, StoreTyped
    <3>3. CASE EvictDone(b)
      <4> DEFINE e == frameSwapPool[frame[b]]
      <4>1. /\ pc[b] = <<"evict", "V">>
            /\ e.seg = KUSEG2 =>
                   disk' = [disk EXCEPT ![Place(e.asid, e.page)] =
                                ram[frame[b]]]
            /\ e.seg # KUSEG2 => UNCHANGED disk
        BY <3>3 DEF EvictDone
      <4>2. pc[b][1] = "evict"
        BY <4>1
      <4>3. frame[b] \in Frame /\ e.page \in Index /\ e.asid \in Asid
        BY <4>2, EvictedPage DEF Victim
      <4>4. e.asid # c
        BY <4>3 DEF KeptInv, Kept, FreshOK
      <4> HIDE DEF e
      <4>5. Place(c, k) # Place(e.asid, e.page)
        BY <1>5, <4>3, <4>4
      <4> QED
        BY <1>5, <4>1, <4>5 DEF KeptInv, StoreTyped
    <3> QED
      BY <1>1, <3>1, <3>2, <3>3
  <2>2. CASE disk[Place(c, k)] = written[c][k]
    BY <2>1, <2>2
  <2>3. CASE k = i[c] /\ Copying(c)
    <3>1. PICK l \in Leg : /\ pc[c] = <<"tape", l>>
                           /\ l = "V" => diskCmd.proc = c
      BY <2>3 DEF Copying
    <3>2. l # "V"
      <4> SUFFICES ASSUME l = "V"  PROVE FALSE
        OBVIOUS
      <4>1. PICK to \in Phase, m \in {"transfer", "V"} :
                pc[b] = <<to, m>> /\ (pc[b] = <<"tape", "V">> => TapeDone(b))
        BY <1>1 DEF SeekDone, TapeDone, EvictDone, LoadDone, Phase
      <4>2. b = c
        BY <3>1, <4>1, AtMostOne DEF Phase
      <4> QED
        BY <1>7, <2>3, <3>1, <4>1, <4>2
    <3> QED
      BY <1>2, <2>3, <3>1, <3>2 DEF Copying
  <2> QED
    BY <1>4, <2>2, <2>3 DEF FileOK
<1> QED
  BY <1>6, <1>7

LEMMA WrittenTest ==
    ASSUME Inv, PoolInv, KeptInv, WrittenInv, test
    PROVE  WrittenInv'
<1>1. UNCHANGED <<disk, diskCmd, written>> /\ Started' = Started
  BY KeptTest DEF test, CreateUser, WaitForUsers, EndTest
<1>2. \A b \in Asid : i'[b] = i[b]
  BY Processes DEF test, CreateUser, WaitForUsers, EndTest, Inv, Typed,
                   ProcTyped
<1>3. ASSUME NEW b \in Asid, b \notin Started  PROVE FileOK(b)'
  <2>1. FileOK(b)
    BY <1>3 DEF WrittenInv
  <2>2. CASE pc'[b] = pc[b]
    <3>1. Copying(b)' <=> Copying(b)
      BY <1>1, <2>2 DEF Copying
    <3> QED
      BY <1>1, <1>2, <2>1, <2>2, <3>1 DEF FileOK, Place
  <2>3. CASE pc[b] = <<"none", "">> /\ pc'[b] = <<"tape", "read">>
    <3>1. \A l : pc[b] # <<"tape", l>>
      <4>1. \E k : pc[b] = <<"none", k>>
        BY <2>3
      <4> QED
        BY <4>1
    <3>2. \A k \in Index : disk'[Place(b, k)] = written'[b][k]
      BY <1>1, <2>1, <3>1 DEF FileOK, Copying
    <3>3. \A l \in Leg : pc'[b] # <<"tape", l>>
      <4>1. pc'[b] = <<"tape", "read">>
        BY <2>3
      <4> QED
        BY <4>1 DEF Leg
    <3> QED
      BY <3>2, <3>3 DEF FileOK, Place
  <2> QED
    BY <1>3, <2>2, <2>3, KeptTest
<1> QED
  BY <1>1, <1>3 DEF WrittenInv

LEMMA WrittenInit ==
    ASSUME Init
    PROVE  WrittenInv
<1>1. written \in [Proc -> [Index -> Content]]
  BY DEF Init, Content
<1>2. ASSUME NEW b \in Asid  PROVE FileOK(b)
  <2>1. \E k : pc[b] = <<"none", k>>
    BY Processes DEF Init
  <2>2. \A k \in Index : disk[Place(b, k)] = written[b][k]
    BY Processes, Sectors DEF Init
  <2> QED
    BY <2>1, <2>2 DEF FileOK
<1> QED
  BY <1>1, <1>2 DEF WrittenInv

LEMMA WrittenNext ==
    ASSUME Inv, PoolInv, KeptInv, WrittenInv, [Next]_vars
    PROVE  WrittenInv'
<1>1. ASSUME UNCHANGED vars  PROVE WrittenInv'
  <2>1. UNCHANGED <<pc, i, disk, diskCmd, written>>
    BY <1>1 DEF vars
  <2>2. /\ Started' = Started
        /\ \A b \in Asid : Copying(b)' <=> Copying(b)
    BY <2>1 DEF Started, Copying
  <2>3. \A b \in Asid : FileOK(b) => FileOK(b)'
    BY <2>1, <2>2 DEF FileOK, Place
  <2> QED
    BY <2>1, <2>2, <2>3 DEF WrittenInv
<1>2. CASE Over
  BY <1>1, <1>2 DEF Over
<1> QED
  BY <1>1, <1>2, WrittenOwnStep, WrittenDone, WrittenTest DEF Next

-----------------------------------------------------------------------------
Written == [a \in Asid |-> written[a]]

LEMMA WrittenSame ==
    ASSUME WrittenInv, WrittenInv',
           \A a \in Asid, k \in Index : written'[a][k] = written[a][k]
    PROVE  Written' = Written
<1>1. ASSUME NEW a \in Asid  PROVE written'[a] = written[a]
  <2>1. /\ written[a] = [k \in Index |-> written[a][k]]
        /\ written'[a] = [k \in Index |-> written'[a][k]]
    BY Processes DEF WrittenInv
  <2> QED
    BY <2>1
<1> QED
  BY <1>1 DEF Written

LEMMA WrittenMoves ==
    ASSUME WrittenInv, WrittenInv', NEW a \in Asid, NEW p \in Index, NEW v,
           written'[a][p] = v,
           \A c \in Asid, k \in Index :
               ~(c = a /\ k = p) => written'[c][k] = written[c][k]
    PROVE  Written' = [Written EXCEPT ![a][p] = v]
<1>1. ASSUME NEW c \in Asid
      PROVE  /\ Written[c] = written[c] /\ Written'[c] = written'[c]
             /\ written[c] = [k \in Index |-> written[c][k]]
             /\ written'[c] = [k \in Index |-> written'[c][k]]
  BY Processes DEF WrittenInv, Written
<1>2. \A c \in Asid : /\ Written[c] = [k \in Index |-> Written[c][k]]
                      /\ Written'[c] = [k \in Index |-> Written'[c][k]]
  BY <1>1
<1>3. /\ Written = [c \in Asid |-> [k \in Index |-> Written[c][k]]]
      /\ Written' = [c \in Asid |-> [k \in Index |-> Written'[c][k]]]
  <2>1. Written = [c \in Asid |-> Written[c]]
        /\ Written' = [c \in Asid |-> Written'[c]]
    BY DEF Written
  <2> QED
    BY <1>2, <2>1
<1>4. /\ Written'[a][p] = v
      /\ \A c \in Asid, k \in Index :
             ~(c = a /\ k = p) => Written'[c][k] = Written[c][k]
  <2>1. \A c \in Asid : Written[c] = written[c] /\ Written'[c] = written'[c]
    BY <1>1
  <2> QED
    BY <2>1
<1> QED
  BY <1>3, <1>4, OneCell

(* A program stores in a page: its own, or one of the shared segment.      *)
LEMMA MemoryStore ==
    ASSUME Inv, PoolInv, KeptInv, WrittenInv, WrittenInv',
           NEW a \in Asid, Store(a)
    PROVE  \/ Memory' = Memory /\ Written' = Written
           \/ \E p \in Index, v \in {1, 2} :
                  /\ Memory' = [Memory EXCEPT ![a][p] = <<a, p, v>>]
                  /\ Written' = [Written EXCEPT ![a][p] = <<a, p, v>>]
<1>1. PICK x \in Stores[a], ver \in {1, 2}, f \in Frame :
          /\ Valid(a, x) /\ PTE(a, x).frame = f
          /\ Table(a, x.seg) \in Proc /\ Entry(x) \in Index
          /\ <<Table(a, x.seg), Entry(x), ver>> \in Content
          /\ ram' = [ram EXCEPT ![f] = <<Table(a, x.seg), Entry(x), ver>>]
          /\ written' = [written EXCEPT ![Table(a, x.seg)][Entry(x)] =
                             <<Table(a, x.seg), Entry(x), ver>>]
  BY Stored DEF KeptInv
<1>2. PICK t \in Proc, p \in Index, put \in Content :
          /\ t \in {0, a} /\ put = <<t, p, ver>>
          /\ pageTable[t][p].valid /\ pageTable[t][p].frame = f
          /\ ram' = [ram EXCEPT ![f] = put]
          /\ written' = [written EXCEPT ![t][p] = put]
  <2>1. Table(a, x.seg) \in {0, a}
    BY DEF Table
  <2>2. /\ pageTable[Table(a, x.seg)][Entry(x)].valid
        /\ pageTable[Table(a, x.seg)][Entry(x)].frame = f
    BY <1>1 DEF Valid, PTE
  <2> QED
    BY <1>1, <2>1, <2>2
<1>3. UNCHANGED <<pc, frame, pageTable, frameSwapPool, disk, diskCmd>>
  BY DEF Store, pagerVars
<1>4. /\ ram'[f] = put
      /\ \A m \in Address : m # f => ram'[m] = ram[m]
      /\ written'[t][p] = put
      /\ \A c \in Proc, k \in Index :
             ~(c = t /\ k = p) => written'[c][k] = written[c][k]
  BY <1>2, Buffers DEF KeptInv, StoreTyped, WrittenInv
<1>5. \A c \in Asid, k \in Index :
          /\ InFrame(c, k)' <=> InFrame(c, k)
          /\ pageTable'[c][k].frame = pageTable[c][k].frame
  BY <1>3 DEF InFrame, BeingEvicted
<1>6. ASSUME NEW c \in Asid, NEW k \in Index, InFrame(c, k),
             pageTable[c][k].frame = f
      PROVE  c = t /\ k = p
  <2>1. pageTable[c][k].valid
    <3> SUFFICES ASSUME BeingEvicted(c, k)  PROVE FALSE
      BY <1>6 DEF InFrame
    <3>1. PICK b \in Asid : /\ Evicting(b) /\ Victim(b).seg = KUSEG2
                            /\ Victim(b).asid = c /\ Victim(b).page = k
      BY BeingEvictedIs
    <3>2. pc[b][1] = "evict" /\ Kind(pc[b]) = "replacing"
      BY <3>1, Places DEF Evicting
    <3>3. pageTable[c][k].frame = frame[b]
      BY <3>1, <3>2, EvictedPage
    <3> QED
      BY <1>2, <1>6, <3>2, <3>3, ReplacedFrame
  <2>2. /\ TableOf(frameSwapPool[f]) = c /\ frameSwapPool[f].page = k
    BY <1>6, <2>1, Processes DEF PoolInv, ListedOK
  <2>3. /\ TableOf(frameSwapPool[f]) = t /\ frameSwapPool[f].page = p
    BY <1>2 DEF PoolInv, ListedOK
  <2> QED
    BY <2>2, <2>3
<1>7. ASSUME NEW c \in Asid, NEW k \in Index, ~(c = t /\ k = p)
      PROVE  Memory'[c][k] = Memory[c][k]
  <2>1. pageTable[c][k].frame \in Address
    BY Processes, Buffers DEF PoolInv, PoolTyped
  <2>2. InFrame(c, k) => ram'[pageTable[c][k].frame] = ram[pageTable[c][k].frame]
    BY <1>4, <1>6, <1>7, <2>1
  <2> QED
    BY <1>3, <1>5, <2>2, MemoryCell
<1>8. CASE t = a
  <2>1. InFrame(a, p)' /\ pageTable'[a][p].frame = f
    BY <1>2, <1>3, <1>8 DEF InFrame
  <2>2. Memory'[a][p] = put
    BY <1>4, <2>1, MemoryCell
  <2>3. Memory' = [Memory EXCEPT ![a][p] = put]
    BY <1>7, <1>8, <2>2, MemoryMoves
  <2>4. Written' = [Written EXCEPT ![a][p] = put]
    <3>1. /\ written'[a][p] = put
          /\ \A c \in Asid, k \in Index :
                 ~(c = a /\ k = p) => written'[c][k] = written[c][k]
      BY <1>4, <1>8, Processes
    <3> QED
      BY <3>1, WrittenMoves
  <2>5. put = <<a, p, ver>>
    BY <1>2, <1>8
  <2> QED
    BY <2>3, <2>4, <2>5
<1>9. CASE t # a
  <2>1. t = 0
    BY <1>2, <1>9
  <2> QED
    BY <1>4, <1>7, <2>1, Processes, MemorySame, WrittenSame
<1> QED
  BY <1>8, <1>9

-----------------------------------------------------------------------------
(* The completion of a command: a block of a tape reaches its sector, or   *)
(* a page moves and keeps its content.                                     *)
LEMMA MemoryDone ==
    ASSUME Inv, PoolInv, KeptInv, DiskCompletes
    PROVE  \/ Memory' = Memory
           \/ \E b \in Asid, p \in Index :
                  /\ b \notin Started
                  /\ pc[b] = <<"tape", "V">> /\ p = i[b]
                  /\ Memory' = [Memory EXCEPT ![b][p] = <<b, p, 0>>]
<1>1. PICK b \in Asid :
          SeekDone(b) \/ TapeDone(b) \/ EvictDone(b) \/ LoadDone(b)
  BY DiskDone
<1>2. /\ UNCHANGED <<pc, frame, frameSwapPool, pageTable>>
      /\ diskCmd' = NOCMD
  BY DEF DiskCompletes, pagerVars
<1>3. \A c \in Asid : diskCmd'.proc # c
  BY <1>2, Processes DEF NOCMD
<1>4. CASE SeekDone(b)
  <2>1. PICK for \in Phase : pc[b] = <<for, "transfer">>
    BY <1>4 DEF SeekDone
  <2>2. ASSUME NEW c \in Asid, pc[c][1] = "evict", pc[c][2] = "V"
        PROVE  FALSE
    <3>1. pc[c] = <<"evict", "V">>
      BY <2>2, Places
    <3>2. c = b
      BY <2>1, <3>1, AtMostOne DEF Phase
    <3> QED
      BY <2>1, <3>1, <3>2
  <2>3. \A c \in Asid : Evicting(c)' <=> Evicting(c)
    BY <1>2, <2>2 DEF Evicting
  <2> QED
    BY <1>2, <1>4, <2>3, QuietMemory DEF SeekDone
<1>5. CASE TapeDone(b)
  <2> DEFINE p == i[b]
  <2>1. /\ pc[b] = <<"tape", "V">> /\ diskCmd.proc = b /\ p \in Index
        /\ UNCHANGED ram
        /\ disk' = [disk EXCEPT ![Place(b, p)] = <<b, p, 0>>]
    BY <1>5 DEF TapeDone
  <2>11. p = i[b]
    OBVIOUS
  <2> HIDE DEF p
  <2>2. b \notin Started
    BY <2>1 DEF Started
  <2>3. /\ \A k \in Index : ~pageTable[b][k].valid
        /\ \A f \in Frame : frameSwapPool[f].asid # b
    BY <2>2 DEF KeptInv, Kept, FreshOK
  <2>4. \A c \in Asid : Evicting(c)' <=> Evicting(c)
    <3> SUFFICES ASSUME NEW c \in Asid, pc[c][1] = "evict"
                 PROVE  diskCmd'.proc # c /\ diskCmd.proc # c
      BY <1>2 DEF Evicting
    <3>1. c # b
      BY <2>1
    <3> QED
      BY <1>3, <2>1, <3>1
  <2>5. ASSUME NEW c \in Asid, NEW k \in Index
        PROVE  InFrame(c, k)' <=> InFrame(c, k)
    <3>1. BeingEvicted(c, k)' <=>
              \E d \in Asid : /\ Evicting(d)'
                              /\ frameSwapPool'[frame'[d]].asid = c
                              /\ frameSwapPool'[frame'[d]].seg = KUSEG2
                              /\ Entry(frameSwapPool'[frame'[d]]) = k
      BY DEF BeingEvicted, Evicting
    <3>2. BeingEvicted(c, k) <=>
              \E d \in Asid : /\ Evicting(d)
                              /\ frameSwapPool[frame[d]].asid = c
                              /\ frameSwapPool[frame[d]].seg = KUSEG2
                              /\ Entry(frameSwapPool[frame[d]]) = k
      BY DEF BeingEvicted, Evicting
    <3> QED
      BY <1>2, <2>4, <3>1, <3>2 DEF InFrame
  <2>6. ~InFrame(b, p)
    <3>1. ~BeingEvicted(b, p)
      <4>1. \A c \in Asid : pc[c][1] = "evict" => Victim(c).asid # b
        BY <2>3, EvictedPage DEF Victim
      <4> QED
        BY <2>1, <4>1, BeingEvictedIs DEF Evicting
    <3> QED
      BY <2>1, <2>3, <3>1 DEF InFrame
  <2>7. /\ disk'[Place(b, p)] = <<b, p, 0>>
        /\ \A c \in Asid, k \in Index :
               ~(c = b /\ k = p) => disk'[Place(c, k)] = disk[Place(c, k)]
    BY <2>1, Sectors DEF KeptInv, StoreTyped
  <2>8. Memory'[b][p] = <<b, p, 0>>
    BY <2>1, <2>5, <2>6, <2>7, MemoryCell
  <2>9. ASSUME NEW c \in Asid, NEW k \in Index, ~(c = b /\ k = p)
        PROVE  Memory'[c][k] = Memory[c][k]
    BY <1>2, <2>1, <2>5, <2>7, <2>9, MemoryCell
  <2>10. Memory' = [Memory EXCEPT ![b][p] = <<b, p, 0>>]
    BY <2>1, <2>8, <2>9, MemoryMoves
  <2> QED
    BY <2>1, <2>2, <2>10, <2>11
<1>6. CASE EvictDone(b)
  <2> DEFINE e == Victim(b)
  <2>1. /\ pc[b] = <<"evict", "V">> /\ diskCmd.proc = b /\ UNCHANGED ram
        /\ e.seg = KUSEG2 =>
               disk' = [disk EXCEPT ![Place(e.asid, e.page)] = ram[frame[b]]]
        /\ e.seg # KUSEG2 => UNCHANGED disk
    BY <1>6 DEF EvictDone, Victim
  <2>2. pc[b][1] = "evict" /\ Kind(pc[b]) = "replacing"
    <3>1. pc[b][1] = "evict"
      BY <2>1
    <3> QED
      BY <3>1, Places
  <2>3. /\ e.page \in Index /\ e.asid \in Asid
        /\ e.seg = KUSEG2 => /\ ~pageTable[e.asid][e.page].valid
                             /\ pageTable[e.asid][e.page].frame = frame[b]
    BY <2>2, EvictedPage
  <2>4. \A c \in Asid : pc[c][1] = "evict" => c = b
    BY <2>2, Places, AtMostOne
  <2>5. Evicting(b) /\ \A c \in Asid : ~Evicting(c)' /\ (Evicting(c) => c = b)
    <3>1. Evicting(b)
      BY <2>1, <2>2 DEF Evicting
    <3>2. ~Evicting(b)'
      BY <1>2, <1>3, <2>1 DEF Evicting
    <3> QED
      BY <1>2, <2>4, <3>1, <3>2 DEF Evicting
  <2> HIDE DEF e
  <2>6. ASSUME NEW c \in Asid, NEW k \in Index
        PROVE  /\ ~BeingEvicted(c, k)'
               /\ BeingEvicted(c, k) <=>
                      e.seg = KUSEG2 /\ e.asid = c /\ e.page = k
    <3>1. ~BeingEvicted(c, k)'
      BY <2>5 DEF BeingEvicted, Evicting
    <3>2. BeingEvicted(c, k) <=>
              \E d \in Asid : /\ Evicting(d) /\ Victim(d).seg = KUSEG2
                              /\ Victim(d).asid = c /\ Victim(d).page = k
      BY BeingEvictedIs
    <3> QED
      BY <2>5, <3>1, <3>2 DEF e
  <2> SUFFICES ASSUME NEW c \in Asid, NEW k \in Index
               PROVE  Memory'[c][k] = Memory[c][k]
    BY MemorySame
  <2>7. CASE e.seg = KUSEG2 /\ e.asid = c /\ e.page = k
    <3>1. InFrame(c, k) /\ ~InFrame(c, k)'
      BY <1>2, <2>3, <2>6, <2>7 DEF InFrame
    <3>2. disk'[Place(c, k)] = ram[frame[b]]
      BY <2>1, <2>7, Sectors DEF KeptInv, StoreTyped
    <3>3. pageTable[c][k].frame = frame[b]
      BY <2>3, <2>7
    <3> QED
      BY <3>1, <3>2, <3>3, MemoryCell
  <2>8. CASE ~(e.seg = KUSEG2 /\ e.asid = c /\ e.page = k)
    <3>1. InFrame(c, k)' <=> InFrame(c, k)
      BY <1>2, <2>6, <2>8 DEF InFrame
    <3>2. disk'[Place(c, k)] = disk[Place(c, k)]
      <4>1. CASE e.seg = KUSEG2
        <5>1. Place(c, k) # Place(e.asid, e.page) /\ Place(c, k) \in Sector
          BY <2>3, <2>8, <4>1, Sectors
        <5> QED
          BY <2>1, <4>1, <5>1 DEF KeptInv, StoreTyped
      <4>2. CASE e.seg # KUSEG2
        BY <2>1, <4>2
      <4> QED
        BY <4>1, <4>2
    <3> QED
      BY <1>2, <2>1, <3>1, <3>2, MemoryCell
  <2> QED
    BY <2>7, <2>8
<1>7. CASE LoadDone(b)
  <2>1. /\ pc[b] = <<"load", "V">> /\ UNCHANGED disk
        /\ \E v : ram' = [ram EXCEPT ![frame[b]] = v]
    BY <1>7 DEF LoadDone
  <2>2. Kind(pc[b]) = "replacing" /\ pc[b][1] # "evict"
    <3>1. pc[b][1] # "evict"
      BY <2>1
    <3>2. Kind(<<"load", "V">>) = "replacing"
      BY Kinds
    <3> QED
      BY <2>1, <3>1, <3>2
  <2>3. \A c \in Asid : pc[c][1] # "evict"
    BY <2>2, Places, AtMostOne
  <2> SUFFICES ASSUME NEW c \in Asid, NEW k \in Index
               PROVE  Memory'[c][k] = Memory[c][k]
    BY MemorySame
  <2>4. ~BeingEvicted(c, k) /\ ~BeingEvicted(c, k)'
    BY <1>2, <2>3 DEF BeingEvicted
  <2>5. pageTable[c][k].valid =>
            ram'[pageTable[c][k].frame] = ram[pageTable[c][k].frame]
    <3>1. pageTable[c][k].valid => pageTable[c][k].frame # frame[b]
      BY <2>2, ReplacedFrame, Processes
    <3>2. pageTable[c][k].frame \in Address
      BY Processes, Buffers DEF PoolInv, PoolTyped
    <3> QED
      BY <2>1, <3>1, <3>2 DEF KeptInv, StoreTyped
  <2>6. InFrame(c, k)' <=> InFrame(c, k)
    BY <1>2, <2>4 DEF InFrame
  <2>7. InFrame(c, k) => pageTable[c][k].valid
    BY <2>4 DEF InFrame
  <2> QED
    BY <1>2, <2>1, <2>5, <2>6, <2>7, MemoryCell
<1> QED
  BY <1>1, <1>4, <1>5, <1>6, <1>7

-----------------------------------------------------------------------------
(* Each step of UserProcs is one of UserMemory, or changes nothing there.  *)
MemoryStep == \/ Promise!Next
              \/ /\ Memory' = Memory /\ Started' = Started
                 /\ Written' = Written

LEMMA ReadyToStart ==
    ASSUME Inv, PoolInv, KeptInv, WrittenInv, NEW a \in Asid \ Started,
           ReadBlock(a) \/ NextBlock(a)
    PROVE  Memory[a] = Written[a]
<1>1. ASSUME NEW k \in Index  PROVE Memory[a][k] = written[a][k]
  <2>1. /\ ~pageTable[a][k].valid
        /\ \A f \in Frame : frameSwapPool[f].asid # a
    BY DEF KeptInv, Kept, FreshOK
  <2>2. \A b \in Asid : pc[b][1] = "evict" => Victim(b).asid # a
    BY <2>1, EvictedPage DEF Victim
  <2>3. ~InFrame(a, k)
    BY <2>1, <2>2, BeingEvictedIs DEF InFrame, Evicting
  <2> QED
    BY <2>3, MemoryCell, FileSettled
<1>2. Memory[a] = [k \in Index |-> Memory[a][k]]
  BY DEF Memory
<1>3. Written[a] = [k \in Index |-> written[a][k]]
  BY Processes DEF Written, WrittenInv
<1> QED
  BY <1>1, <1>2, <1>3

LEMMA ReadStep ==     \* a block of the tape in the buffer, or the start
    ASSUME Inv, PoolInv, KeptInv, WrittenInv, WrittenInv', NEW a \in Asid,
           Support(a) \/ User(a), ReadBlock(a) \/ NextBlock(a),
           Memory' = Memory
    PROVE  MemoryStep
<1>1. a \notin Started
  <2>1. pc[a] \in {<<"tape", "read">>, <<"tape", "V">>}
    BY DEF ReadBlock, NextBlock, ReleaseDisk, At
  <2> QED
    BY <2>1 DEF Started
<1>2. CASE Started' = Started \cup {a} /\ Started' # Started
  <2>1. written' = written
    <3>1. CASE NextBlock(a)
      BY <3>1 DEF NextBlock, ReleaseDisk
    <3>2. CASE ReadBlock(a) /\ ~(written' = written)
      <4>1. GoTo(a, <<"tape", "P">>)
        BY <3>2 DEF ReadBlock
      <4>2. pc'[a] = <<"tape", "P">>
        BY <4>1, PcMoves
      <4> QED
        BY <1>2, <4>2 DEF Started
    <3> QED
      BY <3>1, <3>2
  <2>2. Promise!Start(a)
    BY <1>1, <1>2, <2>1, ReadyToStart DEF Promise!Start, Written
  <2> QED
    BY <2>2 DEF MemoryStep, Promise!Next
<1>3. CASE Started' = Started
  <2>1. CASE written' = written
    BY <1>3, <2>1 DEF MemoryStep, Written
  <2>2. CASE ReadBlock(a) /\ ~(written' = written)
    <3>1. PICK k, put :
              k \in Index /\ put = <<a, k, 0>>
              /\ written' = [written EXCEPT ![a][k] = put]
      <4>1. getCylinderNum(i[a]) \in Index
        BY UserAssumption DEF getCylinderNum, Index, Inv, Typed, ProcTyped,
                              Proc, Asid
      <4> QED
        BY <2>2, <4>1 DEF ReadBlock
    <3>2. /\ written'[a][k] = put
          /\ \A c \in Asid, l \in Index :
                 ~(c = a /\ l = k) => written'[c][l] = written[c][l]
      BY <3>1, Processes DEF WrittenInv
    <3>3. Written' = [Written EXCEPT ![a][k] = put]
      BY <3>1, <3>2, WrittenMoves
    <3>4. Promise!Read(a, k)
      BY <1>1, <1>3, <3>1, <3>3 DEF Promise!Read, Written
    <3> QED
      BY <3>1, <3>4 DEF MemoryStep, Promise!Next
  <2>3. NextBlock(a) => written' = written
    BY DEF NextBlock, ReleaseDisk
  <2> QED
    BY <2>1, <2>2, <2>3
<1> QED
  BY <1>2, <1>3, StartedOwn

LEMMA OwnMemoryStep ==
    ASSUME Inv, PoolInv, KeptInv, WrittenInv, NEW a \in Asid,
           Support(a) \/ User(a)
    PROVE  MemoryStep
<1>0. WrittenInv'
  BY WrittenOwnStep
<1>1. CASE ReadBlock(a) \/ NextBlock(a)
  <2>1. pc[a] \in {<<"tape", "read">>, <<"tape", "V">>}
    BY <1>1 DEF ReadBlock, NextBlock, ReleaseDisk, At
  <2>2. ~ChooseFrame(a) /\ ~MapPage(a) /\ ~Store(a)
    BY <2>1 DEF ChooseFrame, MapPage, Store, At
  <2>3. Memory' = Memory
    BY <2>2, MemoryStill
  <2> QED
    BY <1>0, <1>1, <2>3, ReadStep
<1>2. CASE ~(ReadBlock(a) \/ NextBlock(a))
  <2>1. Started' = Started
    BY <1>2, StartedOwn
  <2>2. CASE Store(a)
    <3>1. CASE Memory' = Memory /\ Written' = Written
      BY <2>1, <3>1 DEF MemoryStep
    <3>2. ASSUME NEW p \in Index, NEW ver \in {1, 2},
                 Memory' = [Memory EXCEPT ![a][p] = <<a, p, ver>>],
                 Written' = [Written EXCEPT ![a][p] = <<a, p, ver>>]
          PROVE  MemoryStep
      <4>1. pc[a] = <<"user", "run">>
        BY <2>2 DEF Store, At
      <4>2. a \in Started
        BY <4>1 DEF Started
      <4>3. <<a, p, ver>> \in {<<a, p, 1>>, <<a, p, 2>>}
        OBVIOUS
      <4>4. Promise!Store(a, p)
        BY <2>1, <3>2, <4>2, <4>3 DEF Promise!Store, Written
      <4> QED
        BY <4>4 DEF MemoryStep, Promise!Next
    <3> QED
      BY <1>0, <2>2, <3>1, <3>2, MemoryStore
  <2>3. CASE ~Store(a)
    <3>1. Memory' = Memory
      BY <2>3, MemoryStill, MemoryChoose, MemoryMap
    <3>2. Written' = Written
      BY <1>2, <2>3, OwnWrites DEF Written
    <3> QED
      BY <2>1, <3>1, <3>2 DEF MemoryStep
  <2> QED
    BY <2>2, <2>3
<1> QED
  BY <1>1, <1>2

LEMMA EveryMemoryStep ==
    ASSUME Inv, PoolInv, KeptInv, WrittenInv, [Next]_vars
    PROVE  MemoryStep
<1>1. CASE Over \/ UNCHANGED vars
  <2>1. UNCHANGED <<pc, frame, frameSwapPool, pageTable, ram, disk, diskCmd,
                    written>>
    BY <1>1 DEF Over, vars
  <2>2. Memory' = Memory
    BY <2>1, QuietMemory DEF Evicting
  <2> QED
    BY <2>1, <2>2 DEF MemoryStep, Started, Written
<1>2. CASE test
  <2>1. /\ Started' = Started
        /\ UNCHANGED <<frame, frameSwapPool, pageTable, ram, disk, diskCmd>>
    BY <1>2, KeptTest
  <2>2. \A b \in Asid : Evicting(b)' <=> Evicting(b)
    <3>1. \A b \in Asid : /\ pc[b][1] = "evict" => pc'[b] = pc[b]
                          /\ pc'[b][1] = "evict" => pc'[b] = pc[b]
      BY <1>2, KeptTest
    <3> QED
      BY <2>1, <3>1 DEF Evicting
  <2>3. Memory' = Memory
    BY <2>1, <2>2, QuietMemory
  <2>4. Written' = Written
    BY <1>2 DEF test, CreateUser, WaitForUsers, EndTest, Written
  <2> QED
    BY <2>1, <2>3, <2>4 DEF MemoryStep
<1>3. CASE DiskCompletes
  <2>1. Started' = Started /\ Written' = Written
    BY <1>3 DEF DiskCompletes, Started, Written
  <2>2. CASE Memory' = Memory
    BY <2>1, <2>2 DEF MemoryStep
  <2>3. ASSUME NEW b \in Asid, NEW p \in Index, b \notin Started,
               pc[b] = <<"tape", "V">>, p = i[b],
               Memory' = [Memory EXCEPT ![b][p] = <<b, p, 0>>]
        PROVE  MemoryStep
    <3>2. Written[b][p] = <<b, p, 0>>
      BY <2>3 DEF WrittenInv, FileOK, Written, Leg
    <3>1. Promise!Load(b, p)
      BY <2>1, <2>3, <3>2 DEF Promise!Load, Written
    <3> QED
      BY <3>1 DEF MemoryStep, Promise!Next
  <2> QED
    BY <1>3, <2>2, <2>3, MemoryDone
<1> QED
  BY <1>1, <1>2, <1>3, OwnMemoryStep DEF Next

LEMMA MemoryInit ==
    ASSUME Init
    PROVE  Promise!Init
<1>1. ASSUME NEW b \in Asid  PROVE \E k : pc[b] = <<"none", k>>
  BY Processes DEF Init
<1>2. \A b \in Asid : pc[b][1] = "none"
  BY <1>1
<1>3. Started = {}
  BY <1>2 DEF Started
<1>4. ASSUME NEW a \in Asid, NEW k \in Index
      PROVE  Memory[a][k] = Blank
  <2>1. ~pageTable[a][k].valid
    BY Processes DEF Init
  <2>2. ~InFrame(a, k)
    BY <1>2, <2>1 DEF InFrame, BeingEvicted
  <2>3. disk[Place(a, k)] = Blank
    BY Sectors DEF Init
  <2> QED
    BY <2>2, <2>3, MemoryCell
<1>5. Memory = [a \in Asid |-> [k \in Index |-> Blank]]
  BY <1>4 DEF Memory
<1>6. [a \in Asid |-> written[a]] = Memory
  BY <1>5, Processes DEF Init
<1> QED
  BY <1>3, <1>5, <1>6 DEF Promise!Init

(* The private segment of a process is what was read from its tape when    *)
(* the process starts, and from then on every page of it holds the last    *)
(* store of its own program, however often UserTLBHandler replaces the     *)
(* pages and whatever the other processes do: UserProcs implements         *)
(* UserMemory.                                                             *)
THEOREM MemoryIsKept ==
    ASSUME PagesInTables, NoSharedPages
    PROVE  Spec => MemoryKept
<1>1. Init => Inv /\ PoolInv /\ KeptInv /\ WrittenInv /\ Promise!Init
  BY InitInv, PoolInit, KeptInit, WrittenInit, MemoryInit
<1>2. Inv /\ PoolInv /\ KeptInv /\ WrittenInv /\ [Next]_vars =>
          /\ Inv' /\ PoolInv' /\ KeptInv' /\ WrittenInv'
          /\ [Promise!Next]_(Promise!vars)
  <2> SUFFICES ASSUME Inv, PoolInv, KeptInv, WrittenInv, [Next]_vars
               PROVE  /\ Inv' /\ PoolInv' /\ KeptInv' /\ WrittenInv'
                      /\ [Promise!Next]_(Promise!vars)
    OBVIOUS
  <2>1. Inv'
    BY NextInv
  <2>2. PoolInv'
    BY PoolNext
  <2>3. KeptInv' /\ WrittenInv'
    BY KeptNext, WrittenNext
  <2>4. [Promise!Next]_(Promise!vars)
    BY EveryMemoryStep DEF MemoryStep, Promise!vars, Written
  <2> QED
    BY <2>1, <2>2, <2>3, <2>4
<1> QED
  BY <1>1, <1>2, PTL DEF Spec, MemoryKept, Promise!Spec

-----------------------------------------------------------------------------
(* What is left of the types: the semaphores' bounds.  A queue is never    *)
(* longer than there are processes, and the mutex of a terminal, which one *)
(* process uses, is free unless that process prints, or faulted as it did, *)
(* or ended that way.                                                      *)
SameSema(s) == sema4'[s] = sema4[s] /\ waiting'[s] = waiting[s]

Printing == <<"print", "char">>
Ended    == {"exit", "dead", "lost"}
InFault  == {"fault", "evict", "load"}

TerminalOK(a) ==
    /\ waiting[Terminal(a)] = <<>>
    /\ sema4[Terminal(a)] \in {0, 1}
    /\ old[a].resume = Printing => pc[a][1] \in InFault \cup Ended
    /\ pc[a][1] \notin Ended =>
           (sema4[Terminal(a)] = 0 <=>
               pc[a][1] = "print" \/ old[a].resume = Printing)

MasterTyped ==
    /\ sema4[masterSema4] \in -1 .. PROCCNT
    /\ waiting[masterSema4] \in Seq(Proc)

BoundInv == /\ pc[0] = <<"dead", "">> => MasterTyped
            /\ \A a \in Asid : TerminalOK(a)
            /\ garbage \in [SharedIndex -> BOOLEAN]

LEMMA Terminals ==
    /\ \A a, b \in Asid : Terminal(a) = Terminal(b) => a = b
    /\ \A s \in Sema4 : \/ s = masterSema4 \/ s \in SharedMutex
                        \/ \E a \in Asid : s = Terminal(a)
  BY Processes DEF Terminal, Sema4, Mutex, SharedMutex

LEMMA SharedOnly ==     \* the P's and V's of readTape and UserTLBHandler
    ASSUME Inv, NEW a \in Asid, readTape(a) \/ UserTLBHandler(a)
    PROVE  \A s \in Sema4 \ SharedMutex : SameSema(s)
<1>1. UNCHANGED semVars \/ \E s \in SharedMutex : P(a, s) \/ V(s)
  <2>1. CASE readTape(a)
    BY <2>1 DEF readTape, ReadBlock, StartUser, NextBlock, ReleaseDisk,
                GainDisk, Seek, Transfer, SharedMutex
  <2>2. CASE UserTLBHandler(a)
    BY <2>2 DEF UserTLBHandler, GainPool, ChooseFrame, Resume, GainDisk, Seek,
                Transfer, Evicted, Loaded, ReleaseDisk, MapPage, ReleasePool,
                SharedMutex
  <2> QED
    BY <2>1, <2>2
<1>2. CASE UNCHANGED semVars
  BY <1>2 DEF semVars, SameSema
<1>3. ASSUME NEW s \in SharedMutex, P(a, s) \/ V(s)
      PROVE  \A t \in Sema4 \ SharedMutex : SameSema(t)
  <2>1. s \in Sema4 /\ SemTyped
    BY Semaphores DEF SharedMutex, Inv, Typed
  <2>2. \A t \in Sema4 : t # s => SameSema(t)
    BY <1>3, <2>1, POfOne, VOfOne DEF SameSema
  <2> QED
    BY <2>2
<1> QED
  BY <1>1, <1>2, <1>3

-----------------------------------------------------------------------------
(* The terminal's mutex, under the steps of its process.                   *)
LEMMA TerminalStill ==
    ASSUME NEW b \in Asid, TerminalOK(b), pc'[b] = pc[b], old'[b] = old[b],
           SameSema(Terminal(b))
    PROVE  TerminalOK(b)'
  BY DEF TerminalOK, SameSema

LEMMA TerminalMove ==
    ASSUME NEW b \in Asid, TerminalOK(b), SameSema(Terminal(b)),
           \/ pc'[b][1] \in Ended
           \/ /\ old'[b] = old[b]
              /\ pc[b][1] \notin Ended \cup {"print"}
              /\ pc'[b][1] # "print"
              /\ pc[b][1] \in InFault => pc'[b][1] \in InFault
    PROVE  TerminalOK(b)'
<1>1. CASE pc'[b][1] \in Ended
  BY <1>1 DEF TerminalOK, SameSema
<1>2. CASE pc'[b][1] \notin Ended
  BY <1>2 DEF TerminalOK, SameSema, Ended, InFault
<1> QED
  BY <1>1, <1>2

LEMMA TerminalTape ==
    ASSUME Inv, NEW a \in Asid, TerminalOK(a), readTape(a)
    PROVE  TerminalOK(a)' /\ old' = old
<1>1. SameSema(Terminal(a))
  BY SharedOnly, Semaphores
<1>2. old' = old
  BY DEF readTape, ReadBlock, NextBlock, ReleaseDisk, GainDisk, Seek, Transfer,
         pagerVars
<1>3. pc[a][1] = "tape"
  BY DEF readTape, ReadBlock, NextBlock, ReleaseDisk, GainDisk, Seek, Transfer,
         At
<1>4. PICK q : GoTo(a, q) /\ q[1] \in {"tape", "user"}
  BY DEF readTape, ReadBlock, StartUser, NextBlock, ReleaseDisk, GainDisk,
         Seek, Transfer
<1>5. pc'[a] = q
  BY <1>4, PcMoves
<1> QED
  BY <1>1, <1>2, <1>3, <1>4, <1>5, TerminalMove DEF Ended, InFault

LEMMA TerminalResume ==
    ASSUME Inv, NEW a \in Asid, TerminalOK(a), Resume(a), pc[a][1] = "fault"
    PROVE  TerminalOK(a)' /\ \A b \in Asid : b # a => old'[b] = old[b]
<1>1. \A t \in Sema4 : t # swapmutex => SameSema(t)
  BY Semaphores, VOfOne DEF Resume, Inv, Typed, SameSema
<1>2. SameSema(Terminal(a))
  BY <1>1, Semaphores DEF SharedMutex
<1>3. /\ pc'[a] = old[a].resume
      /\ old[a].resume \in {<<"user", "run">>, Printing}
  BY PcMoves DEF Resume, Inv, Typed, PagerTyped, Printing
<1>4. /\ old'[a] = NoFault /\ NoFault.resume # Printing
      /\ \A b \in Asid : b # a => old'[b] = old[b]
  BY DEF Resume, Inv, Typed, PagerTyped, NoFault, Printing
<1>5. pc'[a][1] = "print" <=> old[a].resume = Printing
  BY <1>3 DEF Printing
<1>6. pc'[a][1] \notin Ended
  BY <1>3 DEF Printing, Ended
<1> QED
  BY <1>2, <1>4, <1>5, <1>6 DEF TerminalOK, SameSema, Ended

LEMMA TerminalHandler ==
    ASSUME PagesInTables, NoSharedPages, Inv, PoolInv, NEW a \in Asid,
           TerminalOK(a), UserTLBHandler(a)
    PROVE  TerminalOK(a)' /\ \A b \in Asid : b # a => old'[b] = old[b]
<1>1. SameSema(Terminal(a))
  BY SharedOnly, Semaphores
<1>2. ASSUME old' = old, pc[a][1] \in InFault,
             NEW q, GoTo(a, q), q[1] \in InFault
      PROVE  TerminalOK(a)' /\ \A b \in Asid : b # a => old'[b] = old[b]
  <2>1. pc'[a] = q
    BY <1>2, PcMoves
  <2> QED
    BY <1>1, <1>2, <2>1, TerminalMove DEF InFault, Ended
<1>3. CASE GainPool(a)
  <2>1. old' = old /\ pc[a][1] = "fault" /\ GoTo(a, <<"fault", "find">>)
    BY <1>3 DEF GainPool, At, pagerVars
  <2> QED
    BY <1>2, <2>1 DEF InFault
<1>4. ASSUME NEW for \in {"evict", "load"},
             GainDisk(a, for) \/ Seek(a, for) \/ Transfer(a, for)
      PROVE  TerminalOK(a)' /\ \A b \in Asid : b # a => old'[b] = old[b]
  <2>1. old' = old /\ pc[a][1] = for
    BY <1>4 DEF GainDisk, Seek, Transfer, At, pagerVars
  <2>2. PICK k \in {"seek", "transfer", "V"} : GoTo(a, <<for, k>>)
    BY <1>4 DEF GainDisk, Seek, Transfer
  <2>3. <<for, k>>[1] \in InFault /\ pc[a][1] \in InFault
    BY <2>1 DEF InFault
  <2> QED
    BY <1>2, <2>1, <2>2, <2>3
<1>5. CASE Evicted(a) \/ Loaded(a)
  <2>1. /\ old' = old /\ pc[a][1] \in InFault
        /\ \E q : GoTo(a, q) /\ q[1] \in InFault
    BY <1>5 DEF Evicted, Loaded, ReleaseDisk, At, pagerVars, InFault
  <2> QED
    BY <1>2, <2>1
<1>6. CASE ReleasePool(a)
  <2>1. Resume(a) /\ pc[a][1] = "fault"
    BY <1>6 DEF ReleasePool, At
  <2> QED
    BY <2>1, TerminalResume
<1>7. CASE MapPage(a)
  <2>1. old' = old /\ pc[a][1] = "fault"
    BY <1>7 DEF MapPage, At
  <2>2. GoTo(a, <<"fault", "V">>)
    BY <1>7 DEF MapPage, Inv, Typed, PagerTyped
  <2> QED
    BY <1>2, <2>1, <2>2 DEF InFault
<1>8. CASE ChooseFrame(a)
  <2>1. pc[a][1] = "fault"
    BY <1>8 DEF ChooseFrame, At
  <2>2. CASE AlreadyThere(a)
    BY <1>8, <2>1, <2>2, TerminalResume DEF ChooseFrame
  <2>3. CASE ~AlreadyThere(a)
    <3>1. /\ old' = old /\ Boot(a, frameSwapPool[findFrame])
      BY <1>8, <2>3 DEF ChooseFrame
    <3>2. findFrame \in Frame
      BY UserAssumption DEF findFrame, Frame, Inv, Typed, PagerTyped
    <3>3. \/ frameSwapPool[findFrame].asid = UNOCCUPIEDFRAME
          \/ frameSwapPool[findFrame].page \in Index
      BY <3>2 DEF Inv, Typed, PagerTyped, Unoccupied
    <3>4. \E q \in {<<"load", "P">>, <<"evict", "P">>} : GoTo(a, q)
      BY <3>1, <3>3 DEF Boot
    <3> QED
      BY <1>2, <2>1, <3>1, <3>4 DEF InFault
  <2> QED
    BY <2>2, <2>3
<1> QED
  BY <1>3, <1>4, <1>5, <1>6, <1>7, <1>8 DEF UserTLBHandler

LEMMA TerminalException ==
    ASSUME Inv, NEW a \in Asid, TerminalOK(a), NEW x,
           NEW resume \in {<<"user", "run">>, Printing},
           pc[a] = resume, TLBException(a, x, resume)
    PROVE  /\ TerminalOK(a)' /\ \A b \in Asid : b # a => old'[b] = old[b]
           /\ UNCHANGED semVars
<1>1. /\ UNCHANGED semVars /\ SameSema(Terminal(a))
      /\ \A b \in Asid : b # a => old'[b] = old[b]
  BY DEF TLBException, semVars, SameSema, Inv, Typed, PagerTyped
<1>2. CASE HasEntry(x)
  <2>1. /\ GoTo(a, <<"fault", "P">>)
        /\ old' = [old EXCEPT ![a] = [seg |-> x.seg, page |-> x.page,
                                      resume |-> resume]]
    BY <1>2 DEF TLBException
  <2>2. pc'[a][1] = "fault" /\ old'[a].resume = resume
    BY <2>1, PcMoves DEF Inv, Typed, PagerTyped
  <2>3. /\ pc[a][1] = "print" <=> resume = Printing
        /\ pc[a][1] \notin Ended \cup InFault
    BY DEF Printing, Ended, InFault
  <2> QED
    BY <1>1, <2>2, <2>3 DEF TerminalOK, SameSema, Ended, InFault
<1>3. CASE ~HasEntry(x)
  <2>1. GoTo(a, <<"exit", "V">>)
    BY <1>3 DEF TLBException
  <2>2. pc'[a][1] = "exit"
    BY <2>1, PcMoves
  <2> QED
    BY <1>1, <2>2, TerminalMove DEF Ended
<1> QED
  BY <1>2, <1>3

LEMMA TerminalPrints ==     \* the P of WriteToTerminal, and its V
    ASSUME Inv, NEW a \in Asid, TerminalOK(a), old' = old,
           \/ pc[a][1] = "user" /\ pc'[a][1] = "print" /\ P(a, Terminal(a))
           \/ pc[a][1] = "print" /\ pc'[a][1] = "user" /\ V(Terminal(a))
    PROVE  TerminalOK(a)' /\ \A t \in Sema4 : t # Terminal(a) => SameSema(t)
<1>1. Terminal(a) \in Sema4 /\ SemTyped
  BY Semaphores DEF Inv, Typed
<1>2. \A t \in Sema4 : t # Terminal(a) => SameSema(t)
  BY <1>1, POfOne, VOfOne DEF SameSema
<1>3. CASE pc[a][1] = "user" /\ pc'[a][1] = "print" /\ P(a, Terminal(a))
  <2>1. sema4[Terminal(a)] = 1 /\ old[a].resume # Printing
    BY <1>3 DEF TerminalOK, Ended, InFault
  <2>2. sema4'[Terminal(a)] = 0 /\ waiting'[Terminal(a)] = <<>>
    BY <1>1, <1>3, <2>1 DEF P, SemTyped, TerminalOK
  <2> QED
    BY <1>2, <1>3, <2>1, <2>2 DEF TerminalOK, Ended
<1>4. CASE pc[a][1] = "print" /\ pc'[a][1] = "user" /\ V(Terminal(a))
  <2>1. sema4[Terminal(a)] = 0 /\ old[a].resume # Printing
    BY <1>4 DEF TerminalOK, Ended, InFault
  <2>2. sema4'[Terminal(a)] = 1 /\ waiting'[Terminal(a)] = <<>>
    BY <1>1, <1>4, <2>1 DEF V, SemTyped, TerminalOK
  <2> QED
    BY <1>2, <1>4, <2>1, <2>2 DEF TerminalOK, Ended
<1> QED
  BY <1>2, <1>3, <1>4

LEMMA TerminalUser ==
    ASSUME Inv, NEW a \in Asid, TerminalOK(a), User(a) \/ WriteToTerminal(a)
    PROVE  /\ TerminalOK(a)' /\ \A b \in Asid : b # a => old'[b] = old[b]
           /\ \A t \in Sema4 : t # Terminal(a) => SameSema(t)
<1>1. \/ User(a) /\ pc[a] = <<"user", "run">>
      \/ WriteToTerminal(a) /\ pc[a] = Printing
  BY DEF User, Store, UserFault, UserTrap, EmptyCall, PrintCall, At,
         WriteToTerminal, PrintChar, PrintFault, PrintEnd, Printing
<1>2. ASSUME UNCHANGED <<pc, semVars, old>>
      PROVE  /\ TerminalOK(a)' /\ \A b \in Asid : b # a => old'[b] = old[b]
             /\ \A t \in Sema4 : t # Terminal(a) => SameSema(t)
  BY <1>2, TerminalStill DEF semVars, SameSema
<1>3. ASSUME NEW x, NEW resume \in {<<"user", "run">>, Printing},
             pc[a] = resume, TLBException(a, x, resume)
      PROVE  /\ TerminalOK(a)' /\ \A b \in Asid : b # a => old'[b] = old[b]
             /\ \A t \in Sema4 : t # Terminal(a) => SameSema(t)
  BY <1>3, TerminalException DEF semVars, SameSema
<1>4. CASE Store(a)
  BY <1>2, <1>4 DEF Store, pagerVars
<1>5. CASE UserFault(a)
  BY <1>3, <1>5 DEF UserFault, At
<1>6. CASE UserTrap(a) \/ EmptyCall(a)
  <2>1. UNCHANGED <<semVars, old>> /\ \E k : GoTo(a, <<"exit", k>>)
                                             \/ GoTo(a, <<"lost", k>>)
    BY <1>6 DEF UserTrap, EmptyCall, ToExit, pagerVars
  <2>2. pc'[a][1] \in Ended
    BY <2>1, PcMoves DEF Ended
  <2>3. \A t \in Sema4 : SameSema(t)
    BY <2>1 DEF semVars, SameSema
  <2> QED
    BY <2>1, <2>2, <2>3, Semaphores, TerminalMove
<1>7. CASE PrintCall(a)
  <2>1. /\ pc[a][1] = "user" /\ GoTo(a, <<"print", "char">>)
        /\ P(a, Terminal(a)) /\ old' = old
    BY <1>7 DEF PrintCall, At, pagerVars
  <2>2. pc'[a][1] = "print"
    BY <2>1, PcMoves
  <2> QED
    BY <2>1, <2>2, TerminalPrints
<1>8. CASE PrintDone(a) /\ WriteToTerminal(a)
  <2>1. /\ GoTo(a, <<"user", "run">>) /\ V(Terminal(a)) /\ old' = old
    BY <1>8 DEF PrintDone, pagerVars
  <2>2. pc'[a][1] = "user"
    BY <2>1, PcMoves
  <2>3. pc[a][1] = "print"
    BY <1>8 DEF WriteToTerminal, PrintChar, PrintFault, PrintEnd, At
  <2> QED
    BY <2>1, <2>2, <2>3, TerminalPrints
<1>9. CASE PrintFault(a)
  BY <1>3, <1>9 DEF PrintFault, At, Printing
<1>10. CASE WriteToTerminal(a) /\ ~PrintDone(a) /\ ~PrintFault(a)
  BY <1>2, <1>10 DEF WriteToTerminal, PrintChar, PrintEnd, pagerVars
<1> QED
  BY <1>4, <1>5, <1>6, <1>7, <1>8, <1>9, <1>10 DEF User

LEMMA OwnTerminals ==
    ASSUME PagesInTables, NoSharedPages, Inv, PoolInv, NEW a \in Asid,
           Support(a) \/ User(a), \A b \in Asid : TerminalOK(b)
    PROVE  \A b \in Asid : TerminalOK(b)'
<1>1. CASE readTape(a) \/ UserTLBHandler(a) \/ User(a) \/ WriteToTerminal(a)
  <2>1. TerminalOK(a)' /\ \A b \in Asid : b # a => old'[b] = old[b]
    BY <1>1, TerminalTape, TerminalHandler, TerminalUser
  <2>2. \A b \in Asid : b # a => SameSema(Terminal(b))
    <3>1. \A b \in Asid : /\ Terminal(b) \in Sema4 \ SharedMutex
                          /\ b # a => Terminal(b) # Terminal(a)
      BY Semaphores, Terminals
    <3> QED
      BY <1>1, <3>1, SharedOnly, TerminalUser
  <2>3. \A b \in Asid : b # a => pc'[b] = pc[b]
    BY OwnStep, PcMoves
  <2>4. \A b \in Asid : b # a => TerminalOK(b)'
    BY <2>1, <2>2, <2>3, TerminalStill
  <2> QED
    BY <2>1, <2>4
<1>2. CASE UserTerminate(a)
  <2>1. old' = old /\ \A b \in Asid : SameSema(Terminal(b))
    <3>1. SemTyped
      BY DEF Inv, Typed
    <3>2. UNCHANGED semVars \/ V(masterSema4)
      BY <1>2 DEF UserTerminate
    <3>3. \A t \in Sema4 : t # masterSema4 => SameSema(t)
      BY <3>1, <3>2, Semaphores, VOfOne DEF semVars, SameSema
    <3> QED
      BY <1>2, <3>3, Semaphores DEF UserTerminate, pagerVars
  <2>2. PICK q : GoTo(a, q) /\ q[1] \in Ended
    <3>1. PICK f \in Ended : \E k : GoTo(a, <<f, k>>)
      BY <1>2 DEF UserTerminate, Ended
    <3>2. PICK k : GoTo(a, <<f, k>>)
      BY <3>1
    <3>3. <<f, k>>[1] = f
      OBVIOUS
    <3> QED
      BY <3>1, <3>2, <3>3
  <2>3. /\ pc'[a][1] \in Ended
        /\ \A b \in Asid : b # a => pc'[b] = pc[b]
    BY <2>2, PcMoves
  <2> QED
    BY <2>1, <2>3, TerminalStill, TerminalMove
<1> QED
  BY <1>1, <1>2 DEF Support

LEMMA TestTerminals ==
    ASSUME Inv, test, \A b \in Asid : TerminalOK(b)
    PROVE  \A b \in Asid : TerminalOK(b)'
<1>1. old' = old
  BY DEF test, CreateUser, WaitForUsers, EndTest, pagerVars
<1>2. \A b \in Asid : SameSema(Terminal(b))
  <2>1. UNCHANGED semVars \/ P(0, masterSema4)
    BY DEF test, CreateUser, WaitForUsers, EndTest
  <2>2. \A t \in Sema4 : t # masterSema4 => SameSema(t)
    BY <2>1, Semaphores, POfOne DEF semVars, SameSema, Inv, Typed
  <2> QED
    BY <2>2, Semaphores
<1>3. ASSUME NEW b \in Asid
      PROVE  \/ pc'[b] = pc[b] \/ pc'[b][1] = "dead"
             \/ pc[b][1] = "none" /\ pc'[b][1] = "tape"
  <2>1. pc \in [Proc -> Point] /\ b \in Proc /\ b # 0
    BY Processes DEF Inv, Typed, ProcTyped
  <2>2. CASE CreateUser
    <3> DEFINE n == i[0] + 1
    <3>1. pc' = [pc EXCEPT ![n] = <<"tape", "read">>,
                           ![0] = IF n = PROCCNT THEN <<"test", "P">> ELSE @]
      BY <2>2 DEF CreateUser
    <3>2. CASE b # n
      BY <2>1, <3>1, <3>2
    <3>3. CASE b = n
      <4>1. pc'[b] = <<"tape", "read">>
        BY <2>1, <3>1, <3>3
      <4>2. pc'[b][1] = "tape"
        BY <4>1
      <4>3. i[0] \in Nat /\ b > i[0]
        BY <3>3, Processes DEF Inv, Typed, ProcTyped
      <4>4. pc[0] = <<"test", "create">>
        BY <2>2 DEF CreateUser, At
      <4>5. \E k : pc[b] = <<"none", k>>
        BY <4>3, <4>4 DEF Inv, MasterOK
      <4>6. pc[b][1] = "none"
        BY <4>5
      <4> QED
        BY <4>2, <4>6
    <3> QED
      BY <3>2, <3>3
  <2>3. CASE WaitForUsers
    BY <2>1, <2>3 DEF WaitForUsers, GoTo
  <2>4. CASE EndTest
    BY <2>1, <2>4 DEF EndTest
  <2> QED
    BY <2>2, <2>3, <2>4 DEF test
<1>4. ASSUME NEW b \in Asid  PROVE TerminalOK(b)'
  <2>1. old'[b] = old[b] /\ SameSema(Terminal(b)) /\ TerminalOK(b)
    BY <1>1, <1>2
  <2>2. CASE pc'[b] = pc[b]
    BY <2>1, <2>2, TerminalStill
  <2>3. CASE pc'[b][1] = "dead"
    BY <2>1, <2>3, TerminalMove DEF Ended
  <2>4. CASE pc[b][1] = "none" /\ pc'[b][1] = "tape"
    BY <2>1, <2>4, TerminalMove DEF Ended, InFault
  <2> QED
    BY <1>3, <2>2, <2>3, <2>4
<1> QED
  BY <1>4

-----------------------------------------------------------------------------
(* The master semaphore.                                                   *)
LEMMA MasterTypes ==
    ASSUME Inv, sema4[masterSema4] = Cardinality(Gone) - Taken,
           sema4[masterSema4] >= -1, waiting[masterSema4] \in {<< 0 >>, <<>>}
    PROVE  MasterTyped
<1>1. Cardinality(Gone) \in 0 .. PROCCNT /\ PROCCNT \in Nat
  BY GoneFinite, Processes
<1>2. Taken \in Nat
  BY Processes DEF Taken, Inv, Typed, ProcTyped
<1>3. sema4[masterSema4] \in -1 .. PROCCNT
  BY <1>1, <1>2
<1>4. <<0>> \in Seq(Proc) /\ <<>> \in Seq(Proc)
  BY Processes
<1> QED
  BY <1>3, <1>4 DEF MasterTyped

LEMMA MasterLives ==
    ASSUME Inv, pc[0] # <<"dead", "">>
    PROVE  MasterTyped
<1>1. /\ sema4[masterSema4] = Cardinality(Gone) - Taken
      /\ sema4[masterSema4] >= -1
      /\ waiting[masterSema4] \in {<<0>>, <<>>}
  BY DEF Inv, MasterOK
<1> QED
  BY <1>1, MasterTypes

LEMMA MasterNext ==
    ASSUME PagesInTables, Inv, BoundInv, [Next]_vars, pc'[0] = <<"dead", "">>
    PROVE  MasterTyped'
<1>1. MasterTyped
  BY MasterLives DEF BoundInv
<1>2. SameSema(masterSema4) => MasterTyped'
  BY <1>1 DEF MasterTyped, SameSema
<1>3. ASSUME NEW a \in Asid, Support(a) \/ User(a)
      PROVE  SameSema(masterSema4)
  <2>1. CASE readTape(a) \/ UserTLBHandler(a)
    BY <2>1, SharedOnly, Semaphores
  <2>2. CASE User(a) \/ WriteToTerminal(a)
    <3>1. UNCHANGED semVars \/ P(a, Terminal(a)) \/ V(Terminal(a))
      BY <2>2 DEF User, Store, UserFault, TLBException, UserTrap, EmptyCall,
                  PrintCall, WriteToTerminal, PrintChar, PrintFault, PrintEnd,
                  PrintDone
    <3> QED
      BY <3>1, Semaphores, POfOne, VOfOne DEF semVars, SameSema, Inv, Typed
  <2>3. CASE UserTerminate(a)
    <3>1. CASE UNCHANGED semVars
      BY <3>1 DEF semVars, SameSema
    <3>2. CASE pc[a] = <<"exit", "V">> /\ GoTo(a, <<"exit", "SYS2">>)
      <4>1. pc[a] \notin GonePoint
        BY <3>2, Points
      <4>2. a \notin Gone
        BY <4>1 DEF Gone
      <4>3. pc[0] # <<"dead", "">>
        BY <4>2 DEF Inv, MasterOK
      <4>4. pc'[0] = pc[0]
        BY <3>2, Processes DEF GoTo, Inv, Typed, ProcTyped
      <4> QED
        BY <4>3, <4>4
    <3> QED
      BY <2>3, <3>1, <3>2 DEF UserTerminate, At
  <2> QED
    BY <1>3, <2>1, <2>2, <2>3 DEF Support
<1>4. CASE test
  <2>1. CASE UNCHANGED semVars
    BY <1>2, <2>1 DEF semVars, SameSema
  <2>2. CASE WaitForUsers
    <3>1. PICK k : pc'[0] = <<"test", k>>
      BY <2>2, Processes DEF WaitForUsers, GoTo, Inv, Typed, ProcTyped
    <3>2. <<"test", k>> # <<"dead", "">>
      OBVIOUS
    <3> QED
      BY <3>1, <3>2
  <2> QED
    BY <1>4, <2>1, <2>2 DEF test, CreateUser, EndTest
<1>5. CASE DiskCompletes \/ Over \/ UNCHANGED vars
  BY <1>2, <1>5 DEF DiskCompletes, Over, vars, semVars, SameSema
<1> QED
  BY <1>2, <1>3, <1>4, <1>5 DEF Next

-----------------------------------------------------------------------------
LEMMA GarbageStays ==
    ASSUME [Next]_vars
    PROVE  garbage' = garbage
<1>1. CASE test \/ DiskCompletes \/ Over \/ UNCHANGED vars
  BY <1>1 DEF test, CreateUser, WaitForUsers, EndTest, DiskCompletes, Over, vars
<1>2. ASSUME NEW a \in Asid, Support(a) \/ User(a)
      PROVE  garbage' = garbage
  <2>1. CASE readTape(a)
    BY <2>1 DEF readTape, ReadBlock, NextBlock, ReleaseDisk, GainDisk, Seek,
                Transfer
  <2>2. CASE UserTLBHandler(a)
    BY <2>2 DEF UserTLBHandler, GainPool, ChooseFrame, GainDisk, Seek,
                Transfer, Evicted, Loaded, ReleaseDisk, MapPage, ReleasePool
  <2>3. CASE User(a) \/ WriteToTerminal(a) \/ UserTerminate(a)
    BY <2>3 DEF User, Store, UserFault, TLBException, UserTrap, EmptyCall,
                PrintCall, WriteToTerminal, PrintChar, PrintFault, PrintEnd,
                PrintDone, UserTerminate
  <2> QED
    BY <1>2, <2>1, <2>2, <2>3 DEF Support
<1> QED
  BY <1>1, <1>2 DEF Next

LEMMA BoundInit == Init => BoundInv
<1> SUFFICES ASSUME Init PROVE BoundInv
  OBVIOUS
<1>1. pc[0] # <<"dead", "">>
  <2>1. pc[0] = <<"test", "create">>
    BY Processes DEF Init
  <2>2. <<"test", "create">> # <<"dead", "">>
    OBVIOUS
  <2> QED
    BY <2>1, <2>2
<1>2. ASSUME NEW a \in Asid  PROVE TerminalOK(a)
  <2>1. sema4[Terminal(a)] = 1 /\ waiting[Terminal(a)] = <<>>
    BY Semaphores DEF Init
  <2>2. \E k : pc[a] = <<"none", k>>
    BY Processes DEF Init
  <2>3. pc[a][1] = "none"
    BY <2>2
  <2>4. old[a].resume # Printing
    BY DEF Init, NoFault, Printing
  <2> QED
    BY <2>1, <2>3, <2>4 DEF TerminalOK
<1> QED
  BY <1>1, <1>2 DEF BoundInv, Init

LEMMA BoundNext ==
    ASSUME PagesInTables, NoSharedPages, Inv, PoolInv, BoundInv, [Next]_vars
    PROVE  BoundInv'
<1>1. pc'[0] = <<"dead", "">> => MasterTyped'
  BY MasterNext
<1>2. \A b \in Asid : TerminalOK(b)'
  <2>1. CASE DiskCompletes \/ Over \/ UNCHANGED vars
    BY <2>1, TerminalStill DEF DiskCompletes, Over, vars, semVars, pagerVars,
                               SameSema, BoundInv
  <2> QED
    BY <2>1, OwnTerminals, TestTerminals DEF Next, BoundInv
<1>3. garbage' \in [SharedIndex' -> BOOLEAN]
  BY GarbageStays DEF BoundInv, SharedIndex
<1> QED
  BY <1>1, <1>2, <1>3 DEF BoundInv

(* Nobody waits twice, so a queue of processes is at most PROCCNT long.    *)
LEMMA QueueBound ==
    ASSUME NEW q \in Seq(Asid), IsInjective(q)
    PROVE  Len(q) \in 0 .. PROCCNT
<1>1. IsFiniteSet(Asid) /\ Cardinality(Asid) = PROCCNT
  BY Processes, FS_Interval DEF Asid
<1>2. Len(q) \in Nat /\ q \in [1 .. Len(q) -> Asid]
  BY LenProperties
<1>3. q \in Injection(1 .. Len(q), Asid)
  BY <1>2 DEF Injection, IsInjective
<1>4. Cardinality(1 .. Len(q)) <= PROCCNT
  BY <1>1, <1>3, FS_Injection
<1>5. Cardinality(1 .. Len(q)) = Len(q)
  BY <1>2, FS_Interval
<1> QED
  BY <1>2, <1>4, <1>5, Processes

LEMMA SemaBounds ==
    ASSUME Inv, BoundInv
    PROVE  /\ sema4 \in [Sema4 -> -PROCCNT .. PROCCNT]
           /\ waiting \in [Sema4 -> Seq(Proc)]
<1>1. PROCCNT \in Nat /\ PROCCNT >= 1
  BY UserAssumption
<1>2. ASSUME NEW s \in Sema4
      PROVE  sema4[s] \in -PROCCNT .. PROCCNT /\ waiting[s] \in Seq(Proc)
  <2>1. CASE s = masterSema4
    <3>1. MasterTyped
      BY MasterLives DEF BoundInv
    <3> QED
      BY <1>1, <2>1, <3>1 DEF MasterTyped
  <2>2. CASE s \in SharedMutex
    <3>1. MutexOK(s)
      BY <2>2 DEF Inv
    <3>2. waiting[s] \in Seq(Asid) /\ IsInjective(waiting[s])
      BY <3>1 DEF MutexOK
    <3>3. waiting[s] \in Seq(Proc)
      BY <3>2, Processes
    <3>4. Len(waiting[s]) \in 0 .. PROCCNT
      BY <3>2, QueueBound
    <3>5. CASE In(s) = {}
      <4>1. waiting[s] = <<>> /\ sema4[s] = 1 - Len(waiting[s])
        BY <3>1, <3>5 DEF MutexOK
      <4>2. Len(waiting[s]) = 0
        BY <4>1
      <4> QED
        BY <1>1, <3>3, <4>1, <4>2
    <3>6. CASE In(s) # {}
      <4>1. sema4[s] = 0 - Len(waiting[s])
        BY <3>1, <3>6 DEF MutexOK
      <4> QED
        BY <1>1, <3>3, <3>4, <4>1
    <3> QED
      BY <3>5, <3>6
  <2>3. ASSUME NEW a \in Asid, s = Terminal(a)
        PROVE  sema4[s] \in -PROCCNT .. PROCCNT /\ waiting[s] \in Seq(Proc)
    <3>1. waiting[s] = <<>> /\ sema4[s] \in {0, 1}
      BY <2>3 DEF BoundInv, TerminalOK
    <3> QED
      BY <1>1, <3>1
  <2> QED
    BY <2>1, <2>2, <2>3, Terminals
<1>3. sema4 \in [Sema4 -> Int] /\ waiting = [s \in Sema4 |-> waiting[s]]
  BY DEF Inv, Typed, SemTyped
<1>4. sema4 \in [Sema4 -> -PROCCNT .. PROCCNT]
  BY <1>2, <1>3
<1>5. waiting \in [Sema4 -> Seq(Proc)]
  BY <1>2, <1>3
<1> QED
  BY <1>4, <1>5

LEMMA AllTyped ==
    ASSUME Inv, PoolInv, KeptInv, WrittenInv, BoundInv
    PROVE  TypeOK
<1>1. pc \in [Proc -> Point] /\ i \in [Proc -> Nat]
  BY DEF Inv, Typed, ProcTyped
<1>2. /\ old \in [Asid -> [seg : {0, KUSEG2, KUSEG3}, page : PageNo \cup {0},
                           resume : {<<"user", "run">>, <<"print", "char">>}]]
      /\ nextFrame \in Frame
  <2>1. Index \subseteq PageNo \cup {0}
    BY DEF PageNo
  <2> QED
    BY <2>1 DEF Inv, Typed, PagerTyped
<1>3. /\ pageTable \in [Proc -> [Index -> [valid : BOOLEAN, frame : Frame]]]
      /\ frame \in [Asid -> Frame \cup {NOFRAME}]
  BY DEF PoolInv, PoolTyped
<1>4. frameSwapPool \in [Frame -> PoolEntry]
  <2>1. {Unoccupied} \cup [asid : Asid, seg : {KUSEG2, KUSEG3}, page : Index]
            \subseteq PoolEntry
    BY DEF PoolEntry, PageNo
  <2> QED
    BY <2>1 DEF PoolInv, PoolTyped
<1>5. /\ staleTLB \subseteq (Proc \X Index \X Frame)
      /\ ram \in [Address -> Content] /\ disk \in [Sector -> Content]
      /\ cylinder \in Index
  BY DEF KeptInv, StoreTyped
<1>6. diskCmd = NOCMD \/ diskCmd.proc \in Asid
  BY DEF KeptInv, CommandOf, SeekOf, TransferOf
<1>7. garbage \in [SharedIndex -> BOOLEAN]
  BY DEF BoundInv
<1>8. /\ sema4 \in [Sema4 -> -PROCCNT .. PROCCNT]
      /\ waiting \in [Sema4 -> Seq(Proc)]
  BY SemaBounds
<1>9. written \in [Proc -> [Index -> Content]]
  BY DEF WrittenInv
<1> QED
  BY <1>1, <1>2, <1>3, <1>4, <1>5, <1>6, <1>7, <1>8, <1>9 DEF TypeOK

(* Every variable of the support level keeps its type: a frame is always   *)
(* one of the pool, a table entry one of the table, no semaphore leaves    *)
(* the bounds the number of processes gives it.                            *)
THEOREM SupportIsTyped ==
    ASSUME PagesInTables, NoSharedPages
    PROVE  Spec => []TypeOK
<1>1. Init => Inv /\ PoolInv /\ KeptInv /\ WrittenInv /\ BoundInv
  BY InitInv, PoolInit, KeptInit, WrittenInit, BoundInit
<1>2. Inv /\ PoolInv /\ KeptInv /\ WrittenInv /\ BoundInv /\ [Next]_vars =>
          Inv' /\ PoolInv' /\ KeptInv' /\ WrittenInv' /\ BoundInv'
  BY NextInv, PoolNext, KeptNext, WrittenNext, BoundNext
<1>3. Inv /\ PoolInv /\ KeptInv /\ WrittenInv /\ BoundInv => TypeOK
  BY AllTyped
<1> QED
  BY <1>1, <1>2, <1>3, PTL DEF Spec
=============================================================================
