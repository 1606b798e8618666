----------------------------- MODULE UserState -----------------------------
(***************************************************************************)
(* The state of the support level (phase3): the globals of initProc.c, the *)
(* page tables and the frame pool, and the memory and devices its code     *)
(* works on.  The nucleus below appears as what it promises: P and V on a  *)
(* semaphore with a first in first out queue, SYS8 that waits for the      *)
(* device, SYS2 that ends a process and its children, and preemption that  *)
(* may come between any two steps and loses nothing.                       *)
(*                                                                         *)
(* A step is the code from one system call to the next.  In between a      *)
(* handler writes at most one thing another process can see, always with   *)
(* the swap mutex held or with interrupts masked.                          *)
(***************************************************************************)
EXTENDS Integers, Sequences, Functions

CONSTANTS
    PROCCNT,    \* the user processes are 1 .. PROCCNT, their asids
    POOLSIZE,   \* frames of the swap pool
    MAXKUSEG,   \* entries of a page table
    KUSEG2LAST, \* number of the stack page, beyond any index of a table
    TapeLen,    \* blocks on the tape of each process
    Touches,    \* the virtual pages the program of each process uses
    Stores,     \* those of them it stores into
    String,     \* the page each character of a string to print is on, and
                \* last that of its EOS
    Calls       \* what else the program of each process does

KUSEG2 == 2
KUSEG3 == 3

Asid  == 1 .. PROCCNT
Proc  == 0 .. PROCCNT           \* 0 is the process that runs test()
Frame == 0 .. POOLSIZE - 1
Index == 0 .. MAXKUSEG - 1      \* of the entries of a page table
PageNo == Index \cup {KUSEG2LAST}
VPage == [seg : {KUSEG2, KUSEG3}, page : PageNo]

(* The semaphores: two of their own, and the used ones of deviceSema4s by  *)
(* their index there.                                                      *)
masterSema4 == -2
swapmutex   == -1
disk0       == 0
Terminal(a) == 32 + (a - 1)
Mutex == {swapmutex, disk0} \cup {Terminal(a) : a \in Asid}
Sema4 == {masterSema4} \cup Mutex

(* The content of a page or block names what it is (the owner, 0 for the   *)
(* shared segment, and the entry) and which version: 0 is the tape's.      *)
Blank   == <<-1, 0, 0>>
Content == {Blank} \cup (Proc \X Index \X {0, 1, 2})

(* Addresses of whole pages: the frame pool, then the tape buffers.        *)
TapeBuffer(a) == POOLSIZE + a - 1
Address == 0 .. POOLSIZE + PROCCNT - 1

UNOCCUPIEDFRAME == -1
Unoccupied == [asid |-> UNOCCUPIEDFRAME, seg |-> 0, page |-> 0]
PoolEntry  == {Unoccupied} \cup
                  [asid : Asid, seg : {KUSEG2, KUSEG3}, page : PageNo]
NOFRAME == -1
NoFault == [seg |-> 0, page |-> 0, resume |-> <<"user", "run">>]
NOCMD   == [proc |-> -1]

UserCall == {"TRAP", "EMPTYCALL", "WRITETOTERMINAL"}

ASSUME UserAssumption ==
    /\ PROCCNT \in Nat \ {0} /\ POOLSIZE \in Nat \ {0}
    /\ MAXKUSEG \in Nat \ {0} /\ KUSEG2LAST \in Nat /\ KUSEG2LAST >= MAXKUSEG
    /\ TapeLen \in [Asid -> 1 .. MAXKUSEG]
    /\ Touches \in [Asid -> SUBSET VPage]
    /\ Stores \in [Asid -> SUBSET VPage]
    /\ String \in Seq(VPage) /\ String # <<>>
    /\ Calls \in [Asid -> SUBSET UserCall]

VARIABLES
    pc,             \* where each process is: <<function, step>>
    sema4, waiting, \* value and queue of each semaphore
    i,              \* loop counter of test, readTape, WriteToTerminal
    old,            \* oldAreas[TLBEXCEPTION]: the page, where to resume
    frame,          \* local of UserTLBHandler
    nextFrame,      \* static of findFrame, modulo POOLSIZE
    frameSwapPool,  \* what each frame of the pool holds
    pageTable,      \* kuseg3PT at 0, the kuseg2PT of each process
    staleTLB,       \* translations the TLB may hold against the tables
    ram, disk,      \* memory pages, and sectors <<cylinder, sector, head>>
    cylinder, diskCmd,  \* the arm of disk 0, and the command it executes
    garbage,        \* valid bits at the never set segTable->entries[0]
    written         \* history: what was last put in each page, by the tape
                    \* of its process or by a program's own store

pagerVars == <<old, frame, nextFrame, frameSwapPool, pageTable, staleTLB>>
semVars   == <<sema4, waiting>>
diskVars  == <<ram, disk, cylinder, diskCmd>>
vars == <<pc, sema4, waiting, i, old, frame, nextFrame, frameSwapPool,
          pageTable, staleTLB, ram, disk, cylinder, diskCmd, garbage,
          written>>

-----------------------------------------------------------------------------
(* The nucleus, as seen from above.                                        *)
Blocked(a) == diskCmd.proc = a \/ \E s \in Sema4 : a \in Range(waiting[s])
At(a, function, step) == pc[a] = <<function, step>> /\ ~Blocked(a)
GoTo(a, point) == pc' = [pc EXCEPT ![a] = point]

P(a, s) ==
    /\ sema4' = [sema4 EXCEPT ![s] = @ - 1]
    /\ waiting' = IF sema4[s] - 1 < 0
                  THEN [waiting EXCEPT ![s] = Append(@, a)]
                  ELSE waiting

LostWakeup(s) ==     \* mutant: the last process of a queue is not woken
    /\ sema4' = [sema4 EXCEPT ![s] = @ + 1]
    /\ waiting' = IF sema4[s] + 1 < 0
                  THEN [waiting EXCEPT ![s] = Tail(@)]
                  ELSE waiting

V(s) ==
    /\ sema4' = [sema4 EXCEPT ![s] = @ + 1]
    /\ waiting' = IF sema4[s] + 1 <= 0
                  THEN [waiting EXCEPT ![s] = Tail(@)]
                  ELSE waiting

-----------------------------------------------------------------------------
(* Where the code looks for things.                                        *)
getCylinderNum(page) == IF page >= MAXKUSEG - 1 THEN MAXKUSEG - 1 ELSE page
getSectorNum(asid)   == asid - 1
getHeadNum(seg)      == IF seg = KUSEG2 THEN 0 ELSE 1
Table(asid, seg)     == IF seg = KUSEG2 THEN asid ELSE 0

(* The pages of the shared segment that process 1 uses.                    *)
SharedIndex == {x.page : x \in {y \in Touches[1] : y.seg = KUSEG3}}

Sector == Index \X (0 .. PROCCNT - 1) \X {0, 1}

(* Where the hardware finds the entry of a virtual page: the one whose     *)
(* entryHi holds the page number, which test() sets so that the last entry *)
(* of a kuseg2 table is the stack page's.                                  *)
HasEntry(x) == IF x.seg = KUSEG2 THEN x.page # MAXKUSEG - 1
                                 ELSE x.page \in Index
Entry(x)    == IF x.page = KUSEG2LAST THEN MAXKUSEG - 1 ELSE x.page
PTE(a, x)   == pageTable[Table(a, x.seg)][Entry(x)]
Valid(a, x) == HasEntry(x) /\ PTE(a, x).valid

(* The frames a reference to x may reach.                                  *)
Reach(a, x) ==
    {f \in Frame : \/ Valid(a, x) /\ PTE(a, x).frame = f
                   \/ <<Table(a, x.seg), Entry(x), f>> \in staleTLB}

-----------------------------------------------------------------------------
(* Disk 0 (external).  A command runs until the disk completes it and its  *)
(* interrupt ends the SYS8 of the process that gave it.  There is no       *)
(* sector with a negative number: the disk answers with an error, which no *)
(* caller looks at.                                                        *)
Command(a, op, cyl, addr, sector, head) ==
    diskCmd' = [proc |-> a, op |-> op, cyl |-> cyl, addr |-> addr,
                sector |-> sector, head |-> head]

DiskCompletes ==
    /\ diskCmd # NOCMD
    /\ diskCmd' = NOCMD
    /\ LET block == <<cylinder, diskCmd.sector, diskCmd.head>>
       IN  /\ cylinder' = IF diskCmd.op = "seek" THEN diskCmd.cyl ELSE cylinder
           /\ disk' = IF diskCmd.op = "write" /\ block \in Sector
                      THEN [disk EXCEPT ![block] = ram[diskCmd.addr]]
                      ELSE disk
           /\ ram' = IF diskCmd.op = "read" /\ block \in Sector
                     THEN [ram EXCEPT ![diskCmd.addr] = disk[block]]
                     ELSE ram
    /\ UNCHANGED <<pc, semVars, i, pagerVars, garbage, written>>

-----------------------------------------------------------------------------
(* The state test() sets up before it creates the processes.               *)
Init ==
    /\ pc = [a \in Proc |-> IF a = 0 THEN <<"test", "create">>
                                     ELSE <<"none", "">>]
    /\ sema4 = [s \in Sema4 |-> IF s = masterSema4 THEN 0 ELSE 1]
    /\ waiting = [s \in Sema4 |-> <<>>]
    /\ i = [a \in Proc |-> 0]
    /\ old = [a \in Asid |-> NoFault]
    /\ frame = [a \in Asid |-> NOFRAME]
    /\ nextFrame = 0
    /\ frameSwapPool = [f \in Frame |-> Unoccupied]
    /\ pageTable = [t \in Proc |->
                       [k \in Index |-> [valid |-> FALSE, frame |-> 0]]]
    /\ staleTLB = {}
    /\ ram = [m \in Address |-> Blank]
    /\ disk = [b \in Sector |-> Blank]
    /\ cylinder = 0
    /\ diskCmd = NOCMD
    /\ garbage \in [SharedIndex -> BOOLEAN]
    /\ written = [t \in Proc |-> [k \in Index |-> Blank]]
=============================================================================
