# Kaya: models, model checks and proofs

Kaya is an operating system in C for the uMPS2 machine emulator, in three layers:
data structures (`src/kaya/phase1`), the nucleus (`phase2`), and a support level with
virtual memory (`phase3`). These modules model all three: phase 1 down to its pointers,
the nucleus on abstract queues, and phase 3 on what the nucleus promises. One processor runs everything; concurrency comes from interrupts, from
the scheduler's switching between processes, and from devices working on their own.

## Inventory

| part | source | state | operations | what makes it correct |
|---|---|---|---|---|
| process queues | `phase1/pcb.c` 87-219 | circular lists with a tail pointer | insertProcQ, removeProcQ, outProcQ, headProcQ | FIFO; a pcb is on one list at most, since the links are in the pcb |
| free list | `phase1/pcb.c` 32-87 | `pcbFree` | allocPcb, freePcb, initPcbs | a free pcb is on no other list; an allocated one carries nothing of its earlier life |
| process tree | `phase1/pcb.c` 227-321 | p_prnt, p_child, p_sib_next, p_sib_prev | insertChild, removeChild, outChild, emptyChild | the child lists hold exactly the living children |
| active semaphore list | `phase1/asl.c` | sorted descriptors between two dummies, a free pool | insertBlocked, removeBlocked, outBlocked, headBlocked | one queue per semaphore, a descriptor only while it has waiters |
| system calls, traps | `phase2/exceptions.c` | p_s, exception vectors, semaphores, processCount, softBlockCount | SYS1-SYS8, pass up or die | counters and semaphores agree with the queues, SYS2 kills a whole subtree and nothing else |
| interrupts | `phase2/interrupts.c` | semaphoreArray, the ready queue | local timer, interval timer, devices, terminals | the right waiter wakes, every request is acknowledged, the interrupted program goes on |
| scheduler | `phase2/scheduler.c` | readyQ, currentProcess | dispatch, HALT, PANIC, WAIT | round robin without starvation, HALT, PANIC and WAIT in the right situation |
| start-up | `phase2/initial.c` | all globals | main | |
| CPU time | `exceptions.c` 202-213, 398-412 | processStartTime, p_totalTime | IncrementProcessTime, SYS6 | time is charged to the process that used it, once |
| pager | `phase3/pager.c` | frame pool, page tables, swap mutex | UserTLBHandler | one owner per frame, a valid page is in its frame |
| user processes | `phase3/initProc.c` | master semaphore, device mutexes | test, uProcInit, readTape | all processes are waited for; mutexes are released |
| user system calls | `phase3/sysSupport.c` | device mutexes | WriteToTerminal, GetTOD, UserTerminate | the mutex of the terminal is released on every path |

How they interact: an exception or interrupt makes the processor load one of four new
areas; the handler runs with interrupts masked until it loads a processor state again
(`LDST`) or calls the scheduler, which never returns. The handlers share the globals of
`initial.c`. A process and a device share the device register; a device and the nucleus
share the semaphore of the device, which the process lowers by SYS8 and the handler
raises. Hard behaviour: the window in which the scheduler's idle path runs with
interrupts enabled; a device that completes before or long after its waiter is queued,
or when the waiter is dead; termination of a subtree whose members are running, ready
and blocked; pcbs that are used again. In phase 3: a page taken from a process that may
be running on it, with two mutexes held across three disk transfers, any of which lets
the other processes run.

## Modules

| module | models | how |
|---|---|---|
| `KayaState` | globals of `initial.c`, pcb fields of `types.h`, queues of `pcb.c` and `asl.c`, hardware state | constants, variables, list operations, `Init` |
| `KayaScheduler` | `scheduler.c` | `Scheduler(q, cur)` is the call at the end of a handler; the idle path is `SchedulerNull`, `SchedulerWait` |
| `KayaExceptions` | `exceptions.c` | one action per system call or trap |
| `KayaInterrupts` | `interrupts.c`, devices and timers | one action per interrupt, one per hardware event |
| `Nucleus` | all together | `Next`, fairness, the properties |
| `PcbRings` | `pcb.c` queues, `asl.c` list | the functions on linked structures, as operators on the pointer fields |
| `ProcLists` | | abstract specification: what phase 1 promises its callers |
| `Phase1` | `pcb.c`, `asl.c` | one action per function on the fields of pcbs and descriptors; refines `ProcLists` |
| `UserState` | globals and tables of phase 3, P and V, disk 0 | constants, variables, `Init`, address computations, the disk |
| `Pager` | `pager.c` | UserTLBHandler, one action per stretch between system calls |
| `SysSupport` | `sysSupport.c`, and programs as seen from it | WriteToTerminal, UserTerminate, what programs do |
| `InitProc` | `initProc.c` | test() and readTape |
| `UserProcs` | phase 3 all together | `Next`, fairness, the properties, the refinement mapping |
| `UserMemory` | | abstract specification: the memory a user process is promised |
| `CpuTime` | CPU time in `exceptions.c`, `scheduler.c`, `interrupts.c`, `pcb.c` | the clock, who is charged, SYS6 |
| `MCNucleus`, `MCPhase1`, `MCUserProcs`, `MCCpuTime` | | instances for TLC |
| `RingLemmas` | | lemmas: what the queue operations of `PcbRings` do to sequences |
| `ListLemmas` | | lemmas: the same for the ASL, the tree, and `Init` |
| `Phase1Proofs` | | the inductive invariant of `Phase1`, its theorems, and that it implements `ProcLists` |
| `NucleusProofs` | | lemmas on the queue operations, the inductive invariant of the nucleus and its theorems |
| `NucleusCounts` | | the theorems about the counters, and about who makes a process ready and with which context |
| `CpuTimeProofs` | | the theorems about CPU time |
| `UserExclusion` | | the theorems about the mutexes, test() and the frame pool |
| `UserKept` | | phase 3 implements `UserMemory`, and its types |

*Steps.* A handler cannot be interrupted, so it is one step, with its call of the
scheduler. Two places are cut. SYS2 is: one step per call of HoneyIKilledTheKids that it
enters (`KillChild`) and one for the rest of each call (`KillCurrent`, `KillReady`,
`KillBlocked`, which free the pcb), with the call stack in `killing`; nothing can come
between except hardware, but the invariants then speak of the tree in the middle of the
recursion. The idle path of the scheduler is cut wherever an interrupt matters:
`mode = "unmask"` after `setSTATUS`, `"nulled"` after `currentProcess = NULL`, `"wait"` at
`WAIT()`.

*Variables.* `readyQ`, `processCount`, `softBlockCount`, `currentProcess`, `pcbFree`,
`p_prnt`, `p_child`, `p_semAdd`, `p_s`, `newAreas` have the names of the source.
`procQ[s]` is the process queue of the descriptor of `s`, empty if `s` has none.
`semaphore` holds `semaphoreArray` at `0 .. DEVICECOUNT`, the pseudo-clock last as in the
code, and the semaphores of the programs. `oldAreas` always is set together with
`newAreas` and left out. A processor state is reduced to a program point `0 .. NCTX-1`;
`cpu` is the one being executed, `p_s[p]` the saved one. The order of the children of a
process is left out: SYS2 kills all of them.

*Phase 1.* The nucleus modules take a process queue as a sequence and the children of a
process as a set. `ProcLists` states that view: FIFO sequences, a queue per semaphore,
children with the youngest first, and `held`, the pcbs somebody has taken off a list.
`Phase1` has the fields of `types.h` (`p_next`, `p_prev`, `p_prnt`, `p_child`, the sibling
pointers, `p_semAdd`; the descriptors in `semds`) and every function of `pcb.c` and
`asl.c` that writes them, assignment by assignment. The refinement mapping follows the
pointers: a ring from its head to its tail is a queue, the ASL's descriptor of an address
is its queue, the sibling list is the list of children. Loops of the code that search
(`searchASL`, `outProcQ`, `outChild`) are the position they stop at. Callers are taken to
use the lists as the nucleus does: a pcb is put on a list only by who holds it, gets a
parent at most once between allocPcb and freePcb (`removeChild` leaves its sibling
pointers, and `insertChild` relies on their being NULL), and is freed without children.
insertBlocked's TRUE is part of the model and loses the pcb, as in BlockHelperFunction;
the refinement shows it does not come to that.

*Hardware (external).* `dev[d]` is "ready", "busy" after a command, "done" when its
interrupt is pending; only the ACK command takes it back to "ready". `itPending` and
`pltPending` are the timers' requests; loading a timer withdraws its request. Requests
are served by priority: local timer, interval timer, devices. Interrupts are taken at
any moment a process runs or the idle path has them enabled; a process may mask some, which only removes behaviours, except where the masking is the point (`IoRequest`).

*Broken states.* `mode = "fault"` is the nucleus dereferencing NULL; `"corrupt"` a pcb
being linked into two circular lists at once, after which the lists are not queues any
more and what the code does is not described. Both are final. The invariants about queues
except "corrupt" and say so; that it is reached is finding 1 below. That "fault" is reached
is finding 6, and `WaitEnds` excepts just that way of getting there (`LostWhileIdle`).

*What processes do.* The constant `Calls` selects what the processes of an instance do.
`Command(d)` followed some time later by `WaitForIo(d)` is how `p2test.c` drives a device;
`IoRequest(d)` is how phase 3 does, with interrupts masked from the command to the SYS8.

*Phase 3.* A step is the code from one system call to the next: a process can lose the
processor anywhere, but between two calls the handlers write one thing another process
can see at most, and that with the swap mutex held or with interrupts masked (the table
and TLB updates of `pager.c`). `pc[a]` is a pair of a function and a step in it:
"tape" is readTape, "fault", "evict" and "load" are UserTLBHandler, "print" is
WriteToTerminal, "exit" is UserTerminate, "user" the process's own program, "lost" a
processor sent to an address nobody set. Process 0 is test(), process n has asid n. The
nucleus is there as what it promises: P and V with a first in first out queue, SYS8 that
waits for the device's completion, SYS2, and preemption that loses nothing (which finding
3 says it does not keep; the two layers are checked separately, so phase 3 is judged by
its own code).

`pageTable[0]` is kuseg3PT, `pageTable[a]` the kuseg2PT of process a. `staleTLB` has the
translations the TLB may hold that the tables no longer do: what a store may reach is
`Reach`, the table's frame or a stale one. The content of a page is abstracted to its
owner, its entry and a version: 0 is the tape's, 1 and 2 are what its program stores. That is
enough to see a page that is somebody else's, or another one, or one that goes back to what it
was without a store, or a store that does not arrive. A process with asid 1 tests the valid bits of
`segTable->entries[0].kuseg3`, a pointer nobody sets (`pager.c:57`; line 162 uses
`entries[asid]`): `garbage` is any value of these bits. A write outside kuseg2PT, which
the stack page causes, is `Overrun`: it goes on, or traps and terminates the process.

Disk 0 does what it is told, except that a transfer with a sector that does not exist is
an error nobody looks at. The device registers of the terminals and tapes are each used by
one process, so a command and its completion are one step there; an error ends the call,
as in the code. `PROCCNT` is 1 in `const.h`, but all code and tables are written for more,
and the semaphores of phase 3 make no sense for one: the model has it as a constant.
`nextFrame` is kept modulo `POOLSIZE`.

`UserMemory` is the promise to a process: when its program starts, its private segment is
what was read from its tape, and from then on a page changes at each store of its own program,
at once, and with nothing else. To hold the code to *that* store, `UserState` has a history
variable `written`, which no guard reads: readTape sets an entry of it when a block
comes from the tape, and a program's `Store` when it stores. In `UserMemory`, `memory`, what a
process finds, may only change before the start, to what `written` has (`Load`: a block
reaches its page some time after it was read), and by `Store`, which changes both, and
`Start` needs the two to agree. So after the start they always do; a page that falls back to
an older version, or a store that changes nothing, is no step of it. The refinement mapping
`Memory` finds a
page in its frame while its entry is valid *and* while a handler that has just made it
invalid has not finished writing it to the disk (`BeingEvicted`), and on the disk
otherwise. The shared segment is left out of the promise, because the code keeps none: its
pages are written to sector -1, the owner taken as 0 (`pager.c:98`), and read from the
faulting process's sector (`pager.c:144`); and with asid 1, whose test for a page that is already
there reads `garbage`, a shared page can be loaded into two frames, after which the `^ VALIDON`
of an eviction turns a bit on. Therefore the process with asid 1 uses no shared page in
run `vm`, and `PoolMatchesTables` is stated for that.

The string a process prints ends with the page its EOS is on: the loop of WriteToTerminal
reads that too, so it may fault there (`PrintFault`), and ends once it is valid (`PrintEnd`).

*CPU time.* `CpuTime` keeps of scheduling only the moves between ready, blocked and the
processor. `processStartTime` is taken at each dispatch; the total grows at each end of a
turn, by IncrementProcessTime. `STCK` is the macro of `const.h`: the signed low word of
the clock over the time scale. Time goes on in handlers and programs alike: a handler's
time is charged to the process it interrupted, because the code takes no reading at its
entry. Where nobody is ready (`Idle`), interrupts are taken with the currentProcess of the
last turn or with NULL: `SchedulerNull` is the assignment in between, `PreemptIdle` the local
timer, which charges the freed pcb of the process that just terminated, or writes through
NULL. What the nucleus does after that is not described (`broken`, findings 4 and 6); that
the charge itself does no harm to those in use is checked. `HALF` is half the range of `cpu_t`.

## Runs

Bounds: `MaxSem` (a V or an interrupt does not raise a semaphore beyond it), `MaxSoft`
(SYS7 and SYS8 do not raise softBlockCount beyond it; it matters because of the leak in
finding 2), the number of pcbs, and `NCTX`. Three pcbs are enough for a parent, a child
and a grandchild, for a running process with a ready and a blocked one, for two waiters
on one semaphore, and for pcbs that are freed and used again; one semaphore of each kind
(user, clock, device) is enough since the code treats all of a kind alike. A deadlock
check is on in every run.

| run | expects | bounds | shows |
|---|---|---|---|
| `processes` | pass | 3 pcbs, 1 user semaphore, a disk and a terminal's receive half, both timers, 1.7 million states | TypeOK, OnePlace, CountIsLive, SemaphoreCountsWaiters, PanicIsDeadlock, NoOrphan, RequestsBalance, OnlyCompletionWakes, ClockReleasesAll |
| `context` | pass | 2 pcbs, 3 program points, vectors, 1 user semaphore, 1 device driven without masking, 1.9 million states | ContextKept, without quantum expiry; SemaphoreCountsWaiters |
| `fair` | pass | 3 pcbs, 1 device, both timers, 17,000 states | NoStarvation, and WaitEnds with the one exception that `crash` shows |
| `crash` | violation | as `fair` | SchedulerInvoked (finding 6) |
| `lists` | pass | 4 pcbs, 2 semaphores; 3 pcbs in use at a time for queues, 4 for the tree; 300,000 states | Implements (ProcLists), RingsDoublyLinked, AslSound, SiblingsLinked, OneList, TypeOK |
| `kill_ready` | violation | 3 pcbs, 1 semaphore | FreedIsUnlinked (finding 1) |
| `kill_clock` | violation | 3 pcbs, clock | WaitIsForSomebody (finding 2) |
| `preempt` | violation | 3 program points, local timer | ContextKept (finding 3) |
| `idle` | violation | 1 device, SYS2 | WaitHasNoneReady (finding 4) |
| `vm` | pass | 2 user processes, 2 frames, 3 entries per table, 1 tape block each, 113,000 states | MutexesAgree, PoolMatchesTables, TestWaitsForAll, MemoryKept, ServedIsValid, FaultServed, TestEnds, TypeOK |
| `cpu` | pass | 2 pcbs, a clock of 8 values (HALF = 4), 9 ticks, 5.4 million states | TimeAccounted, NoMoreThanRealTime, TypeOK |
| `stack` | violation | as `vm`, process 1 uses its stack | ServedIsValid (finding 5) |

`processes` and `fair` check device properties for programs that keep interrupts masked from a
command to its SYS8 and use one half of a terminal at a time, as all code of the
repository outside the tests does. Other programs are worse off, and no document of the
repository says otherwise: a completion that comes before the SYS8 is not acknowledged
(`interrupts.c:113`) and interrupts again at once; a character received while the
transmitter is busy is taken for the transmitter's completion (`interrupts.c:101`).
In `context` a process does separate them, so its completion may come early and interrupt again and
again: the semaphores still count their waiters. It leaves out the quantum; `preempt` shows why.

In `vm` three pages of two processes compete for two frames (one private page of process
1, which it stores into, one private and one shared page of process 2), so every frame
choice, the eviction of one's own and of another's page, of private and of shared ones,
and a wait for each mutex happen; process 2 faults while it prints, and both terminate at
any point of their programs. It also touches the page number whose entry belongs to the
stack page, for which the hardware finds no entry. Two processes are enough for a queue
at a mutex with one in it and one waiting; a longer queue is what the theorems of
`UserExclusion` are for. In `stack` the page number 9 stands for 0x3FFFF, beyond the table.

In `cpu` a clock of eight values wraps within the nine ticks, also within a turn; two pcbs
make a process that is charged, another that must not be, and a pcb that is used again.
The time scale is 1, the default of the machine. With `SCALE = 2` TLC finds
NoMoreThanRealTime violated (the reading jumps by less than the range of `cpu_t` when the
low word wraps, `const.h:169`, and SYS6 returns a negative number); there is no run for
it, since the scale is the machine's.

In `lists` a behaviour uses the queues or the tree (`use`): they are on different fields
and only allocPcb clears both, so nothing is lost but the product of their states.
`MaxInUse` leaves one pcb free in the queue behaviours; three pcbs make a ring with a
head, a middle and a tail, and four make a parent with a first, a middle and a last
child. Two addresses give descriptors at the front, the end and between. More of each
is what the theorems of `Phase1Proofs` are for.

Symmetry of the pcbs is used in the safety runs only.

### Fairness

`Fairness` in `Nucleus` assumes of the processor that it executes the nucleus's code
(`Kill`, `SchedulerNull`, `SchedulerWait`), of the hardware that the interval timer and
the quantum run out (both are always reloaded and count down) and that a device
completes what it was told, and of interrupts that a pending request is taken. The
lower-priority requests get strong fairness: they can be disabled again and again by a
higher one that is served first, and are taken when it is gone; the hardware never skips
a pending request on its own. Nothing is assumed of the processes, which may compute for
ever. `fair` leaves out termination: nothing in these two properties depends on it and
the state graph stays small.

No fairness can make up for a machine that is lost. In `fair` that happens in one way: a
quantum ends while the last runnable process blocks, and the interrupt finds the idle path
with no current process (finding 6). `NoStarvation` needs no exception for it, since nobody
is ready then; `WaitEnds` has that state, and no other fault or PANIC, as an alternative to
the end of the wait, and `crash` checks on the same instance that the state is reached.

`Fairness` in `UserProcs` assumes that disk 0 completes its commands and that test() and
the support code of each process go on when they can (weak fairness of `DiskCompletes`,
`test` and `Support(a)`). That is what `NoStarvation` and `WaitEnds` say the nucleus
does. Of the programs nothing is assumed; FaultServed and TestEnds hold whatever they do.
Weak fairness is enough because a process that waits for a mutex is in its queue and
is passed over by nobody.

### Findings

1. `exceptions.c:280`: a pcb that was blocked once keeps its p_semAdd, so SYS2 of an
   ancestor does not take it off the ready queue before it frees it.
2. `exceptions.c:289`: killing a clock waiter leaves softBlockCount too high, and the
   scheduler then waits where it says it panics.
3. `interrupts.c:250-252`: a preempted process resumes where it was last saved, not
   where it was preempted.
4. `scheduler.c:67-68`: on the idle path interrupts are enabled before currentProcess is
   cleared.
5. `pager.c:170`: the page number of the stack page is used as an index of the page table
   it is the last entry of, so the fault is never served and memory beyond the table is
   written.
6. `interrupts.c:250`: a local timer interrupt that became pending while the last runnable
   process blocked is taken on the idle path (`scheduler.c:67`; only line 69 sets the timer
   anew), where the handler writes through `currentProcess`, which is NULL: the scheduler is
   not invoked, as `interrupts.c:59-60` says it is, and the processes that wait never wake.

## Proofs

`tlapm` checks all theorems, for every value of the constants. Those about the nucleus
hold for any number of pcbs, semaphores, devices and program points, from
`NucleusAssumption` alone (finite set of pcbs, NULL distinct from everything, at most as
many terminals as units); those about phase 3 for any number of processes, frames, page
table entries and tape blocks, from `UserAssumption`; those about CPU time from
`ClockAssumption`; those about phase 1 for any number of pcbs and semaphore addresses,
from `RingsAssumption` (a finite set of pcbs; NULL is none of them, no descriptor, and
above every address). No bound on the counters is used in the invariant itself; `MaxSem`
and `MaxSoft` only need to be natural numbers.

| theorem | property |
|---|---|
| `Phase1Proofs!Phase1Types` | TypeOK of `Phase1` |
| `Phase1Proofs!RingsStayLinked` | RingsDoublyLinked |
| `Phase1Proofs!AslStaysSound` | AslSound |
| `Phase1Proofs!SiblingsStayLinked` | SiblingsLinked |
| `Phase1Proofs!PcbsKeepOneList` | OneList |
| `Phase1Proofs!Phase1Implements` | Implements (implements `ProcLists`) |
| `NucleusProofs!TypeCorrect` | TypeOK |
| `NucleusProofs!EveryProcessInOnePlace` | OnePlace |
| `NucleusProofs!NoOrphanIsLeft` | NoOrphan |
| `NucleusCounts!CountsEveryProcess` | CountIsLive |
| `NucleusCounts!SemaphoresCountTheirWaiters` | SemaphoreCountsWaiters |
| `NucleusCounts!PanicsOnlyInDeadlock` | PanicIsDeadlock |
| `NucleusCounts!DeviceRequestsBalance` | RequestsBalance, if OneRequest and OneHalf |
| `NucleusCounts!OnlyCompletionMakesReady` | OnlyCompletionWakes, if OneHalf |
| `NucleusCounts!ClockWakesAll` | ClockReleasesAll |
| `NucleusCounts!ContextsAreKept` | ContextKept, if no quantum expires |
| `CpuTimeProofs!CpuTimeTypes` | TypeOK of `CpuTime`, for any SCALE |
| `CpuTimeProofs!TimeIsAccounted` | TimeAccounted, if SCALE = 1 |
| `CpuTimeProofs!GrowsWithRealTime` | NoMoreThanRealTime, if SCALE = 1 |
| `UserExclusion!MutexesAreKept` | MutexesAgree, if PagesInTables |
| `UserExclusion!TestWaits` | TestWaitsForAll, if PagesInTables |
| `UserExclusion!PoolAndTables` | PoolMatchesTables, if PagesInTables and NoSharedPages |
| `UserExclusion!FaultsAreServed` | ServedIsValid, if PagesInTables and NoSharedPages |
| `UserKept!MemoryIsKept` | MemoryKept (implements `UserMemory`), if PagesInTables and NoSharedPages |
| `UserKept!SupportIsTyped` | TypeOK of `UserProcs`, if PagesInTables and NoSharedPages |

`PagesInTables` says that programs use only pages whose number is an index of the page
tables. It is there because of finding 5: after a fault on the stack page the handler may
die with the swap mutex held. `NoSharedPages` says that process 1, and the string that
processes print, use no shared page, because of `pager.c:57`. Without the first,
MutexesAgree and ServedIsValid are false; without the second, PoolMatchesTables and
ServedIsValid are. Run `vm` satisfies both.

`OneRequest` says that no process separates a command from its SYS8, `OneHalf` that of
each terminal the processes use the transmitter or the receiver. Phase 3 does both, with
`allowInterrupts(FALSE)` around each request and no use of a receiver. Without the first,
RequestsBalance is false (`interrupts.c:113`), without the second OnlyCompletionWakes
(`interrupts.c:101`). Run `processes` satisfies both. That no quantum expires is "TIMER"
\notin Calls, which run `context` satisfies; with it ContextKept is false, finding 3.

*The inductive invariant of the nucleus.* None of the properties is inductive alone. `NucleusInv` adds to
`TypeOK`, `OnePlace` and `NoOrphan`:

- `ModeOK`: a process runs exactly in modes "run" and "kill", and the pcbs on the call
  stack of HoneyIKilledTheKids are all in use, the first being the current process. On
  the idle path the current process is not in use.
- `Ranked(Nat)`: some function ranks every pcb in use above its parent, and the call
  stack is increasing. That is: the tree has no cycle, and a victim never is met twice in
  the recursion. Without it a state with a process that is its own ancestor satisfies all
  the rest, and its killer frees it twice. SYS1 keeps the ranking by giving the new pcb a
  rank above its parent's, which is possible since a free pcb has no children
  (`NoOrphan`).

The proof has one lemma per action, over lemmas about what the actions have in common:
the queue operations (the first lemmas of the module), a waiter moved to the ready queue, the current
process moved to a semaphore's queue, the scheduler, the freeing of a victim
(`ReapPlaced`, `ReapTree`).

`NucleusCounts` builds on that. `CountInv` is inductive given `NucleusInv` before and
after the step. Besides the properties it needs `SoftCover`: softBlockCount is at least
the number of processes on the queues of semaphoreArray. It is not equal, because of
finding 2; at-least is what PANIC needs to be right. `PanicFacts` remembers what the
scheduler saw when it panicked. Cardinalities are related to queue lengths by
`QueueCardinality`.

*The linked structures.* The invariant of `Phase1` is that the pointers stand for
something: `IInv` says that there are sequences `S`, one for pcbFree, the ready queue and
each semaphore, and child lists `K`, which they represent. `RingsOK` has each tail
pointer's ring be its sequence, forwards by p_next and backwards by p_prev, and no pcb on
two of them or held; `AslOK` a sequence of descriptors between the dummies in ascending
order, each with waiters, and one of free ones, together MAXPROC + 2; `TreeOK` the child
lists in both directions, with p_prnt; a free pcb has no children and is nobody's child;
and every pcb is held or on a queue (`Complete`). Every function is shown to change the
pointers as the operation of `ProcLists` changes the sequences: removeProcQ takes the
head, outProcQ the pcb wherever it is in the ring (head, tail, middle, or alone), the ASL
gains a descriptor where the search stops and loses it with the last waiter, outChild
takes a first, middle or last child out. An outBlocked of a pcb that is not on its old
semaphore's queue leaves everything as it is, and so is a stutter. For `Init`, initPcbs
and the loop of initASL, which fill their lists in an order that depends on where the pcbs
are, are given in closed form.

`use` is only a bound of the run: `EveryStep` does not look at it, and with a value other
than "queues" and "tree" the theorems are about callers that use both.

Two arguments stand in for what the prover lacks. `Chain`, which reads a list off the
pointers, is a recursive function; that the list is the path it finds is shown without
induction on it: a path from a node that avoids the visited ones is unique, and were there
a set of visited nodes from which none is found, there would be a largest such set
(`PathUnique`, `PathExists`, `ListIsChain`). And that insertBlocked finds a free
descriptor is a count: each descriptor between the dummies has a pcb on its queue, these
are different pcbs, the one to be inserted is none of them, so there are fewer descriptors
on the list than MAXPROC + 2.

*CPU time.* TimeAccounted is inductive with the types and with "the process in its turn
is on the processor". The argument is about the *debt* of a process, what it is accounted
for less what it used: every step changes it by a multiple of the range of `cpu_t`
(`WrapSame`, `SameDebt`), since STCK differs from the clock by one.

*The mutexes.* `Inv` of `UserExclusion` says for the swap mutex and the disk's (`MutexOK`)
that the queue has each process once, that those in the queue are at the point after the
P, that of the others at most one is between P and V, and that if none is, none
waits; the value follows. For the master semaphore (`MasterOK`) it says that its value is
the number of processes that have done their V less the P's of test(), never below -1, and
that test() is in its queue just if it is negative. Each handler's step is of one of four
forms, with a lemma each: it leaves a mutex alone (`Untouched`), passes over one it may
hold (`Pass`), does the P (`Gain`) or the V (`Release`).

*The frame pool.* `PoolInv` needs `Inv`, since it is the swap mutex that keeps two
handlers from replacing pages at the same time. It splits PoolMatchesTables into its two directions
and adds what a handler at each point knows: while it replaces a page, neither the page
in the frame nor the one it wants is valid (`ReplacingOK`); while it looks for a frame, a
private page it wants is not valid (`LookingOK`: nobody else loads it); once it is done it
is (`ServedOK`). Without `ReplacingOK` the `^ VALIDON` of the next eviction could turn a
bit on, without `LookingOK` a handler could load a page twice. `Kind` sorts the program
points by that.

*Who makes a process ready.* `RequestInv` adds to RequestsBalance that a device no process
uses stays ready (`OnlyUsed`), so that the half of a terminal whose status the handler
reads first is the half that is done. A killed waiter leaves both the request and the
semaphore where they are, and that is what makes the balance inductive: the interrupt
still to come raises the semaphore for nobody and takes it back to 0. ClockReleasesAll
follows from `CountInv`: the handler calls removeBlocked once per unit the semaphore is
below 0, and the queue is just as long. For ContextKept only `NucleusInv` is needed: that the
process a handler makes ready or stores the old area into is the one the counters and
queues say.

*CPU time, read by SYS6.* NoMoreThanRealTime compares two answers, so the invariant
`SeenInv` remembers for the last answer a time `u` the process had used then: the answer
is `u` up to multiples of the range of `cpu_t`, and what it used since is no more than the
time that passed. TimeAccounted then gives the same for the new answer. The types hold
for any time scale, since what can go wrong with a scale above 1 is a value and not its
range.

*The memory that is kept.* `MemoryIsKept` is the refinement, step by step: a store of a
program is the `Store` of `UserMemory`, a block that comes from the tape its `Read`, the end
of its transfer to the disk its `Load`, the end of loading its `Start`, and every other
step leaves `Memory` and `written` as they are. For the start, `WrittenInv` says that
the blocks of a process on the disk are those read from its tape, but for one that is
still in the buffer (`Copying`, `FileOK`). `KeptInv` is what the other steps need besides
`PoolInv`. The
command register of the one disk belongs to a process between its transfer's two calls
(`CommandOf`) and the arm is where that process moved it (`ArmOK`), or a block would be
written over another; the tape buffer has the block being copied (`TapeOK`); a process that
has not started owns no frame, so that loading changes its memory on the disk (`FreshOK`);
the entry of a page being evicted still tells its frame, so that its content counts as in
the frame until it is on the disk (`EvictOK`); a page that was read is the one on the disk,
when its entry becomes valid (`LoadedOK`).

*Types of phase 3.* Most types follow from the shape of the steps; those of the semaphores do
not. A P may lower a value and a V may raise it, and that the value stays in range needs
that no queue is longer than the number of processes (`QueueBound`: it holds each once)
and that of a terminal's mutex only its own process makes use (`TerminalOK`: its queue is
empty, and it is 0 just while the process prints, or serves a fault from within printing).
A process that ended while it printed keeps it, and no other can want it.

*Model-checked only.* NoStarvation, WaitEnds, FaultServed and TestEnds, since liveness
under fairness and ENABLED are beyond the prover. Every other property of a passing run is a
theorem.

## Not modelled, and why

The test programs (`p1test.c`, `p2test.c`, `diskTest.c`, `swapTest.c`): they run on the
system and are no part of it. The contents of processor states and device registers, the
computation of register addresses, and device errors other than an absent sector or a
failed character or block: data that the properties do not tell apart, and paths the code
does not have. What the shared segment holds: it is modelled, but there is no property of
it that the code could be held to, see above. The mutex of a terminal that a process keeps
when it traps while it prints: in the model; `TerminalOK` in `UserKept` says that nobody else uses
it. GetTOD reads the clock and changes nothing. SYS5 with an exception type out of range,
and a second semaphore at an address inside `semaphoreArray`: undefined or unused by the
code's callers. 2^31 page faults, after which nextFrame is negative. What the nucleus does
after it linked one pcb into two lists or charged a process that is not there. Build files, saved
copies and binaries: no behaviour.

## Plan

1. *Done:* the nucleus on abstract queues, its runs, its inductive invariant.
2. *Done:* the phase 1 lists at pointer level, shown to implement the sequences and sets
   used here, checked and proved. Left: that the nucleus keeps to the guards of `ProcLists`.
3. *Done:* phase 3: the pager and its mutexes, tape loading, user system calls and
   termination; the memory it promises as an abstract specification; mutexes, master
   semaphore, frame pool, the refinement and the types as theorems.
4. *Done:* CPU time, checked and proved.
5. *Done:* the nucleus's action properties and RequestsBalance as theorems.
6. An abstract specification of what the nucleus promises a process (ready, running,
   blocked, gone) which `Nucleus` implements, and its step simulation.
