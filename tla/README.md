# SW-Jungle: specifications, model checks and proofs

The repository collects the C course work of one SW-Jungle cohort: a week of web
pages, one of Python puzzles, and then data structures, a heap allocator, a web
proxy and four weeks on the Pintos kernel.  The kernel is where the hard
behaviour is: threads that are preempted between any two statements, lists
shared with interrupt handlers, priority donation, processes that wait for each
other.  `src/swJungle-pintos-week09~11` is its last state and the main subject
of this development; `src/swJungle-pintos-week07~09` is the same kernel two
weeks earlier and is superseded by it.

All paths below are relative to `src/swJungle-pintos-week09~11/` unless they
start with `src/`.

## Inventory

| Component | State | Operations | Interacts with | What makes it correct |
|---|---|---|---|---|
| Thread scheduler (`threads/thread.c`) | `ready_list`, `destruction_req`, `thread_ticks`, each thread's `status`, `priority`, `elem` | create, block, unblock, yield, exit, schedule, idle | everything; preempted by the timer interrupt | a thread is in the one list its status says; the CPU goes to the highest ready priority, equals take turns |
| Alarm clock (`devices/timer.c`, `thread.c` 644-684) | `ticks`, `block_list`, `endTick` | `timer_sleep`, `timer_interrupt`, `wake_up` | `thread_unblock`, interrupt return | nobody wakes early, nobody due is left asleep |
| Interrupt return (`threads/interrupt.c`) | `in_external_intr`, `yield_on_return` | `intr_handler`, `intr_yield_on_return` | `thread_yield` | the yield happens after the handler, never inside |
| Kernel lists (`lib/kernel/list.c`) | links inside the elements | insert (ordered), remove, max | all of the above | an element is in one list at a time |
| Semaphores and locks (`threads/synch.c`) | `value`, `waiters`, `holder` | down, up, try, acquire, release | scheduler; `sema_up` also from device interrupts | one owner per lock, no lost wake-up, highest waiter first |
| Priority donation (`synch.c`, `thread.c` 334-358) | `donations`, `priority_origin`, `wait_on_lock` | `donate_priority`, the restoring half of `sema_up`, `thread_set_priority` | locks, ready list | a holder runs at its waiters' priority and gives it back |
| Condition variables (`synch.c` 319-421) | list of `semaphore_elem`s on the waiters' stacks | wait, signal, broadcast | locks, semaphores | a signal wakes a waiter that was there, the highest first |
| Processes (`userprog/process.c`) | `fork_sema`, `sema_wait`, `sema_exit`, `child_list`, `exit_status`, `file_cur` | fork, exec, wait, exit | scheduler, system calls, files | a parent gets its child's status once; a child outlives its parent's read |
| System calls (`userprog/syscall.c`) | `fd_table`, `fd_idx`, `syn_sema` | 14 calls | processes, file system | descriptors are private, `syn_sema` is given back on every path, the calls behave like one store |
| Inodes and files (`filesys/inode.c`, `file.c`) | `open_inodes`, `open_cnt`, `removed`, `deny_write_cnt` | open, close, remove, read, write, deny/allow write | free map, directory | `open_cnt` is the number of openers; blocks are freed exactly at the last close of a removed file |
| Directory, free map (`filesys/directory.c`, `free-map.c`, `filesys.c`) | entries, bitmap | create, open, remove | inodes | a sector has one user; a name leads to one inode; what a create or remove has done is consistent wherever the machine stops |
| FAT, virtual memory (`filesys/fat.c`, `vm/*.c`) | - | bodies still to be written by the students | - | - |
| Page and block allocators, devices, boot (`threads/palloc.c`, `malloc.c`, `mmu.c`, `init.c`, `devices/*`) | free bitmaps, device queues | unchanged Pintos code | - | - |
| Heap allocators (`src/swJungle-MallocLab-week05`: `mm.c` buddy, `segregateList.c`, `explicit.c`, `nextfit.c`) | heap words, free lists | malloc, free, realloc | `memlib.c` | blocks never overlap, free lists hold the free blocks |
| Web proxy (`src/swJungle-WebProxy-week06`) | LRU list of cached objects, `cache_left` | read, write, push, pop | one detached thread per connection | the list stays a list, the size limit is kept |
| Data structure exercises (`src/swJungle-DataStructure-week04`) | trees, linked lists | insert, delete | - | order and colour invariants |

`src/swJungle-Algorithm-week03` (Python puzzles), `src/swJungle-week00` (a Flask
page) and the vendored parts (CS:APP's `csapp.c`, the malloc driver, the
file-system helpers of Pintos, all tests) are not modelled.

The hard behaviours are listed one by one, with their lines, in `PROJECT.json`
under `hazards`.  In short: a tick between two reads of a shared field
(`lock->holder` is read three times); lists that rely on being sorted by keys
that change; the one `elem` of a thread, shared by four kinds of lists; a thread
that exits while another list still links it; wake-ups that must not get lost;
and, above the kernel proper, protocols of several semaphores (fork, wait, exit)
where one party may be gone.

## Plan

1. `List`, `Threads`: scheduler and alarm clock.  *done; its safety proved*
2. `Synch`, `Mutex`: semaphores, locks, donation on top of `Threads`; the locks
   implement an abstract mutex.  *done; mutual exclusion, its refinement and the wake-ups proved*
3. `CondVar`, `Monitor`: wait, signal, broadcast; they implement a Mesa monitor.
   *done; its safety and its refinement proved*
4. `Process`, `Family`: fork, wait and exit with their three semaphores, as a
   protocol of its own without the scheduler.  *done; its safety proved*
5. `Filesys`, `Files`, `Store`: descriptor tables, `syn_sema`, inodes, directory
   and free map; the calls implement an abstract store that survives a restart.
   *done; its safety and its refinement proved*
6. `Heap`, `Allocator`: the four allocators over one heap of words; three of
   them implement an abstract allocator.  *done; their safety and the refinement proved*

Left: the red-black trees as an algorithm over bounded trees.

## Modules

| Module | Models | EXTENDS / INSTANCE |
|---|---|---|
| `List` | the list operations the kernel relies on, over sequences | |
| `Threads` | scheduler, alarm clock, timer interrupt, idle thread | `List` |
| `Synch` | semaphores, locks, donation, `thread_set_priority` | `Threads`, `Abstract == INSTANCE Mutex` |
| `Mutex` | what a lock promises its callers | |
| `CondVar` | condition variables | `Synch`, `Mesa == INSTANCE Monitor` |
| `Monitor` | what a condition variable and its lock promise | |
| `Process` | fork, wait, exit | `Promise == INSTANCE Family` |
| `Family` | what fork, wait and exit promise | |
| `Filesys` | inodes, directory and free map: the data and what each function makes of it | |
| `Files` | the system calls on files, step by step | `Filesys`, `S == INSTANCE Store` |
| `Store` | what the system calls on files promise | |
| `Heap` | `nextfit.c`, `explicit.c`, `segregateList.c`, `mm.c` | `A == INSTANCE Allocator` |
| `Allocator` | what malloc, free and realloc promise | |
| `MCThreads`, `MCSynch`, `MCCondVar`, `MCProcess`, `MCFiles`, `MCHeap` | instances for TLC | |
| `SchedulerProofs`, `SynchProofs`, `WaitersProofs`, `CondProofs`, `ProcessProofs`, `FilesProofs`, `SectorsProofs`, `HeapProofs` | lemmas and theorems | |

### Threads

There is one CPU.  Code that runs with interrupts off, up to and including the
switch in `schedule()`, is one action; between two statements that run with
interrupts on, the timer interrupt may come, and with it a switch.  `pc[t]`
names the statement a thread will execute next where that matters: `run` (between two
kernel calls), `unblock_child` and `compare_child` (inside `thread_create`),
`insert_block` (inside `timer_sleep`).  `current` is `running_thread()`; the
lists are sequences, front first.  `TimerInterrupt`, one `wake_up` per round of
its loop and `IntrReturn` are the external interrupt, during which no thread
runs; `intr` keeps the three together.

`schedule` and `do_schedule` are operators that take the statuses and the ready
list at their entry, so that `thread_yield`, `thread_block`, `insert_blockList`,
`thread_exit` and the yield at the end of `sema_up` are each one action that
contains the whole switch, the freeing of the dead included.  `thread_block`
frees nobody, as in the code.

What is abstracted: a page is never used for a second `struct thread`, so a
dangling pointer is recognised as one, and memory does not run out in
`thread_create`; `tid_lock`, taken and released inside `thread_create`, is left
out; `Init` is the state after `thread_start`, the idle thread already running
its loop; without `USERPROG`, `thread_exit` calls no `process_exit`.

### Synch

`Synch` adds what `struct thread` holds for donation, the semaphores (a lock is
a `Semaphore` with value 1 and a `holder`), and actions that interleave with all
of `Threads`.  The kernel is built with `-O0` (`Make.config`), so every read of
a shared field in code with interrupts on can be preempted: `lock_acquire`
and `donate_priority` become `LockAcquire`, `TestHolder`, `ComparePriority`,
`PushDonation`, `DonateStart`, `DonateSet`, `DonateTest`, `DonateNext`,
`SemaDown` and `SetHolder`.  `SemaDown` is one round of the `while` loop of
`sema_down`: a woken thread (`retry`) tests the value again before anything can
interrupt it.  The steps are cut between the uses of `lock->holder`; the loads
that one expression or statement makes of it and of what it leads to are one step (`curr->priority >
lock->holder->priority` in `ComparePriority`, `holder->priority =
thread_current()->priority` in `DonateSet`).  `sema_up` is one action with the wake-up, the restoring of the
donated priority and the yield; `InterruptUp` is the same operation in the
handler of a device, where the "running thread" is whoever was interrupted.

`fault` records that the code left what its language defines: it followed a
`NULL` holder or lock, linked a `donation_elem` that is in a live list already,
or reached a freed page: a donor on the walk of `list_find`, the last donor of
the list that `list_push_back` appends to, or the holder a chain has come to.
From then on nothing happens: an execution with a
fault is not used to show anything but the fault.

`list_push_back` on `donations` is one action although it runs with interrupts
on.  `list_max` over `donations` is called with `compare`, which reads
`donation_elem`s as if they were `elem`s: the key it sees is part of a pointer,
so the donor it picks is any of them (`RestoredPriorities`).

Client assumptions, in the guards: a thread does not acquire a lock it holds,
releases only what it holds, exits without locks, and takes locks in the order
of `Rank`.

### CondVar

`cond_pc[t]` says where a thread is in `cond_wait` or `cond_signal`, while `pc[t]`
goes on to say where it is in the `lock_release`, `sema_down`, `lock_acquire` or
`sema_up` that these call; so every interleaving of `Synch` is there.  The
`semaphore_elem` of `cond_wait` lies on the waiting thread's stack: the thread's
name names the element, and `WaiterSema[t]` its semaphore, which `CondWait`
initialises anew.  `CondElemLive` is about what that makes delicate: `cond_signal`
unlinks the element only after its `sema_up` has let the waiter run.

`compare_cond` compares the highest priorities in the waiters' semaphores.  A
waiter that has not got to its `sema_down` has an empty one; `list_max` then
returns the tail of the list, and the word that is read for a priority is the
`prev` of the head, zero (`CondKey`).  The comparisons of one `list_max` are one
action, and a broadcast is repeated signals.

`ImplementsMonitor` maps a thread to `waiting` from the moment its lock is free
and to `signaled` once its semaphore is up, whether or not it had reached
`sema_down` by then: the release and the wait are atomic to the clients, as the
comment of `cond_wait` says.  Client assumptions besides those of `Synch`: the
main thread creates the others, and waiting and signalling happen with the
monitor's lock held, which the code asserts.

### Process

Processes all have `PRI_DEFAULT` and are preempted anywhere, so `Process` drops
the scheduler: the steps of the processes interleave freely, and semaphores are
counters whose `sema_down` waits for a positive value, which is what the
`synch_semas` run shows of them.  A process is its tid; `pc` is the statement it is at,
`none` before its page exists and `freed` after.  `Copy` stands for all of
`__do_fork` up to its `sema_up`, since it only reads the parent, who is in
`process_fork` (`ParentStaysInFork` checks that); it may fail, and
`ForkOutOfMemory` covers the two early returns of `thread_create`.
`InitdOutOfMemory` is the same for `process_create_initd`, where either page may be
missing: for the copy of the command line, for the thread, or for its descriptor
table, in which case the thread exists and never runs.  `CallExit`
stands for every way into `call_exit` from user code; `Kill` for the exceptions
that end in `thread_exit` with `exit_status` as it was.  An exec that succeeds
changes nothing the module talks about, one that fails is a `CallExit`.

A thread that has died keeps its page until another thread enters `do_schedule`
(`Reaped`): when it dies itself (`LastDying`) or when it yields (`Yield`).  Blocking
frees nobody, since `thread_block` calls `schedule` directly, and the idle thread,
which only blocks, does not either.  So a thread that dies when all others are blocked keeps its
page for as long as they are, and `CollectedFreed` excepts the one that was the last to
die.

Not in `Process`: the descriptor table and the executable file (`Files`), the idle
thread, which also is in the initial thread's `child_list`, and the console lock.

### Files

`Filesys` holds the data: `disk` (a sector is an on-disk inode or data), `entry`
(the root directory), `free_map` and `inodes` (`open_inodes`), with one operator
per function of `inode.c` and `free-map.c`.  `Files` holds the processes and the
calls, and each step of a call is one action.

A call is cut where it waits for the disk, since that is where another process
gets in.  So `Create` allocates the sector of the inode, `CreateData` the data,
`CreateInode` writes both, `CreateLookup` and `CreateSlot` are the two scans of
`dir_add` and `CreateAdd` its write; `OpenInode` and `FillInode` are
`inode_open` before and after its `disk_read`; a write goes sector by sector.
`pc` says which step is next and `call` holds the locals, with `next` for where
an inner function returns to.  `open`, `exec` and `remove` share `Find`,
`OpenInode` and `FillInode` and part again in `Opened`.

What can fail, fails: `malloc` in `inode_open`, `file_open` and
`file_duplicate`, space on the disk and in the directory, a page fault in the
buffer of `read` and `write` (`page_fault` ends the process through
`call_exit`), and the machine, which may stop between any two steps
(`PowerOff`, also `call_halt`) and boot again with the disk as it is.

`image` (the program a process runs) and `abandoned` (a process has ended with
`syn_sema` down) are history variables; `lost` counts the open files nobody
points to, those `load` leaves behind.

Where the model is coarser than the code:

* Preemption by the timer inside a step is left out: two threads inside
  `bitmap_scan_and_flip` or in the middle of a list operation of `open_inodes`,
  and two `open_cnt++` at once.
* The free map is written to its file at every change; the memory and the disk
  copy are one variable, and a write that fails is an allocation that fails.
* One scan of the directory is a step; the memory for its bounce buffer is there.
* Lengths and positions are counted in sectors; a sector holds one value.
* A forked child that fails before it copies the descriptors does nothing to files.
* `file->deny_write` of a file in a descriptor table is always false, since only
  `load` denies writing, so the test of it in `call_write` is dead.
* `initd` whose load fails panics in the code; here it ends.
* Descriptors 0 and 1 (the console) are left out, and calls with a descriptor
  that is no index of the table, which `seek` and `tell` do not check.

`OrderlySpec` is the part of `Spec` in which one process at a time is between
what it has read in the directory and what it does with it (`Window`).  The code
has no lock that would guarantee this, and without it the promises fail:
`double_create` is the simplest way.  Inside the window everything else
interleaves: the files of one process are written, closed and released, and
others create and remove, while the second is anywhere in its call.

`ImplementsStore` maps a name to the inode its first entry leads to, the
contents of a file to its sectors on the disk as long as something refers to it,
descriptors to pairs of inode and position, and the file `load` has open to
descriptor 0.  A write is visible sector by sector and its position moves at the
end.  A crash is `Stop`: names and their objects stay, everything else goes.

### Heap

`Heap` is an array of words of four bytes, as in the code: tags, links and what
the client writes are in the same words, so an allocator that reads a payload as
a tag reads it here too.  An operation is a function of a heap; `mm_malloc`,
`mm_free` and `mm_realloc` have one definition, and the four files differ in
`SearchLists`, `insert`, `deleteExplicit`, `coalesce` and `place`.  Sizes are
counted in words of four bytes, and the class of a block is taken from its size in
bytes and capped where the code caps it, at the last root in `segregateList.c` and
two before it in `mm.c` (`LastClass`).  nextfit's search is two walks, from `next_p` to the
end and from the start up to `next_p` (`SearchRound`).

`GrowsOnlyWhenFull` is about the request `n` that a step serves: when that step
moves `brk`, no free block could hold `n` before.  `FailsOnlyWhenFull` says of every request
what `mm_malloc` would do in the state at hand: it returns `NULL` only if no free block
holds it and `mem_sbrk` has not the room that `extend_heap` asks for.  The client is the driver (`eval_mm_valid` in `mdriver.c`): it
fills every block `mm_malloc` gives it, over its links and up to its last byte,
with words that look like tags (`TagLike`), and remembers its size.  After
`mm_realloc` the driver fills the block again; the model leaves what was copied
there, so that a later step can still lose it.

`mem_sbrk` fails at `MaxBrk`.  `malloc(0)`, `free(NULL)` and `realloc(NULL, n)`
are left out: the first returns `NULL`, the code does not handle the others.

### Bounds

`MaxOps` (operations each thread starts), `MaxCalls` (calls all processes, or the
client of the heap, make), `MaxLost` (open files nobody points to), `MaxPos`,
`MaxBrk`, `MaxLive`, `MaxTicks` (the clock stands still
from that tick on, while time slices still end), `MaxValue` (of the free
semaphores), `SleepTicks`, `NewPriorities`, `TIME_SLICE` and `MaxTid` are constants of the
modules; the module that declares each says what it bounds.  `MaxOps`,
`MaxCalls` and `MaxTicks` do not cut an operation short: a thread always gets to
the end of what it started.

## Runs

| Run | Instance | Question |
|---|---|---|
| `threads` | 3 threads, 2 priorities, 2 ticks, sleeps of -1, 0, 1 and 2 | lists, dispatch, alarm clock; do sleepers wake and do equals take turns |
| `synch_semas` | 3 threads, a lock, a semaphore, a device, sleepers, `thread_set_priority` | types, one list per thread, no lost wake-up, highest waiter first; the lock implements `Mutex` |
| `synch_liveness` | 3 threads, 2 locks, nested by two of them | no deadlock; everyone finishes |
| `donation_quiet` | 3 threads, 3 priorities, 1 lock, no tick | donation arrives and is given back |
| `condvar` | 3 threads, a lock, a condition variable | no signal is lost; elements on stacks are live; the highest sleeper is signaled; implements `Monitor` |
| `process` | the initial thread, initd and 2 processes, exit codes -1 and 1 | pages stay while they are read; the parent stays in fork; implements `Family`; nobody stays blocked; collected pages are freed, but for that of the last to die |
| `files` | 2 processes, 2 names, 4 sectors, 2 slots, 2 descriptors, 6 calls, crashes | sectors have one user; counts match; `syn_sema` is kept; only a failed create or a crash leaks; implements `Store` |
| `heap` | `nextfit.c`, `explicit.c`, `segregateList.c`; a heap of 44 words, 6 classes, 3 blocks, 5 calls | tags and lists are exact; it grows, and fails, only when it must; payloads are disjoint; implements `Allocator` |
| `null_holder`, `executable`, `double_create`, `buddy` | see below | counterexamples |

Three threads are the least that make a donor, a holder and a third party; two
locks the least for a chain of donations; two or three operations per thread
let a thread take, release and take again.  `MaxTicks = 2` lets two sleepers be
due at the same and at different ticks while a third is preempted between
reading the clock and going to sleep.  `TIME_SLICE = 1` in the `Synch` runs puts a
possible preemption after every statement, which the real four ticks do not
exclude.  In the `Synch` runs with `MaxTicks = 0` the clock stands still but the
timer interrupt still ends slices.

In `condvar` the third thread makes two waiters at once possible, with the
signaller; the operations let the signaller lock, signal or broadcast, and one
waiter wait twice.  Four tids make a parent with two children and a grandchild,
in either shape.

`CHECK_DEADLOCK FALSE` is in the configurations of `Synch` and `CondVar` because the system
does stop: after a fault, and in `QuietSpec` when every thread has exited.  In `process` the machine is switched
off, or initd waits for a thread that never runs.  In `files` the machine may be off or
a process wait for ever for a `syn_sema` that went with another; the client of
`heap` has made its calls.

In `files`, six calls, booting among them, are enough to boot, fork and create in
either process, open what was created, remove it while it is open and close it,
or to crash and boot again half-way.  Four sectors are the program and its data,
and one more file with one data sector, so that allocation fails as soon as a
sector has leaked or is not yet released; two slots make the directory full.
`SomeGarbage` is an inode that names the sectors of the program: the worst that
an unread inode can hold.  In `heap`, with six classes, blocks of 4 words are in class 4 and all larger
ones in the last; the second chunk fits and a third does not, so that calls fail.
`buddy` has ten classes, or the cap of `mm.c` would put all blocks in one.  The requests
need 4, 8 and 12 of the 16 words of a chunk: blocks that split with and without a rest, and that fit only
after merging; three live blocks put a block in use on both sides of a free one.

`QuietSpec` (module `Synch`) has no ticks, no devices and no idle loop: a
thread is switched away only where the code itself blocks or yields.  It is a
part of the behaviours of `SynchSpec`, the part a test shorter than a time slice
sees; `donation_quiet` shows that donation works there for one lock.  It cannot
show more: a holder has only one list of waiters, so its priority never falls while somebody
waits, and there are no chains.  With two locks (`Lock = {A, B}` and `TwoLockRank` in
the same configuration) TLC finds both properties violated; how is told below.

### Fairness

`Threads`: the timer keeps ticking and its handler ends (`WF`), and the idle
loop reaches its next `thread_block` although ticks keep interrupting it
(`SF`: between any two ticks `idle` may find itself interrupted first).  Nothing
is assumed of the threads, which is why `SleepersWake` and `RoundRobin` hold
even against threads that never give up the CPU.

`Synch`: in addition each thread, scheduled again and again, takes a step, and
ends with its locks released and its `thread_exit`: the fairness is strong
because a tick disables a thread's step.  A device owes nothing.  Without that
assumption on the clients `EveryoneFinishes` says nothing about the kernel.

`Process`: a process inside the kernel that is not blocked gets on (`WF` for each),
which round-robin among equals justifies; what a process does in user mode is
its own affair.  Nothing is assumed of `Yield`: whether a slice ends, and so whether a
dead page is freed by it, depends on some thread other than idle being ready.

No liveness is claimed of `Files`: a process that ends with `syn_sema` down stops
every later `read`, `write` and `remove`.

### Disagreements between code and documentation

* `null_holder`: `lock_acquire` tests `lock->holder`, then reads it twice more
  with interrupts on; a tick in between, a release, and a `NULL` pointer is
  followed.
* `executable`: a forked child has no `file_cur`, so nobody denies writing to its
  program once the parent, which does, has ended; the child opens the file and
  writes to what it is running.
* `double_create`: `dir_add` looks the name up and writes the entry in separate
  disk operations, and `call_create` takes no lock; two creates of one name both
  succeed.
* `buddy`: `place` of `mm.c` halves a block down to the class of the size asked
  for, which is the logarithm rounded down: a request that needs 12 words gets a
  block of 8, and the next block begins inside the payload.  With it go
  `TagsConsistent`, `ListsExact` and `ImplementsAllocator`, within two calls, which is
  why `heap` leaves `mm.c` out.

More were met on the way and have no run of their own:

* A donor that is preempted between its comparison and its push enters the list
  of a thread that no longer holds the lock; no `sema_up` removes it, it exits,
  and the next walk of that list follows it into a freed page.
* A holder falls below its waiter.  Main holds `A` and `B`; one thread waits for `A` and
  donates; another of the same priority waits for `B`, is not above what main has
  been given (`synch.c:260`), and so is no donor.  Main releases `A` and falls back to its own
  priority, with `B` still wanted.  TLC finds this with two locks in `donation_quiet.cfg` and
  `HolderRunsAtWaiterPriority` restricted to states in which no donation is being made.
* A donation outlives its lock.  `a` holds `A` and waits for main's `B` at main's priority, so it
  is no donor; `b` waits for `A` and donates along the chain to main.  Main releases `B`: no
  waiter of `B` is among its donors, so nothing restores its priority, and main
  goes on at that of `b` without owning a lock.  With two locks in `donation_quiet.cfg` TLC
  finds `DonationRelinquished` violated so.
* `kill` leaves `exit_status` at 0, where the comment of `process_wait` (`process.c:277-279`)
  promises -1 for a process that was killed by an exception (page faults go through
  `call_exit` and do get -1).  In the model a `Kill` and a wait for the child are enough:
  `ret` is then 0 at `wait_up`, and no exit code of the run `process` is 0.
* After releasing one of two locks a thread may run at the lower of two
  remaining donations (`RestoredPriorities`).
* When `__do_fork` cannot copy the parent it ups `fork_sema` first and sets
  `exit_status` to -1 afterwards; a parent that reads in between returns the tid
  of a child that never started.  And a child that ends with -1 before its
  parent has read `exit_status` makes fork return `TID_ERROR`.
* A process whose parent never waits for it keeps its page, and so does the last
  thread to die before all others are blocked.
* A donation to a ready thread leaves `ready_list` unsorted, and `thread_set_priority`
  asks only the first donor.
* `call_write` with a bad descriptor ends the process with `syn_sema` down.
* A create that fails in `dir_add` does not give back the sectors of the data
  (`LeaksOnlyByUndo` allows exactly that).
* A second `inode_open` of a file that is being opened returns an inode whose
  data has not been read.

In the userprog kernel `page_fault` (`userprog/exception.c:145`) does not panic
but ends the thread that faulted; the fault is the same.

## Proofs

`tlapm` checks every theorem for all values of the constants that satisfy
`ThreadsAssumption`, `SynchAssumption` and, where threads are counted,
`FiniteThreads` (each has a page of its own), or, for the processes,
`ProcessAssumption`: tids are numbers from that of the initial thread to
`MaxTid`, exit codes are integers, and `None` is none of them.

* `ThreadsTypeCorrect`: `Spec => []TypeOK`.  The invariant is `TypeInv`: `TypeOK`
  and `ChildKnown`, that a thread inside `thread_create` has a child.
* `SynchTypeCorrect`: `SynchSpec => []SynchTypeOK`.
* `MutualExclusion`: `SynchSpec => []LockPermit`: at every moment the permit of a
  lock is in its semaphore or with exactly one thread.
* `LocksImplementMutex`: `SynchSpec => Abstract!Spec`, with the owner of a lock
  read off `holder` and the program counters of the threads that have taken the
  permit and not yet written `holder`, or cleared `holder` and not yet given the
  permit back.

The inductive invariant of the last three is `IInv == SynchTypeInv /\ LockPermit
/\ ReleasedHolderClear`.  `SynchTypeInv` adds to the types which locals are
known at which label (`LocalsKnown`: a thread that waits for a lock has it in
`obj`, a donor follows a chain that is not `NULL`).  `ReleasedHolderClear` says
that while a thread is between the two halves of `lock_release`, nobody is
holder: without it `LockPermit` is not inductive, since the sema_up of the
second half gives back a permit that a holder would still own.  `LockPermit` is
preserved because every action falls into one of three kinds (lemma
`OwnersStep`): it takes a permit that is there, gives
back one it owns, or leaves owners and values alone.

`SchedulerProofs` is about `Threads` alone.  It begins with what the list operators
return (positions, types), without induction: each is defined by a minimum or by
a recursive function on positions.

* `ThreadsElemExclusive`: `Spec => []ElemExclusive`: the one `elem` of a thread is
  in the list its status names, once, and in no other.
* `ThreadsDispatchHighest`: `Spec => DispatchHighest`: whoever gets the CPU has the
  highest priority of all that are ready.
* `ThreadsNeverWokenEarly` and `ThreadsNoneOverslept`: no sleeper leaves
  `block_list` before its tick, and when the handler returns nobody who is due is
  left in it.

They rest on `AloneInv == SchedInv(ThreadLabel, {}) /\ ReadyOrdered`.  `SchedInv(L, W)`
is the types with the labels `L`; `CpuInv`, what status, `current`, `ready_list` and
`destruction_req` say of each other; and `BlockedInv(W)`, that a blocked thread is
asleep, being created by the one thread that creates it (`UniqueCreator`), or a
member of `W`, and that `block_list` ascends by tick.  `W` are those blocked for
reasons the scheduler does not know: nobody when it is alone, the waiters of
semaphores below it.  `ReadyOrdered`, that `ready_list` descends by priority, is
what `DispatchHighest` needs and is kept apart, for a donation breaks it.  The
lemmas about the lists (`InsertReadyResult`, `InsertSleeperResult`, `AscendingTail`) say
that an ordered insert keeps order and elements.

`WaitersProofs` lifts this to `Synch`:

* `SynchElemIsExclusive`: `SynchSpec => []SynchElemExclusive`: the same with any
  number of semaphores among whose waiters a thread may be.
* `SynchHighestWaiterWoken`: `SynchSpec => HighestWaiterWoken`: whatever was donated
  while it waited, the waiter that `sema_up` wakes is one of the highest priority.
* `SynchNoLostWakeup`: `SynchSpec => []NoLostWakeup`: while threads wait, each permit
  belongs to a woken thread that will test it again.
* `LocksNeverDeadlock`: `SynchSpec => []NoLockDeadlock`: while a thread waits for a
  lock, some thread runs, is ready, sleeps until its tick or waits for a semaphore
  that is no lock.
* `SynchNoDeadlock`: where no thread sleeps and there are no other semaphores
  (`SleepTicks = {}`, `Sema = {}`), `SynchSpec => []NoDeadlock`.

The invariant is `ElemInv`: `SynchTypeInv`, `CpuInv`, `BlockedInv(Waiting)` and
`WaitersInv`, that a waiter is in `sema_down` of the semaphore whose list it is in.
The operations of locks and of `thread_set_priority` only move the thread that
runs (`Walks`), which by `CpuInv` is not waiting; left are `sema_down` and `sema_up`.
For the wake-ups `ElemInv` is used with the property itself: every step is
`Accounted`, a permit enters a semaphore that has waiters together with a woken
thread, and no more than one woken thread leaves with a permit.

Against deadlock `OrderInv` says that a thread that is dead, not yet started or
being created holds no lock and is in no call (`OwesNothing`), and that one on its way to a
permit asks for a lock that ranks above all it holds (`InOrder`).  Among the locks that are
waited for take one of the highest rank.  If its permit is in its semaphore,
`NoLostWakeup` gives a woken thread, which is not blocked.  Otherwise
`LockPermit` gives an owner, which is alive because it owes something, and which
waits for no lock: that lock would rank higher still.  So the owner runs, is
ready, sleeps or waits for another semaphore.  The last two are no flaw of the
locks, and they are why `NoDeadlock` itself needs the two assumptions, which are the
constants of the run `synch_liveness`.  That the set of locks waited for has a
highest one needs finitely many threads (`FiniteThreads`).

What is donated (`DonationInv`, for `QuietSpec`, one lock and no `thread_set_priority`, but
any number of threads, priorities and other semaphores):

* `QuietDonationReaches`: `QuietSpec => []HolderRunsAtWaiterPriority`.
* `QuietDonationEnds`: `QuietSpec => []DonationRelinquished`.

The hypotheses are what the code needs, not what the proof is short of: with ticks
or with two locks TLC finds both properties violated, and with `thread_set_priority` the
first (below).  `DonationRelinquished` may hold with `thread_set_priority`; on the instance of
`donation_quiet` TLC finds no counterexample.

`DonationInv` was checked by TLC on four threads, and on three with a semaphore and
sleeping, before it was proved.  `DonorsInv`: each donor of `u` wants the lock that `u` owns
and has more than `u`'s own priority, and a thread without donors has its own.
`OwnerInv`: nobody who waits for a lock, woken or not, outranks its owner.  `RunnerInv`
and `ChainInv` say the same of the donation that is being made, which only the running
thread can be in (`OnlyRunnerInside`).  The difficult step is that of a thread that
takes a free lock, for others may want it too and have donated nothing to it: by
`FreeLockInv` one of the highest of them has been woken, so it is ready or it is the
running thread itself; and by `ReadyInv` the running thread is not outranked by any
ready thread that owns no lock.  A donation raises a thread in the middle of
`ready_list` without moving it, so the list is in order only but for the owner
(`OrderedBut(ready_list, priority, Free)`); inserts by `InsertReadyOrdered` and the switch by
`SwitchOrdered` keep that much.  When `lock_release` ups the semaphore all donors are
among its waiters, `list_max` over the donors that are left never runs, and the running
thread yields to the waiter it woke because some donor outranked its own priority.

`CondProofs` is about monitors, and assumes `CondAssumption` too (a condition
variable has its lock, a thread its own semaphore):

* `CondTypeCorrect`: `CondSpec => []CondTypeOK`.
* `CondElemsLive`: `CondSpec => []CondElemLive`: `cond_signal` never reaches the
  element of a `cond_wait` that has returned.
* `MonitorExclusion`: `CondSpec => []LockPermit`: the locks exclude as before, though
  `cond_wait` gives its lock up and takes it again in the middle.
* `CondHighestAsleepSignaled`: `CondSpec => HighestAsleepSignaled`: the waiter that
  `cond_signal` chooses is not below one that is already asleep.
* `CondImplementsMonitor`: `CondSpec => ImplementsMonitor`: every behaviour is one of
  the abstract monitor, so no signal is lost and none is kept for later.

The invariant is `IInv /\ CondInv`.  `cond_signal` ups the semaphore of a waiter
and only then unlinks it, so the waiter may run before its element, on its stack,
is out of the list.  What saves it is `MonitorHeld`: who works on `cond->waiters`
holds the lock, which the woken waiter needs before it returns; so `IInv`,
whose `LockPermit` says that the lock has one owner, is needed inside this
induction.  `ElemsSound` says that each linked waiter still has a semaphore of value 0
(`Unsignaled`) or is the one a signaler is about to remove (`BeingRemoved`), and
`WaitersCalls` in which calls a waiter is, so that `pc` and `cond_pc` agree.

The choice itself is made in one step (`ChoiceStep`), where `list_max` returns a
greatest key (`MaxPosition`, of `SchedulerProofs`).  A key is the priority of a waiter
that is asleep, and at most that of one that is not yet (its semaphore is empty
and the key reads as `PRI_MIN`): so the chosen waiter, too, has at least its key.

The refinement needs a third conjunct, `SignalInv`, which follows the semaphore of a
waiter through its call.  It counts at most the one signal, and nothing as long as
the waiter is still giving its lock up (`Leaving`).  A waiter on which it is 0
(`Unsignaled`) is in `cond->waiters`, and the waiter that a signaler is about to
remove has been signaled.  By the first, a wait does not return before a signal;
by the second, there is always a waiter to signal where the list is not empty;
by the third, a second signal does not go to the same waiter (`ChosenUnsignaled`,
from `MonitorHeld` again: two signalers of one condition would both hold its lock).
Then `MonitorStep` has one case for each action: the `sema_up` inside the
`lock_release` of `cond_wait` is `Wait`, the `sema_up` of `cond_signal` is `Signal`, the
`sema_down` that takes the lock after the wake-up is `Return`, the steps of a thread
outside `cond_wait` that change the owner of a lock are `Acquire` and `Release` (the
lemmas `TakesAcquires` and `GivesReleases` of `SynchProofs`, shared with the refinement
of the mutex), and every other step changes nothing that clients see (`Unseen`).

`ProcessProofs` is about the life of processes:

* `ProcessTypeCorrect`: `Spec => []ProcTypeOK`, which bounds the three semaphores
  of a process by one.
* `ChildrenKeepTheirPages`: `Spec => []ChildrenHavePages`: whoever reads a child
  through `child_list` or `child`, finds its page.
* `ParentWaitsForCopy`: `Spec => []ParentStaysInFork`: a parent stays in
  `process_fork` while its child copies it.
* `ProcessImplementsFamily`: `Spec => Promise!Spec`, with the life of a process
  read off its program counter and its parent's list of children.

These four rest on one invariant, `IInv` of `ProcessProofs`.  `Numbered` says
that tids are given out in order, so a new thread is in nobody's list.
`ListsChildren` and `ChildKnown` tie `child_list` and the local `child` to
`parent_t`.  `ForkProtocol` says whose `fork_sema` is up and when.  The argument
is in `ExitProtocol`: a process that has ended is in one of three stages: its
`sema_wait` is up and nobody has waited for it (`Uncollected`), or its parent is
inside `process_wait` between the two semaphores (`InWait`), or its `sema_exit`
is up and it is in no list (`LetGo`); only from the last does it go on to die and
to lose its page.  `StatusRead`, that the status read by `process_wait` is that of
the child, is needed for the refinement: `Collect` answers with the child's code.

The theorems of `FilesProofs` are about the whole `Spec`, without the
restriction on the directory that the run has, and for any number of processes,
names, descriptors and sectors.

* `SynSemaGuards`: `Spec => []SynSemaKept`.  The inductive invariant `SemaInv` adds
  `ControlOK`: a process in `open_inode` or `fill_inode` knows what for, and one
  that releases sectors knows where it returns to.  Who holds the semaphore is
  read off the program counters and `call.next`, so each action either leaves the
  holders alone, takes the semaphore from 1 to 0 for one, or gives it up.
* `NothingOpenAboveIdx`: `Spec => []NothingAboveIdx`.  It is local to a process
  and proved only, no run checks it.  `IdxInv` adds what is known
  while a write is under way: its descriptor is open, and so below `fd_idx`, when
  the position is written back.
* `FilesTypeCorrect`: `Spec => []FilesTypeOK`.
* `OpenCountsMatch`: `Spec => []CountsMatch`.

The inductive invariant of the last two is
`FilesInv == FilesTypeOK /\ CountsMatch /\ LocalsOK`,
kept by every step of a state in which `SemaInv` and `IdxInv` hold too.
`LocalsOK` says what is known of the locals of a call at each label, that a
process which is not there has nothing open, and that no position of a file is
beyond what the disk can hold.  The types depend on the counts: an inode that a
descriptor, a call or a program points to has a positive count (lemma
`PointedAtOpen`), so the code never follows a `NULL` inode, and a count that is
lowered was not zero.  The counts are cardinalities; each action changes one
element of one of the three sets (lemmas `FilesSet`, `CallsGo`, `RunningSet`), apart from
`Fork`, whose duplicates are counted inode by inode (`ForkFiles`).  The proofs need that there are
finitely many processes (`FiniteProcesses`: each has a page of its own), that
`None` is no inode, entry or file (`NoneAssumption`, `NoFile`), and that there is
a descriptor at all (`LastFd > 0`).

`SectorsProofs` is about `OrderlySpec`, in which one process at a time is between
what it has read in the directory and what it does with it.  Without that the
properties are false (`double_create`).

* `SectorsHaveOneOwner`: `OrderlySpec => []SectorsOwnedOnce`.
* `SectorsLeakByUndo`: `OrderlySpec => LeaksOnlyByUndo`.
* `CallsImplementStore`: `OrderlySpec => ImplementsStore`: every behaviour of the calls is
  one of the abstract store, wherever the machine stops.  The restriction is in the
  statement: it excludes two creates at once, an open against a remove and a second opener
  of an inode that has not been read yet, and nothing in the code does.  What else
  the calls interleave is unrestricted: reads, writes, closes, forks, exits and releases.

`SectorsInv` is inductive together with the three invariants above.  `OwnedOnce` says of
all inodes and all calls, as owners, what the property says of those that hold
something now.  `InodeGood` ties an inode in memory to the one on the disk: they
agree once it has been read, before that no descriptor leads to it, and it is
marked as removed exactly when no name leads to it; that is why the last opener
gives back the sectors of a removed inode and no others.  `CallGood` says that
what a call remembers of the directory and the disk is still so: `dir_add` has
found an empty slot and still has it, `dir_remove` erases the entry it found.
`EntryOnce`, that no two entries lead to one sector, is what makes an inode
unlinked when its entry is erased.  A step hands sectors from one owner to
another, allocates some or releases some (lemma `Exchange`); `Kept` says of the
same step that nothing it had is left without an owner, and fails only for `Undone`.

The refinement rests on `SectorsInv`: an object changes only by a write to a file on it
because the sectors that a create fills with zeros, or another file's write goes
to, have another owner (`CreateInodeQuiet`, `WriteSectorStore`).  What it needs besides is
`StoreInv`: no two entries have one name (`NameOnce`), a create that has written its
inode has zeros in its data and, in the window, a name that nobody else has
(`CallKnows`), and a write under way has not fallen behind the position of its
file.  Every action has a lemma that says which step of `Store` it is, or that the
clients do not see it (`Quiet`): `dir_add` is `Create`, with the zeros of `inode_create`;
erasing an entry is `Remove`, and by `ObjectsGo` the object goes in that step only if
nothing else leads to it; an `inode_open` that finds the inode is `Open`, by the entry
that the call has read and that is still there (`CallGood`); closing a descriptor is
`Close`, the start and the end of a program `Load` and `Unload`, the plug `Stop`.  The
proof needs that `None` is no handle and no contents of a file (`NoHandle`).

`HeapProofs` is about every behaviour of `nextfit.c`, `explicit.c` and
`segregateList.c` (`Spec /\ kind # "buddy"`), for any size of the heap, any
`CHUNKSIZE`, any number of classes, any requests, and whatever the client writes:

* `TagsAlwaysConsistent`: `[]TagsConsistent`; `NoFreeNeighbours`: `[]Coalesced`;
  `ListsHoldTheFree`: `[]ListsExact`; `PayloadsNeverOverlap`: `[]PayloadsDisjoint`.
* `GrowthOnlyWhenFull`: `GrowsOnlyWhenFull`, for the request being served.
* `FailureOnlyWhenFull`: `[]FailsOnlyWhenFull`.
* `HeapImplementsAllocator`: `ImplementsAllocator`, with the contents of a block read
  off the words of the heap.

`HeapAssumption` asks that the chunk and the number of classes are even, as the
double words of the code make them, that there are at least four classes (so that the
class after `mm.c`'s cap exists) and a chunk holds a block, and that `mem_sbrk`
has room for what `mm_init` takes; when it has not, the program never starts. The
buddies of `mm.c` are excluded because for them it is false: `place` may give a block
that is smaller than the request, and payloads overlap (run `buddy`).

The inductive invariant `HeapInv` says that there is a set `B` of addresses, the
blocks, which no variable holds and no code computes, such that `B` fills the heap
from the prologue to the epilogue with a tag at both ends of each block (`Tiled`), no
two free blocks are neighbours, the lists hold the free ones (`Listed`), nextfit's
pointer is in `B` (together `Clean`), and the blocks in use are the client's, with
room for what it asked for (`Served`). The properties are read off walks from block
to block and along the links; the invariant is not, since a walk is a recursion and a
write in its middle changes all that comes after. `Listed` says of each free block
only that its neighbours in the list point back to it and that some rank falls along
each list: a list with a cycle has no rank, so lists that satisfy it end. The walks
are tied to the sets at the end: a path on which a rank falls comes to an end and
visits nothing twice (`PathEnds`, `PathFalls`), and by the pigeonhole principle
(`Pigeonhole`) it is no longer than the heap has words, which is the bound that
`Path` has; so `WalkIs` and `ChainIs` say that a walk lists the blocks and a chain
the free blocks of its class. These inductions are on numbers, and each is done by
the least or the greatest element of a set of counterexamples.

Each function of the code has a lemma that says what it makes of a clean heap:
`Deleted` and `Inserted` (only links of free blocks are written), `Replaced` and
`Retagged` (blocks between two addresses give way to others that fill the same
words), `Coalesces`, `Extends`, `Places`, `Finds`, `Mallocs`, `Frees`, `Copies`,
`Grows`, `Reallocs`. Each also says what it keeps: `Kept`, that the payloads of the
blocks in use have not changed, is what the refinement rests on, and holds because
tags and links lie outside them (`TagWords`, `PayloadWords`). `Finds` needs that a
larger size has no smaller class (`ClassGrows`), or a search from the class of the
request up would miss blocks. `Copies` needs that the block `mm_malloc` gives has
room for the request: `memcpy` may read past the payload of the old block, since the
size it is given counts the tags, but it writes no more words than were requested.

Model-checked only: liveness (out of the prover's reach), and what the runs that
expect a violation refute, the buddies of `mm.c` among it.

## Not modelled

* FAT and virtual memory: the bodies are still to be written.
* The web proxy: its cache is a list without a lock and a budget nothing lowers,
  so nearly every promise one could state fails once two threads meet.
* The data structure exercises: sequential, without failures to handle.
* Vendored and unchanged code: `csapp.c` (three copies), the malloc driver, the
  page and block allocators, drivers, boot code and library of Pintos, its tests.
* The week 7 to 9 snapshot of the kernel, which the modelled one supersedes.
* Of the modelled parts: page tables and the ELF loader, the console, the
  directory's own inode, `dir_readdir`, formatting, and the calibration of the
  timer.
