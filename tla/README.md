# TLA+ models of the ucore labs

The repository holds eight laboratory kernels, `Lab1` to `lab8`, each an extension of the one before
it, for one RISC-V CPU. This directory holds TLA+ models of the parts that carry their logic, TLC
configurations that check them on small instances, and TLAPS proofs of what holds for every
instance. A definition has the name of the function it models wherever TLA+ allows it;
`PROJECT.json` gives the file and the lines of each one.

The labs are course work in progress. Lab1 to lab5 are complete; in lab6 to lab8 some exercises are
still empty (`alloc_proc`, `proc_run`, the second half of `do_fork`, `load_icode`, the stride
scheduler, the condition variables of `monitor.c`, the block loop of `sfs_io_nolock`). The models
are of code that is there. Where a lab7 or lab8 component needs one of the empty functions, the lab5
version of it is what the model uses, and the section on the component says so.

## 1. Inventory

| component | state it keeps | operations | interacts with |
|---|---|---|---|
| trap and timer (`kern/trap`, `kern/driver/clock.c`) | `ticks`, `need_resched` | timer interrupt, exceptions, the way out of `trap()` | scheduler, `do_exit`, `do_pgfault`, `syscall` |
| processes (`kern/process/proc.c`) | process table: state, wait state, flags, family links, `proc_list`, `nr_process`, `current` | `do_fork`, `do_exit`, `do_wait`, `do_kill`, `do_yield`, `do_execve` | scheduler, physical memory, virtual memory |
| pid allocation (`get_pid`) | `last_pid`, `next_safe` | `get_pid` | reads `proc_list` |
| scheduler (lab5 `sched.c`; lab6/7 run queue, round robin; lab8 stride) | run queue, time slices | `wakeup_proc`, `schedule`, `sched_class_proc_tick` | processes, timers |
| timers (lab7/8 `sched.c`) | list of timers with relative expiry | `add_timer`, `del_timer`, `run_timer_list`, `do_sleep` | scheduler, wait states |
| semaphores and wait queues (lab7/8 `sync/sem.c`, `sync/wait.c`) | counter and queue of waits | `up`, `down`, `try_down`, wait queue functions | scheduler |
| dining philosophers (lab7 `check_sync.c`) | `state_sema` and five semaphores | take and put forks | semaphores |
| monitor / condition variables (lab7 `monitor.c`) | exercise left empty | | |
| physical page allocators (lab2 `default_pmm.c`, `best_fit_pmm.c`, `buddy_pmm.c`) | free list, page properties | `init_memmap`, `alloc_pages`, `free_pages` | everything above |
| small objects (lab2 `slub.c`, lab4 to lab8 `kmalloc.c`) | slabs, SLOB free list | allocate, free | physical pages |
| virtual memory (lab3/5 `vmm.c`, `pmm.c`) | `mm_struct`, `vma_struct`, page tables, page reference counts | `mm_map`, `do_pgfault`, `copy_range`, `unmap_range` | physical pages, swap |
| copy on write (lab5 `cow.c`) | shared page tables | `cow_copy_mm`, `cow_pgfault` | not called by lab5's `do_fork` |
| page replacement (lab3 `swap.c`, `swap_fifo.c`, `swap_clock.c`, `swap_lru.c`) | per-mm page lists | `swap_in`, `swap_out`, victim choice | page faults |
| files (lab8 `file.c`, `sysfile.c`) | file descriptor tables | open, close, read, write, dup | VFS |
| VFS (lab8 `fs/vfs`) | inode reference and open counts, device list | lookup, open, mount | SFS, devices |
| SFS (lab8 `fs/sfs`) | superblock, free map, inode cache, locks | load, create, reclaim, read, write | disk device |
| devices (lab8 `fs/devs`) | keyboard buffer and its wait queue | read, write | interrupts, wait queues |
| debugging, console, boot, libraries, user programs | | | |

What is hard about this code, and where the properties aim:

- Kernel code is not preemptive: between two calls of `schedule()` it owns the CPU. The order in
  which processes reach those calls is free, and almost every hard question is about a state that
  was read before `schedule()` and is used after it: the children a parent looked at, the
  `PF_EXITING` flag a killer sets while the target is not running, the semaphore handed over.
- A timer interrupt may come wherever interrupts are on: in user code, in kernel threads.
- Data structures that several functions edit by hand (sibling lists, free lists, the timer list
  with its relative expiry, `last_pid`/`next_safe`) keep invariants that no function checks.
- What fails half way: `exec` without memory, a file that grows until the disk is full, `open` that
  finds out late that it may not. Counts and links that have been changed by then must be taken
  back.
- Nothing is persistent before lab8, and there is no network, so crashes and lost messages are not a
  concern of labs 1 to 7. lab8 writes to a copy of the disk in memory, which never waits and never
  fails; what `sync` leaves there is checked.

### What makes each component correct

- Processes: the sibling lists stay well formed; every live process is in the list of its parent and
  in `proc_list`; nobody sleeps in `do_wait` for something that has happened already; a zombie is
  freed once, by its parent; kernel stack and address space go with the process; the assertions at
  the end of `init_main` hold.
- Pid allocation: no two processes share a pid, and the search ends.
- Scheduler, run queue, timers: exactly the runnable processes that do not have the CPU are queued;
  each sleeper wakes after its own number of ticks; nobody starves.
- Semaphores: units are conserved, whoever is killed or interrupted in the middle of `down`; nobody
  waits while there is a unit.
- Philosophers: neighbours never eat together, a hungry philosopher between two thinking ones eats.
- Page allocators: the blocks of the free list are the pages nobody has, in order and maximal;
  `alloc_pages` returns what first fit or best fit promises.
- Small objects: no piece of the heap is lost or given out twice, and all that touches is merged.
- Virtual memory, copy on write: a page's count covers the entries that name it, nothing is freed
  twice, and each process has a memory of its own.
- Page replacement: a page that was swapped out comes back as it was.
- Files and SFS: the counts of an inode cover every use of it; every block has one owner, in memory
  and on the disk that `sync` leaves.
- Keyboard: no reader sleeps while there is a character; the characters come in order, once each.

## 2. Modules

| module | models | source |
|---|---|---|
| `Process` | life cycle of processes and the lab5 scheduler | lab5 `proc.c`, `sched.c`, `trap.c`, `syscall.c` |
| `PidSet` | what the kernel expects of `get_pid`: a set of pids to take from | |
| `GetPid` | `get_pid` and its static variables; implements `PidSet` | lab5 `proc.c` |
| `Sched` | run queue, round robin, `wakeup_proc`, `schedule`, timer list (operators and the steps of the timer interrupt) | lab7 `sched.c`, `default_sched_c.c` |
| `Semaphore` | `up`, `down`, `try_down`, wait queues; extends `Sched` | lab7 `sem.c`, `wait.c` |
| `Alarm` | what the timer list stands for: one countdown for each process | |
| `Sync` | processes that use semaphores and timers in any order, are killed and exit; extends `Semaphore`, its timer list implements `Alarm` | lab7 `proc.c`, `trap.c` |
| `Philosophers` | the dining philosophers with semaphores; extends `Semaphore` | lab7 `check_sync.c` |
| `FreeList` | first fit and best fit on the `next` and `prev` links | lab2 `default_pmm.c`, `best_fit_pmm.c`, `libs/list.h` |
| `Slob` | `kmalloc`, `kfree` and the SLOB heap | lab5 `kmalloc.c` |
| `Memory` | what address spaces promise: each process has a memory of its own | |
| `Vm` | areas, page tables, page counts, `exec`, `fork`, `exit`, page faults, copy on write; implements `Memory` | lab5 `vmm.c`, `pmm.c`, `cow.c`, `proc.c` |
| `Swap` | page faults with swapping, FIFO, clock and LRU; implements `Memory`, each operation its own action, as long as it runs | lab3 `swap.c`, `swap_fifo.c`, `swap_clock.c`, `swap_lru.c`, `vmm.c`, `pmm.c` |
| `Sfs` | the mounted file system and the counts on inodes, as operators | lab8 `kern/fs/sfs`, `vfs/inode.c` |
| `Files` | system calls on files, over `Sfs` | lab8 `file.c`, `fs.c`, `kern/fs/vfs`, `proc.c` |
| `KeyQueue` | what standard input is to its readers: a bounded queue | |
| `Keyboard` | console ring, stdin buffer, wait queue and readers; implements `KeyQueue` | lab8 `console.c`, `dev_stdin.c`, `wait.c` |
| `MCSync`, `MCVm` | symmetry sets and programs for TLC; the other runs use the modules as they are | |
| `ProcessProofs` | theorems about `Process` | |
| `SemaphoreProofs` | what the operators of `Sched` and `Semaphore` do to run queue, timers and wait queues | |
| `SyncProofs`, `PhilosophersProofs` | theorems about `Sync` and `Philosophers` | |
| `FreeListProofs` | theorems about `FreeList` and `Slob` | |
| `DiskProofs` | theorems about `Swap`, and about `Files` with `Sfs`: what is kept on a disk | |
| `VmGetPidProofs` | theorems about `Vm` and `GetPid`: memory and pid of a process are its own | |
| `KeyboardProofs` | theorems about `Keyboard` | |

A definition `Bug_x` is the definition `x` with a plausible mistake; it is used nowhere but in the
mutation runs that `PROJECT.json` lists under "mutants", which show that the property named there
notices the mistake.

**Process.** A `proc_struct` is named by its pid, and a pid is any free member of `Pids`; that this
is sound is what `GetPid` shows. `state`, `wait_state`, `parent`, `cptr`, `optr`, `yptr` and so on
are the fields, `proc_list` is the order of the list without its head, `mm` and `kstack` are the
sets of processes that own an address space and a kernel stack. `pc` says where a process continues
when it gets the CPU. Kernel code that a user process runs is not interrupted, so an action is the
code from one `schedule()`, trap or loop turn to the next: `wait_sleep` is the end of a pass of
`do_wait` up to `schedule()`, `wait_ret` what follows when it returns. `do_exit`'s loop over the
children is `reparent`, once for each child. User programs make any system call at any time. Memory
may run out wherever it is asked for (`sys_fork_fails`, the second disjunct of `do_execve`,
`init_main_fails`).

**GetPid.** One action per turn of the loop. The two calls that change `proc_list` come in between:
`set_links` right after `get_pid` (interrupts are off in `do_fork`), `remove_links` of any entry.

**Sched, Semaphore, Sync.** lab7 leaves `proc_run` and parts of `do_fork` as exercises; what the
models need of them is only that `schedule()` gives the CPU to the process it picked. A kernel
thread runs with interrupts on except between `local_intr_save` and `local_intr_restore`, so `down`
is cut at exactly these places: `down_waits` (state SLEEPING, in the wait queue), `down_schedule`,
`down_returns`; likewise `do_sleep`. The timer interrupt comes in between. It runs to its end
(`tick`) before anything else happens. In user processes it comes in user mode only. `trap_exit` is
the end of `trap()`. Of `do_exit` only the state ZOMBIE and `schedule()` are here, the rest is in
`Process`. `AlarmSpec` asks beside the refinement that `do_sleep(n)` starts the countdown at its own
`n`, that an interrupt counts all of them down by one, and that only the return of `do_sleep` may
cancel one (`Counted`).

**Philosophers.** `check_sync` has created the threads; each call of `down`, `up` or `do_sleep` is
an action. A user process computes and may kill any philosopher, which cuts a sleep short.

**FreeList.** A page and its list entry are the index of the page, the list head is -1. `link` has
`next` and `prev` as the code leaves them, so a list that is broken is broken in the model as well.
The loops are walked link by link because the insertion loop changes the list under its own feet.
`Roomy` restricts the callers: with it, the last page of memory is never handed out.

**Slob.** An address is the number of a unit. `heap` holds what is written in the headers, `units`
and `next`, and `slobfree`; a link may point anywhere, and `Walk` follows the ring as the loops do.
`align` is 0 in every call. `SlobAssumption` names the sizes that no caller asks for and for which
the code is wrong: 0 bytes; the sizes between the two limits of `slob_alloc` and `__kmalloc`
(`PAGE_SIZE` - 32 to `PAGE_SIZE` - 17), which fail the assertion at `kmalloc.c:100`; and the sizes
so little above a power of two of pages that the shifts of `find_order` drop the difference (for
`2^k` pages, less than `2^k` bytes more), which gives an order that is one too small. A call is one
step, as interrupts are off.

**Vm.** The state is a record, so that the functions are operators that turn one memory into the
next and an action is their composition, with every early return. `vm.left` counts the pages that
are free beside those that processes map: `alloc_page` may fail at any of its calls when it is 0.
After the boot's checks `swap_init_ok` is 1 and an `alloc_page` that finds nothing calls
`swap_out(NULL)`: the model stops with `panic`. The test of `vmm.c:446` on a present entry is that
of the write bit of `error_code`. `Builds` says whether the kernel has `cow.c` in it. The refinement
mapping `mem` reads the memory of a process through its page table; a page that has no entry yet is
`Undef`, as no process may depend on what it finds there. `MemorySpec` asks for more than that each
step is some step of `Memory`: by `Kept` each operation does what its own action of `Memory` may do.
A page fault, `cow_pgfault` included, leaves the contents of every page in use as they are, and only
a store changes one.

**Swap.** The list of swappable pages is kept as its links, `prev` and `next`. `HeadVisited` is what
`le2page(head)->visited` reads: the list head lies so that this is a part of `swap_out_seq_no`,
which `check_swap` has set to -1, neither 0 nor 1. `visited` is set by the kernel only. With LRU the
first page fault follows a NULL link (`swap_lru.c:31`) and the model stops. A page's swap entry is
its number plus one; `swap_offset` panics for an entry that the disk does not have
(`max_swap_offset`, which `swap_init` demands to be 7 or more), so the kernel stops when such a page
would have to go out. `SwapKeeps` asks of each operation what its own action of `Memory` may do: a
fault leaves the contents of all pages as they are, also of those that it sends to the disk or
brings back.

**Sfs, Files.** A mounted file system is a record; the operators of `Sfs` are its functions. Between
two calls an entry of a file table is `FD_NONE` or `FD_OPENED`. Names are left out: a call finds the
inode it finds, or none. `sfs_io_nolock` is an open exercise that moves no bytes; a write is what
`sfs_io` does around it, and the file extends up to the end of the write. Truncation, extension and
reclaiming are one step each, because the disk never waits. `load_icode` is an open exercise too:
`exec` gives up the old address space and then succeeds or fails; a missing program makes it fail
after `put_files` like one that cannot be loaded. Reading changes nothing that is kept here, but
`read` and `seek` on a descriptor of a directory meet a NULL operation and fail an assertion.

**Keyboard.** The interrupt takes a burst of characters into the console ring, which has no test for
full, and then one character into the buffer of stdin. `dev_stdin_read` keeps interrupts off from
its first look at the buffer to the wait queue, so that is one step. `wakeup_flags` and membership
in the wait queue are kept, because a killed reader is runnable and still queued. A killed reader
may also begin to read: `trap()` tests `PF_EXITING` before it calls `schedule()`.

## 3. Runs

| run | instance | states | shows |
|---|---|---|---|
| `process` | 3 pids below initproc, `MAX_PROCESS` 5, fair | 295 thousand | sibling lists, process list, wakeups, assertions, stacks and address spaces; zombies are freed by their parents; nobody starves, initproc reaps, killed processes that are woken end |
| `get_pid` | `MAX_PID` 7, `MAX_PROCESS` 6, fair | 12 thousand | pids are unique, the search ends, `PidSet` is implemented |
| `sync` | a kernel thread, 2 user processes, 2 semaphores of 1 unit, sleeps up to 2, slice 2 | 256 thousand | run queue, wait queues, units, timers; `Alarm` is implemented |
| `sync_live` | 3 user processes, 1 semaphore, fair | 19 thousand | `down` and `do_sleep` return, round robin is fair |
| `philosophers` | 4 philosophers eat twice, 1 user process, fair | 308 thousand | mutual exclusion, no forgotten philosopher, the dinner ends |
| `free_list` | 5 pages, requests up to 3, both managers, last page free, fair | 301 thousand | both allocators are right and their loops end |
| `free_list_full` | 6 pages, requests up to 3, first fit | | **violated:** pages handed out twice |
| `slob` | an arena and 3 pages of 6 units (`PAGE_SIZE` 12, `SLOB_UNIT` 2), blocks of 1, 3, 12 and 13 bytes, 4 at a time | 25 thousand | the heap is whole, its blocks are disjoint and merged |
| `vm` | 2 processes, 14 pages, tables of 2 entries, programs of one or two segments and a stack, with and without `cow.c` | 33 thousand | counts are right, `Memory` is implemented, faults leave pages in use as they are |
| `swap` | 5 pages, one without a swap entry, in 3 frames, FIFO, clock, LRU | 71 thousand | no fault changes what is in a page, and the kernel stops only where it is said to |
| `files` | 1 file, 2 directories, a disk of 3 blocks, 1 direct and 2 indirect entries, 2 processes with 2 descriptors | 334 thousand | counts cover uses, blocks have one owner, `sync` leaves a whole file system |
| `keyboard` | 2 readers, console ring of 3, buffer of 2, bursts of up to 3, 4 keys | 104 thousand | no reader is forgotten, `KeyQueue` is implemented |

### Bounds

- `process`: three pids below initproc are a parent with two children, or a chain that dies from the
  middle; initproc adopts orphans beside children of its own, up to three in its list, so that the
  youngest, a middle and the oldest sibling are removed. `do_fork` meets its limit of five.
  `Watched` is the one pid that the liveness properties are checked for: the pids are alike, and a
  symmetry set would not be sound for them. The invariants of this run are proved for every number
  of pids (section 4).
- `get_pid`: `MAX_PID` 7 against `MAX_PROCESS` 6 is the tightest choice the `static_assert` allows:
  five of six pids are taken when the search is hardest.
- `sync`: three processes on a semaphore are an owner and two that wait; a second semaphore shows
  that units do not move between them. Sleeps of 1 and 2 give timers with equal, shorter and longer
  expiries on three processes; a time slice of 2 can be half used.
- `philosophers`: four (the code has five) are the smallest table where two that are not neighbours
  can eat together and a hungry one has a neighbour on either side that it shares with another; each
  eats twice so that it comes back. `SLEEP_TIME` and the time slice are 1, which makes the ticks
  coincide the most.
- `free_list`: five pages hold three blocks that do not touch, or a block freed between two others;
  requests up to 3 of them split, fit exactly, and fail.
- `slob`: 1 byte takes two units with its header, 3 and 12 bytes take more, 13 go to whole pages;
  the arena and three pages are joined into one ring, and four blocks leave a hole between
  others.
- `vm`: two frames would do for a parent and a child that share one page; four let both have a page
  of their own and one read-only page. The 14 pages run out in the middle of every call. Tables of
  two entries make the area of a program and its stack lie in one table and cross into a second.
  `MaxRef` bounds the count that `cow.c` lets grow.
- `swap`: two pages more than frames make every fault on a missing page swap another one out, and
  two pages lie on the disk at a time. `max_swap_offset` is 7, that of the 56 sectors of the disk
  (`ide.c:13`, `swapfs.c:15`); of the pages 1, 2, 3, 4 and 6 the last has no entry.
- `files`: a file takes its direct block, its indirect block and one behind it, which fills the disk
  of three blocks, so every extension can fail at each block. Two processes share descriptors by
  fork and directories by chdir. `MaxRef`, `MaxOpen` bound the counts that `Reclaimed` and
  `ExitDestroys` below let grow without end; the descriptors 0 to `FirstFd` - 1 are taken by
  standard input and output.
- `keyboard`: a burst of 3 fills the console ring exactly, the buffer of 2 overflows, and two
  readers compete. `MaxKeys` ends the typing.

Deadlock is checked except in five runs: in `process` the machine stops when `init_main` returns
(`initproc exit`) or fails; in `vm`, `swap` and `files` the kernel may stop at an assertion or a
fault that the model names, see below; in `keyboard` the readers wait when the last key has been
read. An assertion of `free_pages` that failed would show up both in `FreeOK` and as a deadlock.

### Fairness

- `Process`: kernel code makes progress (weak fairness of `Kernel`); a timer interrupt that asks for
  a reschedule comes again and again while user code runs (strong fairness of `QuietTrap(TRUE)`,
  since user mode is left at each system call), and in kernel code with interrupts on
  (`TimerInKernel`). Nothing is assumed of user programs: they need not exit or wait.
- `GetPid`, `FreeList`: the loops run with interrupts off, so only weak fairness of their turns.
- `Sync`, `Philosophers`: the interrupt handler runs to its end; the kernel code of the current
  process gets on and the clock ticks, both under strong fairness, because each is disabled for a
  moment by the other. `Sync` also assumes that critical sections end (`sem_up`), which the users of
  semaphores owe; the philosophers need no such assumption.
- The other modules state no fairness and no liveness: a call of `Slob`, `Vm`, `Swap` or `Files` is
  one step, and whether a reader of `Keyboard` gets a character is up to who types.

### What is violated

`PagesDistinct`, in `free_list_full`. The insertion loop of `default_free_pages` lacks a `break`
after it has added the block at the end of the list. Its next turn finds the block itself there and
calls `list_add(base, base)`, which leaves `base->prev == base`. Later the block is not unlinked by
`list_del`, so its pages are handed out twice. The condition is that a block is freed that lies
above all free blocks, so the kernels do not meet it as long as the top of memory is free:
`free_list` shows that then the allocators are right. `best_fit_free_pages` has the same loop. The
same link also makes the block fail to merge with the free block before it, and an insertion in
front of it leaves a cycle in the list.

### Properties that the code does not have

Some definitions state what a comment promises and the code does not keep. No run lists them; each
is violated when it is added to the run of its module, with the constants that are named here.

- `KilledDies` (`Process`; `proc.c:57` "do_kill --> wakeup_proc --> do_wait --> do_exit"). `trap()`
  tests `PF_EXITING` before it calls `schedule()`. A process preempted there and killed while
  another one runs goes back to user mode; if its next trap is `wait()` it sleeps in `do_wait`,
  which tests the flag after `schedule()` only. A second kill is refused with `-E_KILLED`. What does
  hold is `KilledEnds`.
- `KilledLeaves` (`Keyboard`). A reader that a kill has woken is still in the wait queue; a key that
  comes before it runs sets its `wakeup_flags` to `WT_KBD` (`dev_stdin.c:59`), and it reads on and
  may sleep again with `PF_EXITING` set.
- `NoPageLost` (`Vm`). `copy_range` allocates a page for every page that `fork` copies and, when it
  shares, neither uses nor frees it (`pmm.c:369`). With a program whose segments lie in two page
  tables, `exit_range` frees a page directory that still holds a page table of another area: an
  entry outside the range does not count when `free_pd0` is determined (`pmm.c:329`).
- `PagesReadable` (`Vm`). `do_pgfault` takes `PTE_U` alone as permission in an area without
  `VM_WRITE` (`vmm.c:416`): the entry is valid and cannot be read, so the process faults on it for
  ever.
- `RefsExact` (`Vm`). `cow_pgfault` clears the entry before `page_insert` (`cow.c:129`), which then
  does not drop the reference of the page that was copied. `RefsRight` says what remains: the count
  is never too low, and exact without `cow.c`.
- `SizeAsserted`, `DirtyMarked` (`Files`, with `Files = {2,3}`, `Dirs = {1}`, `NData = 4`,
  `SFS_BLK_NENTRY = 2`, one process, `NFD = 1`, `FirstFd = 0`, `Positions = {1,3}`). `sfs_truncfile`
  leaves its loop when the disk is full without setting the size (`sfs_inode.c:912`): the blocks
  stay with the old size, and the next truncation to it fails `assert(tblks == din->blocks)`
  (`:903`). The inode changed in the loop is not marked dirty when its indirect block was there
  already. The image `sfs.img` is 480 kB, so a disk that is full is within reach.
- `Reclaimed` (`Files`). `vfs_open` returns `-E_EXISTS` for `O_CREAT` with `O_EXCL` without giving
  back the reference of `vfs_lookup` (`vfsfile.c:46`), so the inode stays in memory.
- `ExitDestroys` (`Files`). `put_files` is inside the `if (mm != NULL)` of `do_exit` (`proc.c:511`);
  an `exec` that fails after it gave up its address space gets there with `mm == NULL` and keeps its
  files open.

Two more have no definition. A burst of exactly `CONSBUFSIZE` characters makes the console ring look
empty (`console.c:22`); `KeyQueue` starts behind the ring. And `_lru_map_swappable` takes a page out
of a list that it was never in (`swap_lru.c:31`), so LRU stops at its first fault, which `SwapKeeps`
allows; the kernel selects the clock.

## 4. Proofs

Everything below is checked by tlapm for every value of the constants that satisfies the named
assumption of the module: `ProcsAssumption` of `Process`, `PidAssumption` of `GetPid` (the
`static_assert` of `get_pid`), `SchedAssumption`, `SyncAssumption` and `PhilosophersAssumption`
(finite disjoint sets of threads and processes, positive time slices and sleeps),
`FreeListAssumption`, `SwapAssumption` and `KeyboardAssumption` (positive sizes, the managers that
there are, at least the 7 swap entries of `swap_init`), `SlobAssumption` (a page is a number of units, `bigblock_t` takes more than one unit, and
none of the sizes that section 2 names), `VmAssumption` (sizes are positive, there are finitely many processes, and areas are not
empty and lie in the address space), `SfsAssumption` and `FilesAssumption` (finitely many processes
and inodes, at least one process and one directory, the root, and positive sizes). Two components need a hypothesis on a constant beside it, which stands in the theorems:
`Roomy` for `FreeList`, `HeadVisited \notin {0, 1}` for `Swap`; each is explained below.

`VmGetPidProofs`, for `GetPid` with every `MAX_PID > MAX_PROCESS >= 2`:

- `UniquePids`, `FreePid`: `PidInv` is `TypeOK`, `GapOK`, `ReturnsFreePid` and `PidsUnique`. `GapOK`
  is what makes it inductive: no pid in the list lies strictly between `last_pid` and `next_safe`,
  in the loop so far as the loop has looked. It survives `do_fork`, which adds `last_pid` itself,
  and `do_wait`, which only removes.
- `PidRefinement`: every step of `GetPid` is a step of `PidSet` or leaves pids and their number alone;
  that `Give` takes one away uses that the pids in the list are distinct.

`ProcessProofs`, for every set `Pids` and every `MAX_PROCESS >= 2`:

- `Typing`, `WaitState`, `ProcList`. `IInv` adds two things to `TypeOK` and `WaitStateOK`. `RunOK`:
  the current process is runnable, or is the zombie in `do_exit`'s loop, and idleproc and initproc
  do not end; without it `wait_sleep` could be thought to run in a zombie. `Listed`: `proc_list` is
  the live processes without duplicates; the bound on `nr_process` and the guard of `do_fork` then
  give `nr_process \in 2..MAX_PROCESS`. The cardinality in `ProcListOK` follows from `Listed` by a
  bijection (`ListedCounts`). The step proof has a step for each action; what `schedule` and the
  list changes do are lemmas (`ScheduleRunnable`, `SetLinksListed`, `RemoveLinksListed`).

Its second part, for the same constants, has `Links`, `Wakeups`, `Asserts`, `Resources` and the
action property `Reaped`. `LinksOK` alone is not inductive: links could also form a ring beside the list
that `cptr` begins, and `do_wait`, which follows `optr`, would miss the zombies in it. `FInv`
therefore adds

- `ByAge(f)`: some numbering `f` of the processes gives the first child of each process 0, grows by
  one along `optr` and gives no two siblings the same number. So a process with no first child has
  no child at all (`NoFirstNoChild`: the least number among them would have a younger sibling). The
  numbering is not a variable: the invariant says that one exists, and `ForkTree`, `AdoptTree` and
  `RemoveTree` construct the next one for `set_links`, the loop of `do_exit` and `remove_links`.
- `Lineage(g)`: generations `g` grow from parent to child and begin at initproc, which is the only
  child of idleproc. At the end of `init_main` the youngest generation of what is left must then be
  initproc itself, which gives its assertions on `nr_process` and `proc_list`.
- `Search(f)`: what `do_wait` has seen: the cursor is a child of the current process, and no child
  with a smaller number is a zombie; where it goes to sleep there is a child to wait for and none of
  those is a zombie. This is the link between the list and `NoLostWakeup`, and between `wait_found`
  and `Reaped`.
- `Places`: which process may be at which place, and the owners of stacks and address spaces.

`SemaphoreProofs` has lemmas on `wakeup_proc`, `schedule`, the timer list and the wait queues, and
the theorem `ScheduleEffect`. On them rest

- `SyncProofs`: `RunQueueAlwaysOK` and `UnitsAlwaysConserved`. The invariant is a conjunction of
  `Scheduling` (who is runnable, queued or has the CPU), `Typing`, `Located` (which semaphore a
  process wants or holds at each place), `Waiting` (a process in `down` sleeps on a semaphore until
  `up` has marked its `wait_t`), `Queued` (the entries of a wait queue are distinct, are in `down`
  for that semaphore and are not marked yet) and `UnitsConserved`. `Waiting` is what a kill or a
  timer could break: a process woken by anything but `up` would take a unit it was not given.
- in the same module `WaitQueuesAlwaysOK` and `TimersAlwaysOK`, with two more parts. `QueuedAsleep`
  is the converse of `Queued`: who is asleep on a semaphore is in a wait queue, and nobody waits for
  a semaphore that has a unit. `Timed` says that the timers are those of processes in `do_sleep`, at
  most one for each, and one for each that is still asleep: `del_timer` after a kill finds the timer
  that the interrupt has not removed.
- `AlarmRefinement`: the timer list with its relative expiries implements `Alarm`, one countdown for
  each process, with each operation doing its own part (`Counted`). The time a timer is due is the sum of the expiries up to it, which the model writes
  as a recursive function. `Due(timer_list, d)` says that `d` grows along the list by the expiries;
  `TicksAre` and `LeftIs` show, by induction over the positions, that `d` is what the recursive
  functions compute. `add_timer` splits an expiry, `del_timer` joins two, a tick takes one off the
  first: each step says what the new `d` is. Between two ticks every `d` is positive.
- `NoAssertFails`: `AInv` adds to all this `Blocked`, which says for what a process may be waiting,
  and that there was no panic so far. That no timer is overdue at a tick follows from the due times.
- `PhilosophersProofs`: `NeighboursAlwaysApart` and `ForksAlwaysGranted`. The invariant has the same
  parts, and `Forks` instead of `UnitsConserved`: it ties `state_sema`, the semaphore of each
  philosopher and its place together. A unit of `s[i]` is there, handed over or used exactly while
  `state_sema[i]` is EATING; a philosopher away from its forks is THINKING, so that `phi_test_sema`
  never finds an old EATING.
- in the same module `MutexAlwaysFree` and `NobodyForgotten`. `Mutex` says that who is inside the
  critical section has the CPU, because a kernel thread gives it up in `schedule()` only; so
  `down(&mutex)` finds a unit and nobody waits in its queue. `Served` says that a hungry philosopher
  between two that do not eat exists only between the two calls of `phi_test_sema` in
  `phi_put_forks_sema`, and is the one that the second call is for.

`KeyboardProofs`, for every set of readers, every burst and all sizes of the two buffers:

- `NoReaderEverForgotten`, on an invariant of three parts: `RingOK`, the characters in the console
  ring are keys; `Typed`; `Waits`, who sleeps is in the wait queue, once, and has found the buffer
  empty, and who is in the queue has not been woken by a key.
- `QueueRefinement`: every step is one of `KeyQueue` or leaves the queue alone. What `cons_intr`
  leaves in the ring after a burst is a fold over its characters; `FoldsExists` and what follows it
  show by induction which places it has written. The queue is the buffer from `p_rpos` to `p_wpos`,
  taken modulo its size, and `Places` says that positions less than a lap apart do not meet.

`FreeListProofs`, for every number of pages: `ListAlwaysWhole`, `AlwaysCoalesced`,
`AllocAlwaysFits` and `PagesAlwaysDistinct`, each under the hypothesis `Roomy`, that is, while the
callers leave the last page of memory free. The hypothesis is needed: without it `free_list_full`
violates `PagesDistinct`, the same formula that `PagesAlwaysDistinct` proves with it. The parts of
the invariant are

- `Linked`: along `next` the list leads from each entry to the next higher one and back by `prev`.
  It speaks of neighbours only (`NoneBetween`), so that an insertion and a removal change it at one
  place. While `free_pages` works, the block to be inserted is in the bitmap but not in the list.
- `Covers`: the blocks do not overlap and hold exactly the pages that nobody has, and `nr_free` is
  their number. What the callers have includes the block that `alloc_pages` is about to return.
- `Merged`: only the block that is being freed may touch another one, and only until its loop turn.
- `Allocating`: the page chosen so far is the best among those that the loop has passed (`Best`), so
  that it is `Fit` at the end. `Freeing`: there is an entry above the block until it is inserted,
  which is where `Roomy` comes in: the loop never inserts at the end of the list.

In the same module, for `Slob` with every number of pages, size of a page and set of sizes that
`SlobAssumption` admits: `SlobInvariant` and `SlobHeapOK`. `HeapInv` names the free blocks, `R`, that
the ring holds, and is a conjunction of

- `RingOK(h, R)`: each free block leads to the next higher one in `R` and the highest to the arena
  (`Follows`), and no block ends where another one begins. It is about neighbours, so an insertion
  changes it at one place. That the set which `Walk` reaches is `R` is a consequence: a walk stays in
  `R`, is back where it began after at most as many steps as there are addresses, by the pigeonhole
  principle (`WalkReturns`), and has then been everywhere, since it can skip no block (`WalkRound`).
- `Tiles`: the free blocks, the small blocks with their headers, the entries of `bigblocks`, the big
  blocks and the unused pages are parts with a first address and a length, which fill the memory
  behind the arena and do not overlap. A part also says what kind it is and whose, so that no two
  owners can be one part: this gives the count of pieces that `HeapOK` demands.
- `HeapRecords` and `RoomEnough`: no address has been given twice, and each block is as long as the
  size that was asked for, which for a big block is a fact about `find_order` (`OrderIs`).

The step proof rests on `Exchange`: parts that fill an interval may be replaced by others that fill
the same one. `SlobFree` replaces a block and the free neighbours it touches by one free block,
`SlobCarve` a free block by a block in use and what is left of it, `SlobAlloc` combines the two when
the heap has to grow, and a big block takes the parts of its pages. `SmallCall`, `BigCall` and
`FreeCall` put together what a call does, `kmalloc_big` with the entry that it gives back when there
are no pages left included. `kfree` decides by the address alone whether a block is big; that it
finds the right one is what the disjointness of the parts is needed for.

`DiskProofs`, for `Swap` with every set of pages, number of frames and size of the swap disk:
`SwapInductive` and `MemoryKept`, which says of each operation that it does to the contents of the
pages what its own action of `Memory` allows, and of each stop of the kernel that it is LRU's or
comes with a page that has no swap entry while no frame is free. The
invariant says that the links of the listed frames form a ring which the head is in and has company
in (`Ring`), and that a frame that is not free holds the page its `pra_vaddr` names and that this
page's entry names it (`Mapped`). What needs an argument is that the walk of the clock ends at a
frame. `WalkIs` shows that the recursive `Walk` does what one turn of the loop does. Every frame the
walk has passed has its bit cleared (`Passed`), so it would stop when it came there again; and after
`NFrames` + 2 steps it must have been somewhere twice, by the pigeonhole principle (`ClockFinds`).
If that was the head, the frame behind the head was visited twice. This needs that the word that is
read for the head's `visited` is neither 0, at which the walk would stop with no page, nor 1, and
that is the hypothesis: the head lies where `check_swap` has stored -1. So the victim is a frame
with a mapped page, and all that can be missing is its swap entry. That a page finds on the disk
what it took there follows from `Mapped`, as every page has an entry of its own. With LRU the first
fault stops the kernel (`LruStops`).

In the same module, for `Files` with every finite set of processes, inodes and blocks and all sizes
of inodes, indirect blocks and file tables: `FilesRefsCovered`, `FilesBlocksOwnedOnce` and
`FilesSyncSaves`. All three follow from `FilesInv`, which `FilesInvariant` shows to be inductive. It
claims nothing once an assertion of the kernel has failed (`Quiet`), as the three properties do.

- `Own` is ownership by place. `Number` gives the block number that stands at a place of a file
  (direct, indirect, or an entry of the indirect block); two places never hold the same number, and
  a block is free exactly when it stands nowhere. `BlocksOwnedOnce` counts instead of naming places,
  and follows by a bijection from the places in use to the blocks in use.
- `Clean`: an inode that is not dirty names the same blocks as its copy on the disk; it says so only
  of the block numbers, because the sizes on the disk may be older. With `super_dirty \/ saved = ...`
  this is why the disk is whole after `sfs_sync`, and it is what a step that forgot to mark an inode
  or the superblock dirty would break.
- `Counted(f, h, w)`: the reference and open counts of `f` cover `h` descriptors and `w` other uses.
  `HoldersOf` and `CwdsOf` compute these two from the tables between calls. Inside a call the counts
  are ahead of the tables or behind them, and the lemmas of the VFS functions say by how much.
- Each function of `Sfs` has a lemma: what block a call takes or gives back (`Own` changes at one
  place), and that nothing changes in other files. The turns of `sfs_truncfile` and the loops over
  `fd_array` are recursive functions in the models; that they exist and what they keep is an
  induction over the turns. A truncation that fails half way leaves `Good` behind like one that does
  not. Then one lemma for each system call, and `FilesStep` puts them together.

`VmGetPidProofs`, for `Vm` with every finite set of processes, every set of programs and all sizes:

- `AlwaysWhole`: the invariant `Whole` has the types, `Good` and `Settled`. `Good` are the books: who
  maps a page (`EntryOf`), its `page_ref`, the free pages, the permissions and the number of pages
  left, counted together with those that serve as tables (`Purse`). `Settled` says that a page that a
  process maps lies in one of its areas; without it `exit_mmap` could leave a mapped page behind.
- Each function of `vmm.c` and `pmm.c` has a lemma that says what it leaves of the books, of the
  images of the processes and of the areas, and that nothing changes for other processes. The loops
  over pages, page tables and areas are folds in `Vm`; each of them is an induction, over the subsets
  of what is to be done (`Shrinking`) or over the prefixes of the areas (`UpTo`).
- The states inside a call are described by what they keep from its start. In `load_icode` the other
  processes are untouched and a mapped page has an area (`Loading`). In `copy_mm` only permissions of
  the parent change (`Dupped`), and the child has the pages of the rounds so far (`Shares`). In
  `exit_mmap` the pages of the rounds so far are mapped no longer (`Cleared`).
- `RefsAlwaysRight` follows, and `MemoryRefinement`: `MemOf` is the memory a state stands for, and
  `StepKept` shows of each operation that it is its own action of `Memory` for this mapping, a page
  fault or a copy on write that of a fault. With
  `cow.c` counts are bounds only, which is enough for `Sole`: who may write a page maps it alone.

Only model-checked is liveness, which needs fairness and ENABLED. Every invariant and every
refinement that a passing run checks is stated by a theorem.

The library's induction theorems take an operator as a parameter and cannot be cited. Induction is
done instead over a set of numbers (`UpTo` in several modules), whose least missing member is taken.

## 5. Not modelled

- Buddy system and slub of lab2: challenge exercises that no kernel selects, and without a correct
  state to start from. `buddy_free_pages` merges with its buddies but files the block under the
  order it began with (`buddy_pmm.c:98`), takes the stale size of a block in use for that of a free
  one (`:85`), and `buddy_init_memmap` lists a block past the end of memory when the size does not
  divide it (`:32`). `allocate_slab` counts objects without room for the header (`slub.c:27`) and
  lets the last one reach past the page.
- Monitors (`cond_signal`, `cond_wait`), the stride scheduler, lab7's and lab8's `do_fork` and
  `proc_run`, `load_icode` and `sfs_io_nolock` of lab8: empty exercises. There is no code to be
  faithful to.
- Exceptions other than page faults, the tick counter, the SBI calls and page table hardware: their
  effect on the modelled state is a free choice (`TimerInterrupt`, `Touch`).
- Directory lookup, path names, pipes and the devices other than stdin: they change no count or
  block of the modelled state. No call of the source creates or removes a name.
- Boot, console output, debugging, drivers, libraries, user programs and build tools: initialisation
  in one order, or pure input and output.

The labs are successive copies of one kernel: most functions appear in four to seven directories
with few or no changes, next to the headers of the processor (`riscv.h`, `x86.h`) and the libraries,
copied as often. A definition is mapped to the one copy it was translated from, which is why the
mapped lines are a small part of all lines although the logic of the labs is covered.

## 6. Plan

What could still be modelled: `wakeup_queue` and `wakeup_first`, which no caller uses, and the
composition of `Keyboard` with the run queue of `Sched`.
