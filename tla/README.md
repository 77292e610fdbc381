# tiny-kernel-v2: specifications, model checking and proofs

tiny-kernel-v2 is a small Unix-like kernel for one CPU, x86 or ARM (raspi2b).
The kernel is not preempted: a process in the kernel gives up the CPU only in
`yield()`. Interrupts do come between any two of its instructions while the CPU
accepts them. The repository has no tests; this directory states what the
kernel's parts promise and checks it. Paths below are relative to `src/`.

    tlc -workers 2 -config MCProc.cfg MCProc.tla      # one of the runs below
    tlapm ProcProofs.tla                              # the proofs

## 1. Inventory

Each part with its state, its operations, whom it calls, what is hard about it
and what makes it correct. `PROJECT.json` has the same list with sources, and
every hazard at its line.

**Process table and scheduler** (`kernel/proc.c`). State: 64 slots (`state`,
`pid`, `parent`, `wait_obj`), `next_pid`, `s_cur_proc`. Operations: `proc_alloc`,
`scheduler`, `sys_fork`, `sys_exit`, `sys_wait`, `sleep`, `wakeup`. It calls the
page allocator, VM, file layer and the architecture's context switch; interrupt
handlers call `wakeup`. Hard: zombie-then-wakeup against scan-then-sleep, reuse
of the slots of dead parents, the interrupt mask that no context switch saves,
fairness without priorities. Correct when the CPU is owned by `s_cur_proc`, no
exit is lost, parents are the processes that forked, the idle loop can be
interrupted, and no runnable process is passed over.

**Context switch** (`arch/*/kernel/*_proc.c`, `switch_ctx.S`). State: the saved
context, kernel stack and trap frame of each process. `join` and `yield` swap stacks; a new
process starts in `forkret`, then `trapret`. Hard: the mask is not in the
context; the stack page is allocated without a check.

**Page allocator** (`mm/page_alloc.c`, `lib/math.c`). State: a free list per
order, threaded by index through `pg_info`. `page_allocator_alloc` pops and
splits, `page_allocator_free` merges buddies. Called by fork, exec, wait and VM,
never by interrupts. Hard: doubly linked lists with one-sided updates, range
ends that are no powers of two, the highest order. Correct when blocks in use
and free blocks partition the memory and free blocks are coalesced.

**Virtual memory** (`mm/mm.c`, `arch/*/mm`). State: page directories and tables,
the directory in use (`cr3`). Map, resize, load, clone, free, switch. Called by
boot, fork, exec, wait and the scheduler. Hard: who owns which page over fork,
exec, exit, wait; the directory the CPU is on when another is freed; unchecked
failures of the allocator. Correct when every page has one owner, nobody changes
another's image, and fork and exec make the image they should.

**Traps and interrupt controllers** (`arch/*/kernel/*_trap.c`, `*_vector.S`,
`x86_trap_asm.S`, `x86_pic.c`). State: handler tables, the frames of traps being
handled, requests and services of the 8259A pair. Hard: on x86 a system call
leaves interrupts on (trap gate), on ARM the SWI masks them; one trap stack for
all ARM interrupts; acknowledgement; false alarms. Correct when registers
survive, and every line can interrupt again after its handler.

**Keyboard and serial line** (`driver/keyboard`, `driver/mini_uart`). State: the
modifiers in `kbdgetc`'s static `shift`, and what the device holds. The handlers
call `console_intr`, which takes bytes until there are none. Hard: prefixed codes
split over interrupts, edges that come before the handler or the controller is
set up. Correct when every byte is read and modifiers follow the keys.

**Console** (`kernel/console.c`; `driver/keyboard`, `driver/mini_uart` deliver
the characters). State: a ring of 128 bytes with read, write and edit index.
`console_read` runs in processes, `console_intr` in the interrupt, and they
share the ring without locks. Hard: every interleaving of the two, unsigned
wraparound, the full buffer. Correct when committed characters are read once
each, in order and unchanged, and nobody sleeps on unread input.

**Block cache** (`kernel/bio.c`). State: 30 buffers (flags, block, reference
count, data), a request queue and its count. `bio_read`, `bio_write`,
`bio_free`, `bio_sched`, `bio_front`, `bio_pop`. The caller spins until the
driver sets a flag. **IDE** (`driver/ide/ide.c`) completes requests in its
interrupt, **EMMC** (`driver/emmc/sd.c`) at once. Hard: completions credited by
position in the queue, recycling, errors, interrupts without a request. Correct
when a valid buffer equals the disk, a block has one buffer, and every call
returns. `kernel/block_dev.c` is a table with one entry.

**tinyfs, vfs, indexfs** (`fs/`). State: the disk, inode cache (50), file table
(100). `fs_init`, `geti`, `alloci`, `lookupi`, `linki`, `data_readi`,
`data_writei`, `bmap`, `balloc`, `namex`, `do_createi`. They call the block cache,
which they never give a buffer back to. Hard: counts that many raise and few
lower, prefix matches in directories, a bitmap and an indirect block that are not
written back, and several writes to one operation without a log. Correct when a
descriptor stays with its inode, cache and disk agree, directories name
allocated inodes once, and files read back.

**File system calls** (`kernel/sys_file.c`). State: 16 descriptors a process.
Hard: steps that fail after others succeeded, counts over open, dup, fork, exit.

**exec** (`kernel/exec.c`) builds an image in a new directory, segment by segment,
and swaps it in. Hard: failure after part of the work, the old directory in use.

**mkfs.tinyfs** builds the disk image on the host. Hard: two readings of one
layout. **rootfs** holds the user programs; `kernel/main.c` and `boot.S` run the
initialisations once; `kernel/printk.c`, `string.c` and `sys_call.c` keep no state.

## 2. Modules

| Module | Models | State and how it corresponds |
|---|---|---|
| `Proc` | `kernel/proc.c`, the switch between processes, the interrupt mask | The fields of `struct proc` as functions of the slot. `pc` is the place of a process between two points at which somebody else can act; `cpu` is whose stack the CPU is on; `scan` is the index of the scheduler's loop. |
| `MCProc` | `Proc` with one history variable | `passed`: who was joined while a slot stayed RUNNABLE. |
| `ProcProofs`, `BioProofs`, `BuddyProofs`, `ConsoleProofs`, `ConsoleRefines`, `TrapProofs`, `FsProofs`, `MemProofs` | proofs, see section 4 | No state of their own; `ConsoleRefines` is the step from `ConsoleProofs` to `Tty`. |
| `Tty` | abstract line discipline | Committed text, edited text, the character each reader has in hand. |
| `Console` | `kernel/console.c`, with `sleep`, `wakeup` and the scheduler cut down to its readers | The ring and its indices modulo `IdxMod`; `console_read` in steps as fine as an interrupt can split it. |
| `PageAlloc` | abstract allocator | The set of blocks in use. |
| `Buddy` | `mm/page_alloc.c` | The lists with `next_pg` and `prev_pg` as in the code; one action per turn of a loop. |
| `Bio` | `kernel/bio.c`, `driver/ide/ide.c`, `emmc_rw` | Buffers, queue, count, the place in `bio_read`/`bio_write`, the disk controller and the disk. |
| `Mkfs` | `mkfs.tinyfs/mkfs.c`, `inode_op.c` | No state: `Make(tree, top)` is the image for a host tree, one operator per C function over the context of free counters. |
| `Fs`, `MCFs` | `fs/*.c`, `kernel/sys_file.c`, the file part of fork and exit | The disk, which blocks hold a buffer, `g_inode_cached`, `file_cached`, descriptors and `cwd`. A C function is an operator on a record of the disk and the cache; a system call is an action that commits its result. Extends `Mkfs`: `Init` boots on its image. |
| `ProcMem`, `MCMem` | `mm/mm.c`, `arch/*/mm`, `exec.c`, memory and stacks in `proc.c` and `*_proc.c` | Page frames with their words, so that directories and tables are memory; the allocator's free pages; `cr3`, `esp0`. |
| `Trap` | `x86_trap.c`, `x86_trap_asm.S`, `x86_pic.c`, `keyboard.c`; `arm_trap.c`, `arm_vector.S`, `mini_uart.c`; the order of `main.c` | Registers, the stack of trap frames, mask, handler tables, the 8259A's requests and services, the bytes a device holds, `shift`. |

`Console` implements `Tty` under the mapping at its end; `Buddy` implements
`PageAlloc`. `Proc` stands for the rest of the kernel with arbitrary system
calls and a device channel `Chan`, whose reader loops as `console_read` does.
`Bio` is what `Fs` calls: `Fs` keeps of it that a block is read once and that
buffers run out. `Fs` and `ProcMem` fill in what `Fork`, `Exit` and `Wait` of
`Proc` leave out, `Trap` what its `Irq` does, and `Console`'s key comes from
`GetC` of `Trap`; these joints are described here, not checked. Definitions marked "Flaw" or "Mutant" are slips used to show that the
runs notice them.

*What an action is.* A call runs to its end as one action unless somebody can
act within: an interrupt (Console, Proc), the disk (Bio), or unless the loop
itself is the matter (Buddy, scheduler). `ExitZombie`/`ExitYield` are separate
because an interrupt can come between; `sys_fork` is split at the state EMBRYO;
the scan of `sys_wait` and the two assignments of `sleep()` are one step because
no interrupt handler writes what they read.

A file system call spins for the disk and is not preempted, so it is one step for
other processes; but power may fail after any of its writes, so an action also
has an outcome for each prefix of them (`Cut`), from which the machine starts
again with that disk. No interrupt handler touches page tables, so a call of
`ProcMem` is one step too. `Trap` is the opposite: everything but the body of a
handler's `out` instructions is a step between which an interrupt can come.

*Data.* The contents of a block of `Bio` are two values; characters are two
glyphs and the special ones. `Fs` counts units of 16 bytes, a directory entry; a
unit of data names where it came from. `ProcMem` has pages of `W` words; the
allocator leaves the worst there is in a page, words that look like entries.
`Trap` keeps one register a C function may change (`r0`), one it may not (`r10`)
and the data segment. Kernel code in `Proc`'s `Irq` is only the `wakeup(&input.r)`
that `console_intr` ends in.

*Wild.* Where the kernel panics or uses a NULL it did not test, `Fs` and
`ProcMem` set `wild` and stop; most of their properties say nothing from then on.
This hides no choice of the code: it is the end of what C defines. So is the inode of
a number that is no inode's (`Geti`), which no run meets. A reference count that
wraps around stops nothing: `ref` is a `u16` that `tinyfs.c:85` raises without a look,
so `Dup` counts modulo `RefMod`, goes on with 0, and `wrapped` remembers it. The claims
about caches and directories end there, since two entries for one inode may then
write the same directory.

*Out of turn.* The IDE disk may interrupt although it ended no command. With a
request queued (`EarlyIntr`) `ide_intr` completes that request with whatever the data
port holds. With an empty queue (`StrayIntr`) `bio_pop` takes the memory around the queue
head for a buffer, and the sector goes over `item_cnt` and what follows: the count gets any
value, and so do, as the linker has it, the first buffer, the data of the last one, or
neither. `strayed` remembers both.

*Switches in `Trap`.* A process leaves the CPU by `sleep()`, in three steps, or by
`sys_exit`; both leave the idle loop the interrupt flag as it stands, since `switch_ctx`
keeps it. On ARM `SysExit` therefore leads to the loop with interrupts masked, as in
finding 2. `mini_uart_init` is two steps, between which the receiver is off; the first
flushes what was received before it. `lost` counts the bytes this costs.

## 3. Runs

| Run | Constants | What it shows |
|---|---|---|
| `proc` | 3 slots, pids to 5, x86 | Safety and liveness of the table and the scheduler with arbitrary programs. |
| `proc_orphan` | same | `NoStranger` is violated (finding 1). |
| `proc_arm_idle` | same, ARM | `IdleListens` is violated (finding 2). |
| `console_ring` | ring of 3, indices modulo 6, 2 readers, reads of 1 and 2, x86 | `Console` implements `Tty`; indices keep their order. |
| `console_arm` | ring of 3, 1 reader, reads of 1 and 3, ARM | No wakeup is lost; input is taken. |
| `buddy` | pages 7..15, 3 orders, requests of order 0 and 1, 3 blocks in use | Partition, coalescing, `Buddy` implements `PageAlloc`, up to the first stale unlink. |
| `buddy_exclusive` | pages 4..7 | A page is handed out twice (finding 3). |
| `bio` | 2 buffers, 3 blocks, 2 references to a buffer, both drivers, disk errors | Coherence, one buffer per block, request and command agree, calls return, up to the first interrupt out of turn. |
| `fs` | 2 processes, 2 host trees, 3 cached inodes, 2 files, 2 descriptors, 10 buffers, ref modulo 5, one power failure | Counts, cache, directories and contents, over calls and restarts, up to the first wraparound of a `ref`. |
| `fs_boot_block` | same | The boot block is written (finding 4). |
| `mem` | 25 pages of 3 words, 2 slots, pids to 3, 2 programs that load and 8 that do not | Owners of pages, directory in use, privacy and contents of images. |
| `trap` | both architectures, keys `lshift` and `rctl`, 4 bytes and false alarms | Registers, controllers, modifiers; what a device keeps is read. |

*Bounds and why they are enough.* Three slots have a process in every role:
caller, parent and the one that takes over a slot; four forks use every slot but
the first again. A ring of three with indices modulo six wraps both ways
and fills up; one glyph stored in another's place is seen with two. Nine pages
from 7 have an odd first page, two blocks of the highest order and all splits
between; three blocks in use at a time allow every merge. Two buffers for three
blocks force recycling and exhaustion; `item_cnt` counts modulo 4, so it can
underflow.

In `fs` a block holds three units and a file has two direct blocks, so the
directory `bin` of the first tree is full and the file `sh` of the second needs
the indirect block and is longer than `mkfs` stores, and its last file has a name
with which an earlier one begins; paths name a prefix of a
file, a new file at the root and one in the full directory. Every table is
small enough to be exhausted: cache, files, descriptors, inodes, buffers. `ref`
counts modulo 5 and wraps after a few calls, where the run is cut. In `mem` user space is 18 words on 6 pages under two tables; 25 pages
hold the kernel, two processes and a third image only while nothing leaks, and
then run out; the programs fail at every `goto` of `do_exec`, grow into the
second table, or push the guard page against `KERNEL_BASE`. The run takes x86's
directory of one page; ARM's four pages are the parameter `DirPages`. In `trap`
four inputs are a prefixed key pressed and released, presses and releases of both keys, or two
false alarms, which make line 2 deaf and heal it, and two bytes.

`MaxPid`, `MaxHeld`, `MaxFails`, `MaxInputs`, `RacyTyping`, the
constraints `BeforeStale`, `BeforeStray` and `BeforeWrap`, and in `Trap` one sleeper at a
time (`SleepMask`) are the only cuts; each is named where it is declared.

*Stops.* Deadlock is checked in `proc`, the consoles and `buddy`. It is not in
`bio`, where a caller that got NULL or lost its interrupt really stops; in
those of `Fs` and `mem`, which stop when they go wild or a last process has
exited; nor in `trap`, where bytes and false alarms run out.

*What the properties leave out.* `Partition` claims that memory is complete until
two buddies of the highest order merge, where the code loses both (`page_alloc.c:200`).
`ValidIsSynced` claims that buffers equal the disk until a transfer fails, when the code
marks the buffer valid all the same (`ide.c:91`), against `bio.h:9`. Every property of
`Bio` ends with the first interrupt out of turn, and so do the run's behaviours
(`BeforeStray`): what the interrupt overwrites depends on the layout of the kernel, of which
the model keeps only what it may do to the cache. `ide.c:82` means to report an interrupt
without a request and to return, but `bio_pop` never gives it the NULL it tests for; without
`strayed` TLC refutes `IoReturns`: `item_cnt` is overwritten, the driver is started
for no later request, and a caller spins for ever.

`DescriptorKeepsInode`, `CacheCoherent`, `EntriesAllocated`, `NamesUnique`, `EntriesKept` and
`ReadsBack` end where a `ref` wraps around. Lookups take references that nobody gives back;
at 0 an entry in use is given to another inode, and without `wrapped` TLC refutes
`DescriptorKeepsInode` and `CacheCoherent`. `ReadsBack` asks for the part of a file mkfs
stores (`Stored`) and leaves out files that an earlier name hides (`Listed`): a lookup compares only as
many characters as the name it seeks has (`tinyfs.c:230`), so a file with a name that begins an
earlier one cannot be opened, and TLC refutes `ReadsBack` for it.
`EntriesKept` reads address 0 as "no block", as the code does: an entry that was written
to block 0 is not on the disk for it. `Fs` assumes that no program writes to a directory,
which `sys_write` does not refuse, and no name of 14 characters or more.

`RegistersSurvive` excepts `r0` after an ARM interrupt, which `mov r0, r10`
(`arm_vector.S:99`) destroys. `ControllerReady` names the line a false alarm on 15 leaves
in service, because `IRQ_MAX` gives that interrupt no handler. `KeysTaken` excepts, on ARM,
bytes that come before the UART is set up, which it does not keep (`lost`), and those that come when the idle loop
has the masked flag of a process that exited and never finds another to join (`Silent`);
on x86 keys are pressed after `pic_init`, since a byte that waits before it is
never announced. `ImagesPrivate` speaks of the calls of `ProcMem`; `sys_read` and
`sys_fstat` write to the caller's memory and are not among them. `do_exec`'s argument block
fits a page. No passing property covers the lost wakeup of the x86 console (below) nor
`r0` on ARM; their hazards say so.

*What `BeforeStale` and `RacyTyping` cut away.* Both leave out steps at which
the code does go wrong. `BeforeStale` ends a behaviour when a list head is
unlinked as an inner element; `buddy_exclusive` shows what follows. With
`RacyTyping = TRUE` TLC refutes `ImplementsTty` in two ways, which are hazards of
`console.c:27` and `:31`, not contradictions of any text of the repository:
a build that stores `r + 1` before it loads the character (gcc -O2 does) lets a
full buffer overwrite the character, and an end of file put back after the last
place was filled makes the buffer hold one character too many. With
`SyscallMasksIrq = FALSE` the configuration of `console_arm` violates
`NoLostWakeup`: on x86 a line committed between the test of `console.c:23` and
the `sleep` of line 24 wakes nobody, and if it filled the buffer no later key is
accepted. On ARM `sleep()` turns interrupts on for the rest of the call, so one
reader is safe only with reads no longer than the buffer.

*Fairness.* In `Proc`, `Console` and `Bio` it is `WF(Kernel)`, `WF(ReaderStep)` and `WF(Progress)`: the CPU executes
the kernel's next instruction and the disk answers a command. Nothing makes a
user program call the kernel or a key be pressed. `RunnableRuns` and
`WaitReturns` assume `Cooperative`, that programs do not keep the CPU for ever,
because the kernel has no timer interrupt. `InputTaken` lets a program that
reads the console read again: the readers' step `Read` is under the fairness.
`Trap` has weak fairness for every step of boot, of handlers and of devices that
owe an interrupt, for the steps of `sleep()` and the end of a system call; strong fairness for
`Interrupt`, because a CPU that takes interrupts takes a pending one before its
next instruction, while the mask may go on and off for ever. Nothing makes a
program call or a key be pressed. `Fs` and `ProcMem` claim no liveness.

*Findings.*
1. `proc.c:216` Children of an exiting process keep the pointer to its slot;
   after reuse `sys_wait` counts and reaps another's children, and two processes
   can wait for each other.
2. `proc.c:119` On ARM the scheduler can idle with interrupts masked for ever,
   because SWI masks them, `sys_exit` yields and `switch_ctx` does not switch
   the CPSR.
3. `page_alloc.c:134` A popped list leaves `prev_pg` of its new head set; a
   later merge of that head corrupts the list and a page gets two owners.
4. `tinyfs.c:357` `balloc` returns from the first turn of its loop, whatever the
   bitmap says: it clears and hands out block 0, the boot block of the layout in
   `mkfs.tinyfs/common.h:25`, each time.

## 4. Proofs

TLC's instances are small; the theorems hold for every size of the tables, every
page range, every program, and both architectures where a module has both. An
invariant below is seldom inductive as it stands; named after it is what makes it
so. Where it could be, that stronger invariant was given to TLC first.

**`ProcProofs`**, for every `NPROC > 0`.

* `TypeCorrect`: `TypeOK`.
* `CpuOwnership`: `CurrentOwnsCpu`. Nothing in it stops a zombie from having the
  CPU when it is reaped. `Coherent` ties the place of every process to its state
  and to `cpu`: who is in the kernel is RUNNING (or its own zombie in `sys_exit`),
  who sleeps stands in `sleep()`.
* `ExitNotLost`: `NoLostExit`, on top of `Coherent`: to scan and fall asleep a
  parent must have the CPU, so no child can become a zombie in between, and a
  child wakes it before it gives up the CPU.
* `ParentsAreOlder`: `ParentOlder`, through `Lineage`: while nobody exited before
  its children a parent is neither unused nor a zombie, pids grow along the links
  and `next_pid` is above them all.
* `RoundRobin`: the action property `NoDoubleBypass`. `Order` says that whoever was
  joined since a slot became RUNNABLE comes after that slot on the scheduler's
  round, measured by `Ahead`, the turns until the loop is there.

**`BioProofs`**, for any buffers, blocks and contents, either driver and disk errors, up to
the first interrupt out of turn: `TypeCorrect`, `CachedOnce` (`OneBufferPerBlock`),
`Synchronised` (`ValidIsSynced`), `CompletionsMatch` (`RequestMatches`) and
`QueueCounted` (`ItemsCounted`), all from one `IInv`. Its heart is `Standing`: the
queue is empty or holds just the buffer that the caller spins for, so a completion
cannot be credited to another; and `CommandOfCur`: what the disk works on is that
buffer's command. After an interrupt out of turn neither holds, and nothing is proved.

**`BuddyProofs`**, for any range of pages, any `MAX_ORDER` and any requests:
`MemoryPartitioned` (`Partition`), `MemoryCoalesced` (`Coalesced`),
`ListsImplementPageAlloc` (`ImplementsPageAlloc`) and `TypeCorrect`. They speak of a
behaviour up to its first stale unlink, as the run does: from then on the links
are wrong (finding 3) and nothing is left to prove, which is why the last one
says `stale \/ TypeOK`. The invariant `BInv` has four parts besides the types.
`Tiled`: blocks in use, in hand and free are aligned, apart, and fill the range
until two of the highest order merge. `Linked`:
`prev_pg` is right but at the head of a list. `NoBuddies`: two buddies are never
both free. `Asked`: blocks in use have an order that was asked for. Three
arguments carry it:

* The list. `Walk` looks at as many nodes as there are pages; a list without a
  repetition is no longer (the pigeonhole principle), so `Walk` finds all of it,
  and `Push`, `Pop` and `Unlink` change its set by one block.
* Halves. A block is aligned to its size, so it and its buddy are the halves of
  an aligned block of the next order; splits and merges exchange one for two.
* Coalescing. Suppose an aligned run is all free but in blocks smaller than it,
  and take one of the smallest order there is: its buddy lies in the run too, is
  all free and cut no further, and cannot be part of a larger block, so the
  two are buddies on one list, against `NoBuddies`.

`Size` (`1 << order`), `Walk` and `Starts` are recursive functions; what is needed of them
is shown by least counterexample, from the library's well-foundedness of `<`.

**`ConsoleProofs`** and **`ConsoleRefines`**, for any ring, readers and reads, whatever is typed:

* `TypeCorrect`: `TypeOK`; no index leaves its unsigned range.
* `SpanBounded`: the text never spans more than `INPUT_BUF + 1` characters, with
  the race of `console.c:27` and `:31` too.
* `IndicesOrdered`: `IndexOrder`, if `RacyTyping = FALSE`. Distances modulo `IdxMod`
  do not order three indices by themselves: `OInv` bounds the span of the ring
  (`Spanned`) and lets one reader at a time be in its loop (`Turn`).
* `WakeupKept`: `NoLostWakeup`, if `OneMaskedReader`, which is the configuration of
  `console_arm`: system calls mask interrupts, one process reads, no read is
  longer than the ring. `Served` says that once `sleep()` has turned interrupts on,
  the ring holds all that the reader still wants, or an end of line.
* `LineDiscipline`: `ImplementsTty`, if `RacyTyping = FALSE`: every step of `Console`
  is a step of `Tty` or a stutter, by `Contents`, which says what the places of
  the ring hold.

With `RacyTyping = TRUE` TLC refutes both properties (section 3).

**`TrapProofs`**, for any keys, bytes and false alarms, on both architectures:

* `TypeCorrect`: `TypeOK`: traps nest at most two deep, and every byte that was sent has
  been read, waits in the device, or, on ARM only, came before the UART was set up.
* `RegistersKept`: the action property `RegistersSurvive`. `Nested` ties what each
  frame saved to what was interrupted, and on ARM the one `irqframe` to the newest
  frame; that interrupts do not nest is part of it.
* `ControllersReady`: `ControllerReady`. `InService` gives the services of the 8259A
  for each trap the CPU may be in, false alarms included.
* `ModifiersHeld`: `ModifiersFollow`. `KeysFollow` speaks of the bytes on the way too:
  the last byte of a key says whether it is held, and E0 is followed by its code.

**`FsProofs`**, for any processes, descriptors, files and cache entries, any paths,
any sizes of the disk and any well formed images, wherever the power fails. The first
and `Typing` hold whatever `ref` does; the others until a `ref` wraps around.

* `DescriptorsAreCounted`: `DescriptorsCounted`. `DInv` knows, besides the counts,
  that a slot that is free holds no file, without which `fork` would lose a
  reference.
* `DescriptorsStay`: `DescriptorKeepsInode`. It is not inductive: `exit` gives two
  references to the root directory back where `fork` took one or two, so only a
  bound on that count keeps it from reaching 0 under an open descriptor. `Rooted`
  says that processes with a root have the same one, with two references for each
  but the first, and `Alone` that before the first `setup` nobody has opened
  anything; so the count reaches 0 with the last process only.
* `CacheIsCoherent`: `CacheCoherent`, through `Coherent`, which a call may break for
  one inode while it works on it (`CoherentBut`) and has mended when it commits.

Each C function has a lemma about its operator: what reads and writes data leaves
inodes alone (`Same`; `balloc` always returns block 0, so `bmap` stores an address only
where it already is), and what finds or makes an inode keeps the entries in use
(`Keeps`, `Moves`) and returns one in use or NULL (`Found`). The calls are compositions
of these.

* `Typing`: `TypeOK`, of the disk and every table. `Sound`, from which it follows, is kept
  by a kernel whose counts have wrapped and by one gone wild.
* `EntriesAreAllocated`, `NamesAreUnique`: `EntriesAllocated` and `NamesUnique`, at every
  disk write of a call, since power may fail after it.
* `EntriesAreKept`: the action property `EntriesKept`.

None of the three holds of arbitrary disks: were a block part of two files, writing
one would change the other. The invariant is `WellFormed`, which adds `LaidOut` to
them: the blocks of directories and those that hold addresses serve nothing else.
`Disk` says of an image that it is well formed and has `Kept` the entries that were
there, and is shown of each image in the log of a call, which is what a power
failure may leave. `Alike` steps change no address and no directory (`balloc` only ever
returns block 0, which stands for "none", so a file gets no new block); `Linked` steps
change one entry, at an offset that was free or at the end (`Entered`), to a name that is
not there yet (`Fresh`, from the search that failed) and an inode that was taken
before (`TakenIn`). The invariant is `Sound`, which holds to the end, `DInv`, which holds until the kernel goes
wild, and `CInv`: until a `ref` wraps, `Typed`, and `Cached` until the kernel goes wild. `Goes` is what each action is shown to do. Nothing is said of caches
and files once the kernel has used NULL, and the run ends there with the disk as it
was: that a kernel gone wild writes no more is an assumption of the model (`Write`).

**`MemProofs`**, for any number of pages, any size of a page and of a directory (so
both architectures), any process table and any program files:

* `Typing`: `TypeOK`.
* `OwnDirectory`: `OnOwnDirectory`; the kernel is mapped in each new directory before
  anything else is, and nothing that fork, exec or wait do touches that table.
* `PagesOwnedOnce`: `OneOwner`, through every `goto` of `do_exec`.
* `MemoryPrivate`: the action property `ImagesPrivate`: what others have is untouched
  (`OthersKept`), and fork's child is a copy (`ChildIsCopy`).

All come from `IInv`, which is `Typed` and, until the kernel goes wild, `OnCpu` (the
directory and the stack in use) and `Booked`. `OneOwner` by itself is not
inductive: it counts owners and does not say who they are. `Booked` says that
there is an assignment `own` of a role to every page (free, a stack, part of a
directory, a table, a page at some address) that fits the page tables in both
directions (`Layout`) and the stacks (`StacksOwned`), that no two processes share
a directory (`DirsApart`), that nothing is mapped above the size of a process
(`Sizes`) and that the kernel is mapped in each directory (`KernelIn`). A page
has one role, so what a call writes to one page leaves all others' as they were:
that is the whole argument for privacy. A page between `page_alloc` and the entry
that maps it has the role "hand". Because `own` is quantified TLC cannot
enumerate `Booked`; it checks what follows from it, `OneOwner`. The loops of the
C code are `Iterate`, a recursive function; `LoopRuns` and `LoopEnds` carry a
loop's invariant from turn to turn.

*Assumptions* are those the modules declare: `Proc`: there is a slot, and NULL
and the device channel are distinct and no slots. `Console`: indices wrap at a
multiple of the ring that is more than one longer (2^32 and 128 in the code; at
a multiple equal to the ring full and empty would look alike), and the mark for
"no reader" is no reader. `Buddy`: there is an order, and the range has
pages but not page 0, since the array `pg_info` comes before it. `Bio`: there is a buffer
and the count does not wrap before all are queued. `Trap`: keys have scan codes.
`Fs`: tables and the disk have a size (`TablesOK`, `SizesOK`), `u16` counts wrap at two or
more (`CacheSizes`), paths are names and lengths are no negative numbers (`CallsOK`),
and the images that mkfs makes of the trees are well formed (`ImagesOK`: fields have
their C types, blocks lie apart, entries name inodes in use and differ in name, no directory
is longer than a file can be; the image is a fold over the tree, of which nothing
can be proved for every tree; TLC evaluates it for the trees of each run). `ProcMem`: memory and directories have pages, a page at
least two words, there is a slot and a pid, program headers hold unsigned
addresses and sizes, and user code stores below `KERNEL_BASE`.

*Model-checked only.* Liveness (`RunnableRuns`, `WaitReturns`, `InputTaken`,
`IoReturns`, `KeysTaken`), because the prover handles neither fairness nor
ENABLED. `ReadsBack` of `Fs`: that the image holds every file of the host under its path is
what mkfs's fold over the tree computes, an induction over data; it would also need
blocks of files, not only of directories, to lie apart.
`ImageIsLoaded`, because it is not true for all constants: it tells the words of a
file from the arguments' and from those nobody cleared by their values, which the
run's programs keep apart, and its programs' segments do not overlap.
Initial states that are computed, such as the image of `Mkfs`, are
TLC's for the same reason.

## 5. Not modelled, and the plan

Not modelled: the card protocol of `sd.c` below `emmc_rw` (third-party, for a
card the repository does not describe), `boot.S`, segments and caches, the words
`switch_ctx` saves, exceptions (they stop the kernel) and fast interrupts, which
loop for ever, the GIC-400 driver (not built in), `arg_int` and `arg_ptr`,
`sys_fseek` and `sys_unlink` (in no slot of the call table), printing and strings,
user programs beyond arbitrary calls. What a stray disk interrupt does to
memory other than the queue and the cache is not modelled, nor one that comes in the middle
of `bio_sched`. 2^31 forks (`proc.c:57`), the memory under
`pg_info[-1]` (`page_alloc.c:189`), arguments of exec beyond a page
(`exec.c:136`) and the loop of `sd.c:581` are outside the models; memory above the
`filesz` of a segment, which nothing clears, is left as it came.

What is left to prove: of `Fs`, `ReadsBack`; of `ProcMem`, `ImageIsLoaded` for programs whose
segments do not overlap and whose words are distinct.
