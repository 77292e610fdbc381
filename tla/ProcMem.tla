------------------------------ MODULE ProcMem -------------------------------
(***************************************************************************)
(* Page tables and the memory of processes: what boot, fork, exec, exit    *)
(* and wait allocate, map, copy and free (mm/mm.c, arch/*/mm, exec.c, the  *)
(* memory part of proc.c and arch/*/kernel/*_proc.c), on both              *)
(* architectures, which differ in the size of a directory.                 *)
(*                                                                         *)
(* Memory is pages of W words.  A word is a page table entry, 2 * page + 1 *)
(* for pages the user may touch and 2 * page for others, or data, which is *)
(* below 2 and so looks absent.  Addresses and sizes count words.  The     *)
(* last entry of a directory maps the kernel.  No interrupt handler        *)
(* touches any of this, so a system call is one step.                      *)
(***************************************************************************)
EXTENDS Integers, Sequences, FiniteSets

CONSTANTS NPages,   \* page frames 1 .. NPages; 0 is NULL
          W,        \* words in a page, entries in a table
          DirPages, \* pages of a directory: 1 on x86, 4 on ARM
          NPROC, MaxPid,
          Programs, \* files exec is given, see LoadSegment
          StorePages \* pages user code stores into

ASSUME MemSizes == NPages \in Nat \ {0} /\ W \in Nat \ {0, 1} /\ DirPages \in Nat \ {0}
ASSUME ProcSizes == NPROC \in Nat \ {0} /\ MaxPid \in Nat \ {0}

VARIABLES mem,   \* page |-> its words
          free,  \* pages the allocator has
          twice, \* history: a page was freed that was free
          proc,  \* slot |-> state, parent, pid, pg_dir, mem_size, kstack
          cur,   \* s_cur_proc, 0 in the scheduler
          cr3,   \* the directory the CPU uses
          esp0,  \* the kernel stack a trap will use
          kdir,  \* kernel_pg_dir
          nextpid,
          wild   \* the kernel used a NULL page or called panic

vars == <<mem, free, twice, proc, cur, cr3, esp0, kdir, nextpid, wild>>

Pages == 1 .. NPages
Slots == 1 .. NPROC
KernelBase == (W - 1) * W * W  \* in words, and in pages:
KernelPage == (W - 1) * W
AddrMod == W * W * W           \* 2^32

\* Programs: the sizes and addresses of a header are unsigned.
Headers == [load : BOOLEAN, vaddr : 0 .. AddrMod - 1, filesz : 0 .. AddrMod - 1,
            memsz : 0 .. AddrMod - 1, whole : BOOLEAN]
Files == [found : BOOLEAN, magic : BOOLEAN, word : Int, entry : Int, args : Nat,
          phs : Seq(Headers)]
ASSUME FilesAssumption == Programs \subseteq Files
ASSUME StoreAssumption == StorePages \subseteq 0 .. KernelPage - 1

Present(w) == w >= 2
Entry(pg, user) == 2 * pg + (IF user THEN 1 ELSE 0)
PageOf(w) == w \div 2
IsUser(w) == w % 2 = 1

\* What the allocator leaves in a page; an entry that looks present is the
\* worst.  ZeroPage is what memset makes of it.
Junk == [i \in 0 .. W - 1 |-> Entry(1, TRUE)]
ZeroPage == [i \in 0 .. W - 1 |-> 0]

\* trap_syscall puts a system call's result into the caller's trap frame.
Return(s, p, v) == [s EXCEPT !.mem[proc[p].kstack][2] = v]

Ceil(x) == (x + W - 1) \div W  \* in pages

\* for (k = 0; k < n; k++) s = Do(s, k)
Iterate(Do(_, _), s, n) ==
    LET at[k \in 0 .. n] == IF k = 0 THEN s ELSE Do(at[k - 1], k - 1) IN at[n]

-----------------------------------------------------------------------------
(* The allocator, and a call as a computation on s: ok turns FALSE where    *)
(* the kernel panics or goes on with NULL.                                  *)

Now == [mem |-> mem, free |-> free, twice |-> twice, ok |-> TRUE]
Fail(s) == [s EXCEPT !.ok = FALSE]

\* page_alloc_v2: an aligned block of n pages.  No caller gets on without it.
AllocBlock(s, n) ==
    LET fits == {a \in Pages : a % n = 0 /\ a .. a + n - 1 \subseteq s.free}
        Taken(a) == [pg |-> a,
                     s |-> [s EXCEPT !.free = @ \ (a .. a + n - 1),
                                     !.mem = [p \in Pages |-> IF p \in a .. a + n - 1
                                                              THEN Junk ELSE @[p]]]]
    IN  IF fits = {} THEN [s |-> Fail(s), pg |-> 1]
        ELSE Taken(CHOOSE b \in fits : \A c \in fits : b <= c)

Alloc(s) == AllocBlock(s, 1)

FreeBlock(s, a, n) ==
    [s EXCEPT !.twice = @ \/ a .. a + n - 1 \cap s.free # {},
              !.free = @ \cup a .. a + n - 1,
              !.mem = [p \in Pages |-> IF p \in a .. a + n - 1 THEN Junk ELSE @[p]]]

FreePage(s, pg) == FreeBlock(s, pg, 1)

-----------------------------------------------------------------------------
(* Page tables: s_get_pg_pte, s_pg_map_helper, *_page_map, vm_alloc_pg_dir  *)

\* The table for page vp of a directory, 0 if there is none.
Table(s, dir, vp) ==
    LET w == s.mem[dir][vp \div W] IN IF Present(w) THEN PageOf(w) ELSE 0

\* With create: a table is allocated, cleared and entered.
WithTable(s, dir, vp) ==
    LET Entered(r) == [r.s EXCEPT !.mem[r.pg] = ZeroPage,
                                  !.mem[dir][vp \div W] = Entry(r.pg, TRUE)]
    IN  IF Table(s, dir, vp) # 0 THEN s ELSE Entered(Alloc(s))

\* The entry for page vp, 0 if there is no table.
Pte(s, dir, vp) == IF Table(s, dir, vp) = 0 THEN 0
                   ELSE s.mem[Table(s, dir, vp)][vp % W]

\* A page that is mapped already is a panic.
Map(s, dir, vp, pg, user) ==
    LET Into(r, tbl) == IF ~r.ok \/ Present(r.mem[tbl][vp % W]) THEN Fail(r)
                        ELSE [r EXCEPT !.mem[tbl][vp % W] = Entry(pg, user)]
        Filled(r) == Into(r, Table(r, dir, vp))
    IN  Filled(WithTable(s, dir, vp))

\* vm_alloc_pg_dir; kernel_map_init, which every caller does next, maps frames
\* 1, 2, ... for the kernel only.
AllocDir(s) ==
    LET Cleared(r) == [r EXCEPT !.s.mem[r.pg] = ZeroPage]
    IN  Cleared(AllocBlock(s, DirPages))

KernelMap(s, dir) ==
    Iterate(LAMBDA t, i : Map(t, dir, KernelPage + i, i + 1, FALSE), s, W)

NewDir(s) ==
    LET Mapped(r) == IF r.s.ok THEN [r EXCEPT !.s = KernelMap(r.s, r.pg)] ELSE r
    IN  Mapped(AllocDir(s))

\* vm_resize upwards: 0 if it would reach the kernel.
MapNew(r, dir, vp) == Map(r.s, dir, vp, r.pg, TRUE)
ResizeInc(s, dir, old, new) ==
    IF new >= KernelBase THEN [s |-> s, sz |-> 0]
    ELSE [s |-> Iterate(LAMBDA t, i : MapNew(Alloc(t), dir, Ceil(old) + i),
                        s, Ceil(new) - Ceil(old)), sz |-> new]

\* vm_resize down from KERNEL_BASE to 0; a missing table is skipped.
Unmap(s, dir, vp) ==
    IF ~Present(Pte(s, dir, vp)) THEN s
    ELSE [FreePage(s, PageOf(Pte(s, dir, vp))) EXCEPT !.mem[Table(s, dir, vp)][vp % W] = 0]
ResizeDec(s, dir) == Iterate(LAMBDA t, vp : Unmap(t, dir, vp), s, KernelPage)

\* Mutants: forgets the tables; gives the child the parent's page.
FreeDirOnly(s, dir) == FreeBlock(ResizeDec(s, dir), dir, DirPages)
CloneShares(s, dst, src, size) ==
    LET Share(t, vp, w) == IF ~Present(w) \/ ~t.ok THEN t
                           ELSE Map(t, dst, vp, PageOf(w), IsUser(w))
    IN  Iterate(LAMBDA t, vp : Share(t, vp, Pte(t, src, vp)), s, Ceil(size))

\* *_page_free_pg_dir: the user's pages, all tables, the directory.
FreeTable(s, dir, i) ==
    IF Present(s.mem[dir][i]) THEN FreePage(s, PageOf(s.mem[dir][i])) ELSE s
FreeDir(s, dir) ==
    FreeBlock(Iterate(LAMBDA t, i : FreeTable(t, dir, i), ResizeDec(s, dir), W), dir, DirPages)

\* *_page_clone_pg_dir: copies what is mapped below size, with its flags.
MapCopy(r, dst, vp, w) ==
    Map([r.s EXCEPT !.mem[r.pg] = r.s.mem[PageOf(w)]], dst, vp, r.pg, IsUser(w))
CopyPage(s, dst, src, vp) ==
    IF ~Present(Pte(s, src, vp)) \/ ~s.ok THEN s ELSE MapCopy(Alloc(s), dst, vp, Pte(s, src, vp))
Clone(s, dst, src, size) == Iterate(LAMBDA t, vp : CopyPage(t, dst, src, vp), s, Ceil(size))

-----------------------------------------------------------------------------
(* Processes.  The trap frame, at the top of the kernel stack, is its words *)
(* pc, sp and the return value.                                             *)

NoProc == [state |-> "UNUSED", parent |-> 0, pid |-> 0, pg_dir |-> 0, mem_size |-> 0,
           kstack |-> 0]

\* arch_init_proc, usr_init_proc, usr_exec_proc, trap_fork_proc, arch_free_proc.
NewStack(s) == Alloc(s)
InitFrame(s, stack) ==
    [s EXCEPT !.mem[stack] = [i \in 0 .. W - 1 |-> IF i = 1 THEN W ELSE 0]]
ExecFrame(s, stack, pc, sp) == [s EXCEPT !.mem[stack][0] = pc, !.mem[stack][1] = sp]
ForkFrame(s, child, parent) == [s EXCEPT !.mem[child] = [s.mem[parent] EXCEPT ![2] = 0]]
FreeStack(s, stack) == FreePage(s, stack)

\* mm_init: the kernel's directory.
MmInit ==
    NewDir([mem |-> [p \in Pages |-> Junk], free |-> Pages, twice |-> FALSE, ok |-> TRUE])

\* prepare_usr_proc: the first process has one page, for initcode (word -1)
\* and its stack.
PrepareUsrProc(stack, dir, code) ==
    Map(InitFrame([code.s EXCEPT !.mem[code.pg][0] = -1], stack), dir, 0, code.pg, TRUE)

Init ==
    /\ \E kern \in {MmInit} : \E stack \in {NewStack(kern.s)} :
       \E dir \in {NewDir(stack.s)} : \E code \in {Alloc(dir.s)} :
       \E s \in {PrepareUsrProc(stack.pg, dir.pg, code)} :
         /\ s.ok
         /\ mem = s.mem /\ free = s.free /\ twice = s.twice
         /\ kdir = kern.pg
         /\ proc = [p \in Slots |-> IF p # 1 THEN NoProc ELSE
              [NoProc EXCEPT !.state = "RUNNABLE", !.pid = 1, !.pg_dir = dir.pg,
                             !.mem_size = W, !.kstack = stack.pg]]
    /\ cur = 0
    /\ cr3 = kdir
    /\ esp0 = 0
    /\ nextpid = 2
    /\ wild = FALSE

Commit(s) == mem' = s.mem /\ free' = s.free /\ twice' = s.twice /\ wild' = ~s.ok

\* switch_uvm and setup_tss, with vm_reload; switch_kvm leaves the stack.
SwitchUvm(stack, dir) == esp0' = stack /\ cr3' = dir
SwitchKvm == cr3' = kdir /\ UNCHANGED esp0

\* scheduler up to join.
Join(p) ==
    /\ ~wild /\ cur = 0 /\ proc[p].state = "RUNNABLE"
    /\ cur' = p
    /\ proc' = [proc EXCEPT ![p].state = "RUNNING"]
    /\ SwitchUvm(proc[p].kstack, proc[p].pg_dir)
    /\ UNCHANGED <<mem, free, twice, kdir, nextpid, wild>>

\* Mutant: the state is left to the scheduler.
YieldStaysRunning ==
    /\ ~wild /\ cur # 0
    /\ cur' = 0
    /\ cr3' = kdir
    /\ UNCHANGED <<mem, free, twice, proc, esp0, kdir, nextpid, wild>>

\* A process leaves the CPU (sleep and wakeup are in Proc) and the scheduler
\* goes back to the kernel's directory.
Yield ==
    /\ ~wild /\ cur # 0
    /\ cur' = 0
    /\ proc' = [proc EXCEPT ![cur].state = "RUNNABLE"]
    /\ SwitchKvm
    /\ UNCHANGED <<mem, free, twice, kdir, nextpid, wild>>

\* User code stores into a page it may touch.
Store(vp) ==
    /\ ~wild /\ cur # 0
    /\ IsUser(Pte(Now, cr3, vp)) /\ Present(Pte(Now, cr3, vp))
    /\ mem' = [mem EXCEPT ![PageOf(Pte(Now, cr3, vp))][0] = -2]
    /\ UNCHANGED <<free, twice, proc, cur, cr3, esp0, kdir, nextpid, wild>>

\* sys_fork.
Fork ==
    /\ ~wild /\ cur # 0 /\ nextpid <= MaxPid
    /\ \E q \in Slots :
         /\ proc[q].state = "UNUSED" /\ \A r \in 1 .. q - 1 : proc[r].state # "UNUSED"
         /\ \E stack \in {NewStack(Now)} : \E dir \in {NewDir(stack.s)} :
            \E copy \in {Clone(dir.s, dir.pg, proc[cur].pg_dir, proc[cur].mem_size)} :
              /\ Commit(IF copy.ok
                        THEN Return(ForkFrame(copy, stack.pg, proc[cur].kstack), cur, nextpid)
                        ELSE Fail(Now))
              /\ proc' = [proc EXCEPT ![q] =
                   [state |-> "RUNNABLE", parent |-> cur, pid |-> nextpid,
                    pg_dir |-> dir.pg, mem_size |-> proc[cur].mem_size,
                    kstack |-> stack.pg]]
    /\ nextpid' = nextpid + 1
    /\ UNCHANGED <<cur, cr3, esp0, kdir>>

\* vm_prog_load: filesz words of the file, page by page; data_readi comes up
\* short when the file ends before `have'.
LoadPage(s, pg, n, word) ==
    [s EXCEPT !.mem[pg] = [j \in 0 .. W - 1 |-> IF j < n THEN word ELSE @[j]]]
LoadPages(s, dir, ph, word, n) ==
    Iterate(LAMBDA t, i : LoadPage(t, PageOf(Pte(t, dir, ph.vaddr \div W + i)),
                                   ph.filesz - i * W, word), s, n)
\* Mutant: without the page that is filled in part.
ProgLoadWhole(s, dir, ph, word) == LoadPages(s, dir, ph, word, ph.filesz \div W)
ProgLoad(s, dir, ph, word) == LoadPages(s, dir, ph, word, Ceil(ph.filesz))

\* One program header of do_exec; a segment is [load, vaddr, filesz, memsz,
\* whole], whole saying that the file holds the header and the data.
FilledSegment(big, ph, dir, word) ==
    IF big.sz = 0 \/ ~big.s.ok THEN [s |-> big.s, sz |-> 0, bad |-> TRUE]
    ELSE [s |-> ProgLoad(big.s, dir, ph, word), sz |-> big.sz, bad |-> ~ph.whole]
LoadSegment(t, ph, dir, word) ==
    LET end == (ph.vaddr + ph.memsz) % AddrMod
    IN  IF t.bad \/ ~ph.load \/ ~t.s.ok THEN t
        ELSE IF ph.memsz < ph.filesz \/ end < ph.vaddr THEN [t EXCEPT !.bad = TRUE]
        ELSE FilledSegment(IF end > t.sz THEN ResizeInc(t.s, dir, t.sz, end)
                           ELSE [s |-> t.s, sz |-> t.sz], ph, dir, word)
Segments(s, dir, prog) ==
    Iterate(LAMBDA t, i : LoadSegment(t, prog.phs[i + 1], dir, prog.word),
            [s |-> s, sz |-> 0, bad |-> FALSE], Len(prog.phs))

\* Above the segments a page the user may not touch, and the stack with `args'
\* words at its top.
PushArgs(s, pg, args) ==
    [s EXCEPT !.mem[pg] = [j \in 0 .. W - 1 |-> IF j >= W - args THEN -3 ELSE @[j]]]
AddStack(dir, top, guard, stack, args) ==
    PushArgs(Map(Map(stack.s, dir, top, guard.pg, FALSE), dir, top + 1, stack.pg, TRUE),
             stack.pg, args)
AddGuard(dir, top, guard, args) == AddStack(dir, top, guard, Alloc(guard.s), args)

\* The new image; one that failed is freed.
Finish(segs, dir, args) ==
    IF segs.bad \/ ~segs.s.ok
    THEN [s |-> IF segs.s.ok THEN FreeDir(segs.s, dir) ELSE segs.s, dir |-> 0, sz |-> 0]
    ELSE [s |-> AddGuard(dir, Ceil(segs.sz), Alloc(segs.s), args),
          dir |-> dir, sz |-> (Ceil(segs.sz) + 2) * W]
LoadInto(dir, prog) == Finish(Segments(dir.s, dir.pg, prog), dir.pg, prog.args)
Load(s, prog) == LoadInto(NewDir(s), prog)

\* Mutant: without switch_uvm.
ExecNoSwitch(prog) ==
    /\ ~wild /\ cur # 0
    /\ \E r \in {Load(Now, prog)} :
           /\ prog.found /\ prog.magic /\ r.dir # 0 /\ r.s.ok
           /\ proc' = [proc EXCEPT ![cur].pg_dir = r.dir, ![cur].mem_size = r.sz]
           /\ Commit(FreeDir(r.s, proc[cur].pg_dir))
    /\ UNCHANGED <<cur, cr3, esp0, kdir, nextpid>>

\* sys_exec and do_exec.  A path that is not found is a panic, a file without
\* the ELF magic an error; the old image is freed once the CPU has left it.
Exec(prog) ==
    /\ ~wild /\ cur # 0
    /\ \E r \in {Load(Now, prog)} :
       LET s == ExecFrame(r.s, proc[cur].kstack, prog.entry, r.sz - prog.args)
           loaded == r.dir # 0 /\ r.s.ok
           keep == UNCHANGED <<proc, cr3, esp0>>
       IN  \/ ~prog.found /\ keep /\ Commit(Fail(Now))
           \/ prog.found /\ ~prog.magic /\ keep /\ Commit(Return(Now, cur, -1))
           \/ prog.found /\ prog.magic /\ ~loaded /\ keep /\ Commit(Return(r.s, cur, -1))
           \/ /\ prog.found /\ prog.magic /\ loaded
              /\ proc' = [proc EXCEPT ![cur].pg_dir = r.dir, ![cur].mem_size = r.sz]
              /\ SwitchUvm(proc[cur].kstack, r.dir)
              /\ Commit(Return(FreeDir(s, proc[cur].pg_dir), cur, 0))
    /\ UNCHANGED <<cur, kdir, nextpid>>

\* sys_exit, up to the scheduler it yields to.
Exit ==
    /\ ~wild /\ cur # 0
    /\ proc' = [proc EXCEPT ![cur].state = "ZOMBIE"]
    /\ cur' = 0
    /\ SwitchKvm
    /\ UNCHANGED <<mem, free, twice, kdir, nextpid, wild>>

\* sys_wait finds a zombie: arch_free_proc and vm_free_pg_dir.
Wait(q) ==
    /\ ~wild /\ cur # 0 /\ proc[q].state = "ZOMBIE" /\ proc[q].parent = cur
    /\ Commit(Return(FreeDir(FreeStack(Now, proc[q].kstack), proc[q].pg_dir),
                     cur, proc[q].pid))
    /\ proc' = [proc EXCEPT ![q] = NoProc]
    /\ UNCHANGED <<cur, cr3, esp0, kdir, nextpid>>

Next ==
    \/ \E p \in Slots : Join(p) \/ Wait(p)
    \/ Yield
    \/ \E vp \in StorePages : Store(vp)
    \/ Fork
    \/ \E prog \in Programs : Exec(prog)
    \/ Exit

Spec == Init /\ [][Next]_vars

-----------------------------------------------------------------------------
(* Properties.  None speaks of the states after wild: the kernel has        *)
(* stopped or works on a NULL page.                                         *)

Live == {p \in Slots : proc[p].state # "UNUSED"}

\* What a process sees: its mapped pages below KERNEL_BASE, their contents
\* and whether it may touch them.
UserPages(dir) == {vp \in 0 .. KernelPage - 1 : Present(Pte(Now, dir, vp))}
Image(dir) == [vp \in UserPages(dir) |->
                 [user |-> IsUser(Pte(Now, dir, vp)), words |-> mem[PageOf(Pte(Now, dir, vp))]]]
TrapFrame(p) == mem[proc[p].kstack]

\* Words, pages and process entries stay in their sets, and whoever has the
\* CPU is RUNNING (scheduler, proc_alloc, sys_wait).
TypeOK ==
    /\ DOMAIN mem = Pages /\ \A pg \in Pages : DOMAIN mem[pg] = 0 .. W - 1
    /\ free \subseteq Pages /\ twice \in BOOLEAN /\ wild \in BOOLEAN
    /\ cur \in 0 .. NPROC /\ nextpid \in 2 .. MaxPid + 1
    /\ cr3 \in Pages /\ esp0 \in 0 .. NPages /\ kdir \in Pages
    /\ \A p \in Slots :
         /\ proc[p].state \in {"UNUSED", "RUNNABLE", "RUNNING", "ZOMBIE"}
         /\ (proc[p].state = "RUNNING") = (p = cur)
         /\ p \in Live => proc[p].mem_size \in W .. KernelBase + 2 * W

\* Every page in use has exactly one owner: a directory, a table, a mapping of
\* one process or a kernel stack; the others are free and none was freed
\* twice.  So fork, exec (one that fails half way too), exit and wait neither
\* leak a page nor hand one to two processes.
DirBlock(dir) == {<<dir, "dir", i>> : i \in 0 .. DirPages - 1}
Owners ==
    LET dirs == {kdir} \cup {proc[p].pg_dir : p \in Live}
        tables(dir) == {<<dir, "table", i>> : i \in {j \in 0 .. W - 1 : Present(mem[dir][j])}}
        users(dir) == {<<dir, "page", vp>> : vp \in UserPages(dir)}
    IN  (UNION {DirBlock(dir) \cup tables(dir) \cup users(dir) : dir \in dirs})
          \cup {<<0, "stack", p>> : p \in Live}
Owned(o) == CASE o[2] = "dir" -> o[1] + o[3]
              [] o[2] = "table" -> PageOf(mem[o[1]][o[3]])
              [] o[2] = "page" -> PageOf(Pte(Now, o[1], o[3]))
              [] o[2] = "stack" -> proc[o[3]].kstack

OneOwner ==
    ~wild => /\ ~twice
             /\ {Owned(o) : o \in Owners} = Pages \ free
             /\ Cardinality(Owners) = Cardinality(Pages \ free)
             /\ Cardinality({proc[p].pg_dir : p \in Live}) = Cardinality(Live)

\* The CPU runs on the directory and the kernel stack of s_cur_proc, or on
\* the kernel's directory, never on one that was given back, and the kernel
\* is mapped there, for itself only (switch_uvm, switch_kvm, do_exec's switch
\* before it frees the old directory).
KernelMapped(dir) == \A i \in 0 .. W - 1 : Pte(Now, dir, KernelPage + i) = Entry(i + 1, FALSE)

OnOwnDirectory ==
    ~wild => /\ cr3 = IF cur = 0 THEN kdir ELSE proc[cur].pg_dir
             /\ cur # 0 => esp0 = proc[cur].kstack
             /\ KernelMapped(kdir) /\ \A p \in Live : KernelMapped(proc[p].pg_dir)

\* A step changes no image but that of the process that takes it, a system
\* call none but exec, and no frame of another process; the image fork makes
\* is a copy of the parent's, pages, permissions and registers but for the
\* result 0, and the parent is told the pid (vm_clone, trap_fork_proc,
\* vm_free_pg_dir, do_exec).
OthersKept ==
    \A p \in Live : proc'[p].pid = proc[p].pid =>
      /\ p # cur => TrapFrame(p)' = TrapFrame(p)
      /\ Image(proc[p].pg_dir)' # Image(proc[p].pg_dir)
           => p = cur /\ (TrapFrame(p)' = TrapFrame(p) \/ proc'[p].pg_dir # proc[p].pg_dir)
ChildIsCopy ==
    \A q \in Live' \ Live :
      /\ Image(proc[q].pg_dir)' = Image(proc[cur].pg_dir)
      /\ TrapFrame(q)' = [TrapFrame(cur) EXCEPT ![2] = 0]
      /\ TrapFrame(cur)' = [TrapFrame(cur) EXCEPT ![2] = proc'[q].pid]
ImagesPrivate == [][~wild' => OthersKept /\ ChildIsCopy]_vars

\* What an ELF file says its process should look like: the words of its
\* segments, one page below the stack nobody may touch, the arguments at the
\* stack's top.
LoadedAt(prog, a) ==
    \E i \in DOMAIN prog.phs : LET ph == prog.phs[i] IN
      ph.load /\ a \in (ph.vaddr \div W) * W .. (ph.vaddr \div W) * W + ph.filesz - 1
IsLoaded(p, prog, img, frame) ==
    LET n == Cardinality(DOMAIN img)
    IN  /\ DOMAIN img = 0 .. n - 1 /\ proc[p].mem_size = n * W
        /\ \A vp \in DOMAIN img : img[vp].user = (vp # n - 2)
        /\ \A vp \in 0 .. n - 3, i \in 0 .. W - 1 :
             (img[vp].words[i] = prog.word) = LoadedAt(prog, vp * W + i)
        /\ \A i \in 0 .. W - 1 : (img[n - 1].words[i] = -3) = (i >= W - prog.args)
        /\ \A i \in DOMAIN prog.phs :
             prog.phs[i].load => prog.phs[i].vaddr + prog.phs[i].memsz <= (n - 2) * W
        /\ frame[0] = prog.entry /\ frame[1] = n * W - prog.args /\ frame[2] = 0

\* exec's image is what the file says, entered at its entry with the stack
\* below its arguments (do_exec, vm_prog_load, usr_exec_proc).
ImageIsLoaded ==
    [][~wild' =>
         \A p \in Live : proc'[p].pid = proc[p].pid /\ proc'[p].pg_dir # proc[p].pg_dir =>
           \E prog \in Programs : IsLoaded(p, prog, Image(proc[p].pg_dir), TrapFrame(p))'
      ]_vars

=============================================================================
