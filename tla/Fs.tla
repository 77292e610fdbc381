--------------------------------- MODULE Fs ---------------------------------
(***************************************************************************)
(* The kernel's file system: tinyfs with its inode cache, path walking     *)
(* (indexfs), the file table and descriptors, and the system calls on      *)
(* them, over an image that mkfs.tinyfs has built.                         *)
(*                                                                         *)
(* Reading and writing a block spins until the disk is done and the kernel *)
(* is not preempted, so a system call is one step for other processes.     *)
(* Power may fail between any two of its writes to the disk.  `wild' means *)
(* that the kernel used a null pointer or called panic: the run ends there *)
(* with the disk as it was, and nothing is claimed of caches and files.    *)
(* A reference count that wraps around stops nothing: the entry of an inode *)
(* in use counts as free, and the calls go on with what they find.         *)
(***************************************************************************)
EXTENDS Mkfs

CONSTANTS NINODE,   \* entries of the inode cache (50)
          NFILE,    \* entries of the file table (100)
          NOFILE,   \* descriptors of a process (16)
          NBuf,     \* block buffers, never given back (30)
          RefMod,   \* an inode's ref wraps around here (2^16)
          Procs,    \* processes, 1 is the first
          Trees,    \* host trees mkfs may have been run on, each with "top"
          PrefixOf, \* <<m, n>>: name m is a proper prefix of name n
          Paths,    \* paths used in calls, sequences of names
          Counts,   \* units asked for in one read or write
          MaxFails  \* bound on power failures

ASSUME TablesOK == NFILE \in Nat /\ NOFILE \in Nat /\ IsFiniteSet(Procs)
ASSUME CacheSizes == NINODE \in Nat /\ RefMod \in Nat \ {0, 1}
ASSUME CallsOK == Paths \subseteq Seq(STRING) /\ Counts \subseteq Nat

VARIABLES
    img,    \* the disk
    cached, \* numbers of the blocks that hold a buffer
    ic,     \* g_inode_cached: slot |-> [ref, idx, n], n as on disk
    file,   \* file_cached: [ref, ip, off]; `of' is history: the inode opened
    proc,   \* live, ofile (0 is NULL) and cwd; root is always equal to cwd
    wild,   \* see above
    fails,  \* power failures so far, at most MaxFails
    host,   \* history: the tree the image was made from
    wrapped \* history: the ref of an inode has wrapped around to 0

vars == <<img, cached, ic, file, proc, wild, fails, host, wrapped>>

Slots == 1 .. NINODE
Files == 1 .. NFILE
Fds == 0 .. NOFILE - 1

-----------------------------------------------------------------------------
(* A call computes on a record s of the disk, the cached blocks and the     *)
(* inode cache; ok turns FALSE where the kernel goes wild, log collects the *)
(* disk after every write, and over is history: a ref wrapped around.       *)

Start == [img |-> img, cached |-> cached, ic |-> ic, ok |-> TRUE, log |-> <<>>,
          over |-> FALSE]

Fail(s) == [s EXCEPT !.ok = FALSE]

\* A loop of n turns.
Iterate(Do(_, _), s, n) ==
    LET at[k \in 0 .. n] == IF k = 0 THEN s ELSE Do(at[k - 1], k - 1) IN at[n]

\* bio_read; its NULL is not checked by any caller.
Read(s, b) ==
    IF b \in s.cached \/ Cardinality(s.cached) < NBuf
    THEN [s EXCEPT !.cached = @ \cup {b}]
    ELSE Fail(s)

\* bio_write of a buffer whose block becomes im.  A kernel that has gone wild
\* writes no more.
Write(s, im) == IF s.ok THEN [s EXCEPT !.img = im, !.log = Append(@, im)] ELSE s

IBlock(i) == InodesOff + i \div IPB

\* Flaw: the search runs past the last block.
BallocFlaw(s) ==
    LET Zeroed(r) == [s |-> Write(r, r.img), b |-> MaxBlocks]
    IN  Zeroed(Read(Read(s, BitmapOff), MaxBlocks))

\* balloc: the return stands outside the test of the bit, so the first block
\* of the bitmap's first turn, block 0, is zeroed and returned every time.
\* The bit is set in the buffer only.
Balloc(s) ==
    LET Zeroed(r) == [s |-> Write(r, [r.img EXCEPT !.blk[0] = ZeroBlock]), b |-> 0]
    IN  Zeroed(Read(Read(s, BitmapOff), 0))

\* bmap: the disk block of block bn of the inode in slot k.  An address that
\* balloc returns for a table is stored over the 0 in the buffer, as a 0.
Bmap(s, k, bn) ==
    LET Addr(i) == s.ic[k].n.addr[i]
        Direct(r) == [r EXCEPT !.s.ic[k].n.addr[bn] = r.b]
        Stored(t, table) ==
          IF t.img.blk[table][bn - ND][1] # 0
          THEN [s |-> t, b |-> t.img.blk[table][bn - ND][1]] ELSE Balloc(t)
        Indirect(q) == Stored(Read([q.s EXCEPT !.ic[k].n.addr[ND] = q.b], q.b), q.b)
    IN  IF bn < ND
        THEN IF Addr(bn) # 0 THEN [s |-> s, b |-> Addr(bn)] ELSE Direct(Balloc(s))
        ELSE IF bn - ND >= BS THEN [s |-> Fail(s), b |-> 0]
        ELSE Indirect(IF Addr(ND) # 0 THEN [s |-> s, b |-> Addr(ND)] ELSE Balloc(s))

\* How many blocks n units from off on lie in, and those of them in block bn.
Span(off, n) == Cardinality({u \div BS : u \in off .. off + n - 1})
Within(off, n, bn) == {u \in off .. off + n - 1 : u \div BS = bn}

\* What is left of cnt units from off on in a file of this size.
Clamp(off, cnt, size) == IF off + cnt > size THEN size - off ELSE cnt

\* One turn of its loop: of n units from off on those in block bn, found at m.
CopyUnits(t, off, n, bn, m) ==
    [t EXCEPT !.s = Read(m.s, m.b),
              !.data = @ \o [i \in 1 .. Cardinality(Within(off, n, bn)) |->
                               m.s.img.blk[m.b][(off + Len(t.data) + i - 1) % BS]]]
ReadBlock(t, k, off, n, bn) == CopyUnits(t, off, n, bn, Bmap(t.s, k, bn))

\* tinyfs_data_readi on the file in slot k: -1, or the units read.
DataRead(s, k, off, cnt) ==
    IF off > s.ic[k].n.size THEN [s |-> s, ret |-> -1, data |-> <<>>]
    ELSE LET n == Clamp(off, cnt, s.ic[k].n.size)
         IN  Iterate(LAMBDA t, i : ReadBlock(t, k, off, n, off \div BS + i),
                     [s |-> s, ret |-> n, data |-> <<>>], Span(off, n))

FillUnits(off, n, bn, data, m) ==
    Write(Read(m.s, m.b), [m.s.img EXCEPT !.blk[m.b] =
      [u \in 0 .. BS - 1 |-> IF bn * BS + u \in Within(off, n, bn)
                             THEN data[bn * BS + u - off + 1] ELSE @[u]]])
WriteBlock(s, k, off, n, bn, data) == FillUnits(off, n, bn, data, Bmap(s, k, bn))

\* tinyfs_data_writei of data; a file never grows.
DataWrite(s, k, off, data) ==
    IF off > s.ic[k].n.size THEN [s |-> s, ret |-> -1]
    ELSE LET n == Clamp(off, Len(data), s.ic[k].n.size)
         IN  [s |-> Iterate(LAMBDA t, i : WriteBlock(t, k, off, n, off \div BS + i, data),
                            s, Span(off, n)),
              ret |-> n]

-----------------------------------------------------------------------------
(* Inodes in memory *)

\* dupi, and the ref++ of a hit in tinyfs_geti: 16 bits, and no check.
Dup(s, k) ==
    [s EXCEPT !.ic[k].ref = (@ + 1) % RefMod, !.over = @ \/ s.ic[k].ref + 1 = RefMod]

\* tinyfs_geti; a caller that gets NULL from a full cache uses it.  What is
\* read for a number that is no inode's is garbage, which counts as wild.
Geti(s, idx) ==
    LET hit == {k \in Slots : s.ic[k].ref # 0 /\ s.ic[k].idx = idx}
        free == {k \in Slots : s.ic[k].ref = 0}
        First(S) == CHOOSE k \in S : \A j \in S : k <= j
    IN  IF hit # {} THEN [s |-> Dup(s, First(hit)), k |-> First(hit)]
        ELSE IF free = {} \/ idx \notin Inodes THEN [s |-> Fail(s), k |-> 0]
        ELSE [k |-> First(free),
              s |-> [s EXCEPT !.ic[First(free)] =
                       [ref |-> 1, idx |-> idx, n |-> [@.n EXCEPT !.type = 0, !.major = 0]]]]

MetaRead(s, k) ==
    IF ~s.ok THEN s
    ELSE [Read(s, IBlock(s.ic[k].idx)) EXCEPT !.ic[k].n = s.img.ino[s.ic[k].idx]]

\* Flaw: the size of a directory that has grown is not written.
MetaWriteFlaw(s, k) ==
    LET i == s.ic[k].idx
        r == Read(s, IBlock(i))
    IN  Write(r, [r.img EXCEPT !.ino[i] = [s.ic[k].n EXCEPT !.size = r.img.ino[i].size]])

MetaWrite(s, k) ==
    LET r == Read(s, IBlock(s.ic[k].idx))
    IN  Write(r, [r.img EXCEPT !.ino[s.ic[k].idx] = s.ic[k].n])

\* geti and meta_readi, which the code always calls together.
GetInode(s, idx) ==
    LET Filled(g) == [g EXCEPT !.s = MetaRead(g.s, g.k)] IN Filled(Geti(s, idx))

\* Flaw: the new inode stays in memory.
AllociLate(s, type, major) ==
    LET free == {i \in Inodes : s.img.ino[i].type = 0}
        i == CHOOSE i \in free : \A j \in free : i <= j
        InMemory(g) == [g EXCEPT !.s.ic[g.k].n = NewInode(type, major)]
    IN  IF free = {} THEN [s |-> Fail(s), k |-> 0] ELSE InMemory(GetInode(s, i))

\* tinyfs_alloci: the first inode on disk without a type.
Alloci(s, type, major) ==
    LET free == {i \in Inodes : s.img.ino[i].type = 0}
        i == CHOOSE i \in free : \A j \in free : i <= j
        Taken(r) == Write(r, [r.img EXCEPT !.ino[i] = NewInode(type, major)])
    IN  IF free = {} THEN [s |-> Fail(s), k |-> 0]
        ELSE GetInode(Taken(Iterate(LAMBDA t, j : Read(t, IBlock(j + 1)), s, i)), i)

-----------------------------------------------------------------------------
(* Directories and paths *)

\* The test of tinyfs_lookupi, strncmp over the length of the name asked for.
Matches(name, entry) == entry[1] # 0 /\ (name = entry[2] \/ <<name, entry[2]>> \in PrefixOf)

\* The offset of the entry tinyfs_lookupi and tinyfs_data_linki stop at, or
\* the number of entries.
OrEnd(i, entries) == IF i = 0 THEN Len(entries) ELSE i - 1
FirstMatch(entries, name) ==
    OrEnd(SelectInSeq(entries, LAMBDA e : Matches(name, e)), entries)
FirstFree(entries) == OrEnd(SelectInSeq(entries, LAMBDA e : e[1] = 0), entries)

\* Flaw: the loop stops one entry early.
LookupFlaw(s, k, name) ==
    LET size == s.ic[k].n.size - 1
        Stop(r, at) == IF at = size THEN [s |-> r.s, k |-> 0]
                       ELSE GetInode(DataRead(s, k, 0, at + 1).s, r.data[at + 1][1])
        Scan(r) == Stop(r, FirstMatch(r.data, name))
    IN  Scan(DataRead(s, k, 0, size))

\* tinyfs_lookupi; slot 0 is NULL.
Lookup(s, k, name) ==
    LET size == s.ic[k].n.size
        Stop(r, at) == IF at = size THEN [s |-> r.s, k |-> 0]
                       ELSE GetInode(DataRead(s, k, 0, at + 1).s, r.data[at + 1][1])
        Scan(r) == Stop(r, FirstMatch(r.data, name))
    IN  Scan(DataRead(s, k, 0, size))

\* Flaw: a full directory does not grow, its last entry is taken.
LinkFlaw(s, k, idx, name) ==
    LET size == s.ic[k].n.size
        Enter(at) == DataWrite(s, k, IF at = size THEN size - 1 ELSE at, << <<idx, name>> >>).s
    IN  Enter(FirstFree(DataRead(s, k, 0, size).data))

\* tinyfs_data_linki: the first free entry, or one more at the end; it is the
\* directory whose n_link is raised.
Link(s, k, idx, name) ==
    LET size == s.ic[k].n.size
        Room(at) == IF at = size THEN [DataRead(s, k, 0, size).s EXCEPT !.ic[k].n.size = @ + 1]
                    ELSE DataRead(s, k, 0, at + 1).s
        Enter(at) == [DataWrite(Room(at), k, at, << <<idx, name>> >>).s EXCEPT
                        !.ic[k].n.n_link = @ + 1]
    IN  Enter(FirstFree(DataRead(s, k, 0, size).data))

\* One turn of the loop of namex; t.k = 0 once NULL is to be returned.
Component(t, name) ==
    IF t.k = 0 \/ ~t.s.ok THEN t
    ELSE IF t.s.ic[t.k].n.type # T_DIR THEN [s |-> t.s, k |-> 0]
    ELSE Lookup(t.s, t.k, name)

\* namex.  The references it takes to the directories on the way stay.
Walk(s, start, path) ==
    Iterate(LAMBDA t, i : Component(t, path[i + 1]), [s |-> Dup(s, start), k |-> start], Len(path))

\* namei_parent: the last name is not looked up, but wants a directory.
WalkParent(s, start, path) ==
    LET OnlyDir(t) == IF t.k # 0 /\ t.s.ok /\ t.s.ic[t.k].n.type # T_DIR
                      THEN [t EXCEPT !.k = 0] ELSE t
    IN  OnlyDir(Walk(s, start, Front(path)))

\* Flaw: the directory is written before the new inode.
CreateIFlaw(s, start, path, type, major) ==
    LET Written(t, d, k) == [s |-> MetaWrite(MetaWrite(t, d), k), k |-> k]
        Enter(new, d) ==
          IF ~new.s.ok THEN new
          ELSE Written(Link(new.s, d, new.s.ic[new.k].idx, Last(path)), d, new.k)
        Add(old, d) == IF ~old.s.ok \/ old.k # 0 THEN old
                       ELSE Enter(AllociLate(old.s, type, major), d)
        In(dp) == IF dp.k = 0 \/ ~dp.s.ok THEN dp
                  ELSE Add(Lookup(dp.s, dp.k, Last(path)), dp.k)
    IN  In(WalkParent(s, start, path))

\* do_createi, called for files and devices only.
CreateI(s, start, path, type, major) ==
    LET Written(t, d, k) == [s |-> MetaWrite(MetaWrite(t, k), d), k |-> k]
        Enter(new, d) ==
          IF ~new.s.ok THEN new
          ELSE Written(Link(new.s, d, new.s.ic[new.k].idx, Last(path)), d, new.k)
        Same(old) == type = T_FILE /\ old.s.ic[old.k].n.type = T_FILE
        Add(old, d) == IF ~old.s.ok THEN old
                       ELSE IF old.k # 0 THEN [old EXCEPT !.k = IF Same(old) THEN @ ELSE 0]
                       ELSE Enter(Alloci(old.s, type, major), d)
        In(dp) == IF dp.k = 0 \/ ~dp.s.ok THEN dp
                  ELSE Add(Lookup(dp.s, dp.k, Last(path)), dp.k)
    IN  In(WalkParent(s, start, path))

-----------------------------------------------------------------------------
(* System calls.  A call commits what it computed, or the power fails after *)
(* one of its writes and the machine comes up again with that disk.         *)

NoInode == [ref |-> 0, idx |-> 0, n |-> NewInode(0, 0)]
NoFile == [ref |-> 0, ip |-> 0, off |-> 0, of |-> 0]
NoProc == [live |-> FALSE, ofile |-> [i \in Fds |-> 0], cwd |-> 0]

\* Memory as the kernel starts, with the first process about to call setup.
PowerOn(im, over) ==
    /\ fails < MaxFails /\ fails' = fails + 1
    /\ img' = im
    /\ cached' = {}
    /\ ic' = [k \in Slots |-> NoInode]
    /\ file' = [f \in Files |-> NoFile]
    /\ proc' = [p \in Procs |-> [NoProc EXCEPT !.live = (p = 1)]]
    /\ wrapped' = (wrapped \/ over)
    /\ UNCHANGED <<wild, host>>

Commit(s) ==
    /\ img' = s.img
    /\ IF s.ok THEN cached' = s.cached /\ ic' = s.ic ELSE UNCHANGED <<cached, ic>>
    /\ wild' = ~s.ok
    /\ wrapped' = (wrapped \/ s.over)
    /\ UNCHANGED <<fails, host>>

Cut(s) == \E i \in DOMAIN s.log : PowerOn(s.log[i], s.over)

\* A process that can make calls: it runs, and setup has given it a root.
Caller(p) == ~wild /\ proc[p].live /\ proc[p].cwd # 0

Image(tree) == Make(tree, "top")

-----------------------------------------------------------------------------
(* What is on a disk im.                                                    *)

\* The disk block of block bn of inode i, or 0.
Address(im, i, bn) ==
    IF bn < ND THEN im.ino[i].addr[bn]
    ELSE IF im.ino[i].addr[ND] = 0 THEN 0
    ELSE im.blk[im.ino[i].addr[ND]][bn - ND][1]

\* The unit at offset off of inode i; blocks never allocated read as zero.
Unit(im, i, off) == IF Address(im, i, off \div BS) = 0 THEN Zero
                    ELSE im.blk[Address(im, i, off \div BS)][off % BS]

FileBlocks == 0 .. ND + BS - 1
FileUnits == 0 .. BS * (ND + BS) - 1
Offsets(im, i) == 0 .. im.ino[i].size - 1
Directories(im) == {i \in Inodes : im.ino[i].type = T_DIR}

\* No directory names an inode that is not allocated.
EntriesNameInodes(im) ==
    \A d \in Directories(im) : \A off \in Offsets(im, d) :
       Unit(im, d, off)[1] # 0 => /\ Unit(im, d, off)[1] \in Inodes
                                  /\ im.ino[Unit(im, d, off)[1]].type # 0

\* Two entries of a directory never have the same name.
EntriesDiffer(im) ==
    \A d \in Directories(im) : \A o1, o2 \in Offsets(im, d) :
       o1 # o2 /\ Unit(im, d, o1)[1] # 0 /\ Unit(im, d, o2)[1] # 0 =>
         Unit(im, d, o1)[2] # Unit(im, d, o2)[2]

\* Blocks are on the disk, those of directories and those with addresses serve
\* nothing else, and directories are no longer than a file can be.
LaidOut(im) ==
    /\ \A i \in Inodes : /\ im.ino[i].addr[ND] \in Blocks
                         /\ \A bn \in FileBlocks : Address(im, i, bn) \in Blocks
    /\ \A i, j \in Inodes, bn \in FileBlocks :
          Address(im, i, bn) # 0 => Address(im, i, bn) # im.ino[j].addr[ND]
    /\ \A d \in Directories(im), i \in Inodes, b1, b2 \in FileBlocks :
          Address(im, d, b1) # 0 /\ Address(im, d, b1) = Address(im, i, b2) =>
            i = d /\ b1 = b2
    /\ \A d \in Directories(im) : Offsets(im, d) \subseteq FileUnits

\* Names, and what else is in units; a prover does not know it of literals that
\* they are strings.
Texts == STRING \cup {"", "w"}

\* The fields of an inode, and of an image, are unsigned numbers and names.
InodeSet == [type : 0 .. 3, major : Nat, n_link : Nat, size : Nat, addr : [0 .. ND -> Nat]]
Images == [magic : BOOLEAN, bits : SUBSET Nat, ino : [Inodes -> InodeSet],
           blk : [Blocks -> [0 .. BS - 1 -> Nat \X Texts]]]

\* What the kernel may take for granted of the disk it starts with.
WellFormed(im) ==
    im \in Images /\ LaidOut(im) /\ EntriesNameInodes(im) /\ EntriesDiffer(im)
ASSUME ImagesOK == \A tree \in Trees : WellFormed(Image(tree))

-----------------------------------------------------------------------------

Init ==
    /\ host \in Trees
    /\ img = Image(host)
    /\ cached = {}
    /\ ic = [k \in Slots |-> NoInode]
    /\ file = [f \in Files |-> NoFile]
    /\ proc = [p \in Procs |-> [NoProc EXCEPT !.live = (p = 1)]]
    /\ wild = FALSE
    /\ fails = 0
    /\ wrapped = FALSE

\* sys_setup with fs_init.  initcode calls it once; nothing keeps another
\* process from calling it again.
Setup(p) ==
    /\ ~wild /\ proc[p].live
    /\ LET r == GetInode(Read(Start, SbBlock), RootIno)
       IN  IF ~img.magic THEN Commit(Fail(r.s)) /\ UNCHANGED proc
           ELSE Commit(r.s) /\ proc' = [proc EXCEPT ![p].cwd = r.k]
    /\ UNCHANGED file

\* file_alloc and proc_add_file: 0 and -1 when there is none.
FreeFile == LET free == {f \in Files : file[f].ref = 0}
            IN  IF free = {} THEN 0 ELSE CHOOSE f \in free : \A g \in free : f <= g
FreeFd(p) == LET free == {i \in Fds : proc[p].ofile[i] = 0}
             IN  IF free = {} THEN -1 ELSE CHOOSE i \in free : \A j \in free : i <= j

\* The end of sys_open, with r the inode found.  Without a descriptor the
\* struct file stays allocated; the reference to the inode always stays.
Opened(p, r) ==
    /\ Commit(r.s)
    /\ IF ~r.s.ok \/ r.k = 0 \/ FreeFile = 0 THEN UNCHANGED <<file, proc>>
       ELSE IF FreeFd(p) = -1
       THEN file' = [file EXCEPT ![FreeFile].ref = 1] /\ UNCHANGED proc
       ELSE /\ file' = [file EXCEPT ![FreeFile] =
                          [ref |-> 1, ip |-> r.k, off |-> 0, of |-> r.s.ic[r.k].idx]]
            /\ proc' = [proc EXCEPT ![p].ofile[FreeFd(p)] = FreeFile]

Open(p, path) == Caller(p) /\ Opened(p, Walk(Start, proc[p].cwd, path))

Created(p, path) == CreateI(Start, proc[p].cwd, path, T_FILE, 0)

OpenCreate(p, path) ==
    /\ Caller(p) /\ path # <<>>
    /\ LET r == Created(p, path) IN Opened(p, r) \/ Cut(r.s)

\* sys_mknod returns 0 whatever happens.
Mknod(p, path) ==
    /\ Caller(p) /\ path # <<>>
    /\ LET r == CreateI(Start, proc[p].cwd, path, T_DEV, 1)
       IN  \/ Commit(r.s) /\ UNCHANGED <<file, proc>>
           \/ Cut(r.s)

\* The file behind a descriptor, and the inode it is read through.
At(p, fd) == proc[p].ofile[fd]
Regular(p, fd) == At(p, fd) # 0 /\ ic[file[At(p, fd)].ip].n.type # T_DEV

\* sys_read; a device is read through devsw, which changes nothing here.
SysRead(p, fd, cnt) ==
    /\ Caller(p) /\ Regular(p, fd)
    /\ LET f == At(p, fd)
           r == DataRead(Start, file[f].ip, file[f].off, cnt)
       IN  /\ Commit(r.s)
           /\ file' = IF r.ret > 0 THEN [file EXCEPT ![f].off = @ + r.ret] ELSE file
    /\ UNCHANGED proc

\* sys_write of cnt units that name the inode the caller opened.  It writes to
\* directories too and ignores the mode given to open; that no process does so
\* to a directory is an assumption.
SysWrite(p, fd, cnt) ==
    /\ Caller(p) /\ Regular(p, fd)
    /\ ic[file[At(p, fd)].ip].n.type # T_DIR
    /\ LET f == At(p, fd)
           r == DataWrite(Start, file[f].ip, file[f].off,
                          [i \in 1 .. cnt |-> <<file[f].of, "w">>])
       IN  \/ /\ Commit(r.s)
              /\ file' = IF r.ret > 0 THEN [file EXCEPT ![f].off = @ + r.ret] ELSE file
              /\ UNCHANGED proc
           \/ Cut(r.s)

\* Flaw: the descriptor is shared without raising ref.
SysDupFlaw(p, fd) ==
    /\ Caller(p) /\ FreeFd(p) # -1 /\ At(p, fd) # 0
    /\ Commit(Start)
    /\ proc' = [proc EXCEPT ![p].ofile[FreeFd(p)] = At(p, fd)]
    /\ UNCHANGED file

\* sys_dup raises ref through a pointer it has not checked.
SysDup(p, fd) ==
    /\ Caller(p) /\ FreeFd(p) # -1
    /\ IF At(p, fd) = 0 THEN Commit(Fail(Start)) /\ UNCHANGED <<file, proc>>
       ELSE /\ Commit(Start)
            /\ file' = [file EXCEPT ![At(p, fd)].ref = @ + 1]
            /\ proc' = [proc EXCEPT ![p].ofile[FreeFd(p)] = At(p, fd)]

\* sys_fstat only reports, but reads through NULL for an empty descriptor.
Fstat(p, fd) == Caller(p) /\ At(p, fd) = 0 /\ Commit(Fail(Start)) /\ UNCHANGED <<file, proc>>

\* sys_close of an open descriptor panics, "not implement".
Close(p, fd) == Caller(p) /\ At(p, fd) # 0 /\ Commit(Fail(Start)) /\ UNCHANGED <<file, proc>>

\* Descriptors of p that hold f.
Holds(p, f) == Cardinality({i \in Fds : proc[p].ofile[i] = f})

\* The part of sys_fork about files.
Fork(p, q) ==
    /\ Caller(p) /\ ~proc[q].live
    /\ Commit(Dup(Dup(Start, proc[p].cwd), proc[p].cwd))
    /\ file' = [f \in Files |-> [file[f] EXCEPT !.ref = @ + Holds(p, f)]]
    /\ proc' = [proc EXCEPT ![q] = proc[p]]

\* Flaw: exit lowers ref of the inode behind descriptor 0, whoever shares it.
ExitFlaw(p) ==
    /\ Caller(p)
    /\ Commit([Start EXCEPT !.ic = [k \in Slots |->
          [ic[k] EXCEPT !.ref = (@ - (IF k = proc[p].cwd THEN 2 ELSE 0)
            - (IF At(p, 0) # 0 /\ file[At(p, 0)].ip = k THEN 1 ELSE 0)) % RefMod]]])
    /\ file' = [f \in Files |-> [file[f] EXCEPT !.ref = @ - Holds(p, f)]]
    /\ proc' = [proc EXCEPT ![p] = NoProc]

\* The part of sys_exit about files, and the slot given back (in sys_wait).
\* ref is 16 bits wide.  Closing a file leaves its inode alone.
Exit(p) ==
    /\ Caller(p)
    /\ Commit([Start EXCEPT !.ic[proc[p].cwd].ref = (@ - 2) % RefMod])
    /\ file' = [f \in Files |-> [file[f] EXCEPT !.ref = @ - Holds(p, f)]]
    /\ proc' = [proc EXCEPT ![p] = NoProc]

\* Power fails between two calls.
PowerFails == ~wild /\ PowerOn(img, FALSE)

Next ==
    \/ \E p \in Procs :
         \/ Setup(p)
         \/ \E path \in Paths : Open(p, path) \/ OpenCreate(p, path) \/ Mknod(p, path)
         \/ \E fd \in Fds : \/ \E n \in Counts : SysRead(p, fd, n) \/ SysWrite(p, fd, n)
                            \/ SysDup(p, fd)
                            \/ Fstat(p, fd) \/ Close(p, fd)
         \/ \E q \in Procs : Fork(p, q)
         \/ Exit(p)
    \/ PowerFails

Spec == Init /\ [][Next]_vars

-----------------------------------------------------------------------------
(* Properties *)

Inode(i) == img.ino[i]

\* Runs are cut where a ref wraps around: of what follows little is claimed.
BeforeWrap == ~wrapped

\* The fields of every table hold what their types allow, ref its 16 bits too;
\* blocks that are read lie on the disk as long as no ref has wrapped around.
TypeOK ==
    /\ \A b \in Blocks : DOMAIN img.blk[b] = 0 .. BS - 1
    /\ \A i \in Inodes : Inode(i).type \in 0 .. 3 /\ Inode(i).n_link \in Nat
    /\ wrapped \/ cached \subseteq Blocks
    /\ \A k \in Slots : ic[k].ref \in 0 .. RefMod - 1 /\ ic[k].idx \in Inodes \cup {0}
    /\ \A f \in Files : file[f].ip \in Slots \cup {0} /\ file[f].off \in Nat
    /\ \A p \in Procs : /\ proc[p].cwd \in Slots \cup {0}
                      /\ \A i \in Fds : proc[p].ofile[i] \in Files \cup {0}
    /\ wild \in BOOLEAN /\ wrapped \in BOOLEAN

Holders(f) == Cardinality({x \in Procs \X Fds : proc[x[1]].ofile[x[2]] = f})

\* A struct file counts the descriptors that hold it, over open, dup, fork
\* and exit of several processes; only one lost by sys_open stays at 1 with
\* none (sys_file.c:59-70, 244-267, proc.c:169-172, 204-209).
DescriptorsCounted ==
    wild \/ \A f \in Files : file[f].ref = Holders(f) \/ (file[f].ref = 1 /\ Holders(f) = 0)

\* As long as a descriptor is open it reads and writes the inode that was
\* opened, until a ref wraps around: no count that exit lowers lets its cache
\* entry be given to another (tinyfs.c:81-104, proc.c:211-214).
DescriptorKeepsInode ==
    wrapped \/ wild \/
      \A f \in Files : Holders(f) > 0 =>
        ic[file[f].ip].ref > 0 /\ ic[file[f].ip].idx = file[f].of

\* Until a ref wraps around an inode is in one cache entry, and between calls
\* the entry is what is on the disk, so a restart loses nothing
\* (tinyfs.c:146-207, indexfs.c:125-136).
CacheCoherent ==
    wrapped \/ wild \/
      \A k \in Slots : ic[k].ref > 0 =>
        /\ ic[k].n = Inode(ic[k].idx)
        /\ \A j \in Slots : ic[j].ref > 0 /\ ic[j].idx = ic[k].idx => j = k

\* No directory on the disk names an inode that is not allocated, wherever
\* the power fails in creating a file (indexfs.c:125-134).  Once a ref has
\* wrapped around, two entries of the cache may write the same directory.
EntriesAllocated == wrapped \/ EntriesNameInodes(img)

\* Two entries of a directory never have the same name, although creating
\* looks the name up first and enters it later (indexfs.c:116-132); until a
\* ref wraps around.
NamesUnique == wrapped \/ EntriesDiffer(img)

\* Nothing removes an entry: once it is on the disk it stays what it is, over
\* every call and every restart (tinyfs.c:297-320), until a ref wraps around.
Kept(im, jm) ==
    \A d \in Directories(im), off \in FileUnits :
       off \in Offsets(im, d) /\ Unit(im, d, off)[1] # 0 =>
         /\ d \in Directories(jm) /\ off \in Offsets(jm, d)
         /\ Unit(jm, d, off) = Unit(im, d, off)
EntriesKept == [][wrapped' \/ Kept(img, img')]_vars

\* Entries of a host directory to which a path leads: tinyfs_lookupi stops at an
\* earlier one that begins with the name asked for (tinyfs.c:214, 230).
Listed(entries) ==
    {entries[i] : i \in {j \in DOMAIN entries :
       \A k \in 1 .. j - 1 : <<entries[j].name, entries[k].name>> \notin PrefixOf}}

\* Files of a host tree: [path, data].  Trees are at most two levels deep.
HostFiles(tree) ==
    UNION {IF e.sub = "" THEN {[path |-> <<e.name>>, data |-> e.data]}
           ELSE {[path |-> <<e.name, x.name>>, data |-> x.data] : x \in Listed(tree[e.sub])}
             : e \in Listed(tree["top"])}

\* The blocks mkfs.tinyfs stores of a file: see AppendBlock.
Stored(data) == IF Len(data) > BS * (ND + 1) THEN BS * (ND + 1) ELSE Len(data)

\* A kernel that starts on this disk finds file h of the host by its path, and
\* in it what the host had there or what was written through a descriptor of
\* that very file.
Finds(h) ==
    LET Same(w, r) ==
          /\ w.k # 0 /\ r.s.ok
          /\ r.ret = Stored(h.data)
          /\ \A i \in 1 .. r.ret : r.data[i] \in {h.data[i], <<w.s.ic[w.k].idx, "w">>}
        File(w) == Same(w, DataRead(w.s, w.k, 0, Stored(h.data)))
        Root(r) == File(Walk(r.s, r.k, h.path))
    IN  Root(GetInode([Start EXCEPT !.cached = {}, !.ic = [k \in Slots |-> NoInode]],
                      RootIno))

\* Until a ref wraps around every file of the host is found by its path, but
\* for those with an entry before them that begins with their name
\* (mkfs.c:281-343, tinyfs.c:209-295, indexfs.c:50-92).
ReadsBack == wrapped \/ \A h \in HostFiles(host) : Finds(h)

\* The layout in mkfs.tinyfs/common.h:24-28 puts data behind the boot block,
\* the super block, the inodes and the bitmap: nothing else goes there.
DataInDataBlocks == \A b \in 0 .. DataOff - 1 : img.blk[b] = ZeroBlock

=============================================================================
