-------------------------------- MODULE Mkfs --------------------------------
(***************************************************************************)
(* mkfs.tinyfs: the program that puts a directory tree of the host into a  *)
(* disk image.  It runs once and alone, so it is a function from trees to  *)
(* images, not a state machine; Fs boots the kernel on its result.         *)
(*                                                                         *)
(* Sizes and offsets count units of 16 bytes, the size of a directory      *)
(* entry.  A unit is <<n, s>>: a directory entry names inode n with s, an  *)
(* address in an indirect block is <<n, "">>, anything else is data.       *)
(***************************************************************************)
EXTENDS Integers, Sequences, SequencesExt, FiniteSets

CONSTANTS BS,          \* units in a block (32)
          ND,          \* direct addresses of an inode (12)
          IPB,         \* inodes in a block (8)
          LogBlocks,   \* blocks set aside for a log nobody writes (30)
          InodeBlocks, \* blocks for inodes (129)
          MaxBlocks,   \* blocks of the image (1024)
          MaxInodes    \* inode numbers are below this (100)

ASSUME SizesOK == /\ {BS, ND, IPB, InodeBlocks} \subseteq Nat \ {0}
                  /\ LogBlocks \in Nat
                  /\ MaxInodes - 1 \in 1 .. IPB * InodeBlocks - 1
                  /\ MaxBlocks \in Nat /\ MaxBlocks > 3 + LogBlocks + InodeBlocks

T_DIR == 1
T_FILE == 2
T_DEV == 3
RootIno == 1

\* | boot | super | log | inodes | bitmap | data |
SbBlock == 1
InodesOff == 2 + LogBlocks
BitmapOff == InodesOff + InodeBlocks
DataOff == BitmapOff + 1
Blocks == 0 .. MaxBlocks - 1
Inodes == 1 .. MaxInodes - 1

Zero == <<0, "">>
ZeroBlock == [u \in 0 .. BS - 1 |-> Zero]

\* An inode on disk; addr[ND] is the indirect block.  minor is left out.
NewInode(type, major) ==
    [type |-> type, major |-> major, n_link |-> 0, size |-> 0,
     addr |-> [i \in 0 .. ND |-> 0]]

\* mkfs_ctx_empty_dst_img.  The blocks that hold inodes, the bitmap and the
\* super block have fields of their own; blk is what the data path sees.
EmptyImage == [magic |-> FALSE, bits |-> {},
               ino |-> [i \in Inodes |-> NewInode(0, 0)],
               blk |-> [b \in Blocks |-> ZeroBlock]]

\* block_mark_alloc fills a buffer of its own and writes it nowhere.
BlockMarkAlloc(img, end) == img

\* mkfs_ctx_init and mkfs_ctx_sb_init: counters of free inodes and blocks.
Context == [img |-> BlockMarkAlloc(EmptyImage, DataOff),
            inode_free |-> RootIno, block_free |-> DataOff]

BlockAlloc(c) ==
    [c |-> [c EXCEPT !.block_free = @ + 1, !.img.bits = @ \cup {c.block_free}],
     b |-> c.block_free]

\* Flaw: an inode is stored as it was when allocated.
PutInodeFlaw(o) == [o.c EXCEPT !.img.ino[o.info.idx] = NewInode(o.info.n.type, 0)]

\* An open inode is [c, info], c being the context and info the inode in memory.
PutInode(o) == [o.c EXCEPT !.img.ino[o.info.idx] = o.info.n]

InodeAlloc(c, type) ==
    LET info == [idx |-> c.inode_free, n |-> NewInode(type, 0)]
    IN  [c |-> PutInode([c |-> [c EXCEPT !.inode_free = @ + 1], info |-> info]),
         info |-> info]

-----------------------------------------------------------------------------
(* inode_append *)

\* The block that takes the data at the end of a file, allocated if need be.
\* The first use of the indirect block also stores the address in it.  In a
\* later call `addr' is not initialised: built with -O0 it still names the
\* dead buffer of the call before, so a block is allocated and its address is
\* written nowhere (inode_op.c:191-203).
AppendBlock(o) ==
    LET j == o.info.n.size \div BS
        On(b) == [c |-> o.c, info |-> o.info, b |-> b]
        Direct(new) == [c |-> new.c, info |-> [o.info EXCEPT !.n.addr[j] = new.b], b |-> new.b]
        First(ind, new) == [c |-> [new.c EXCEPT !.img.blk[ind][j - ND] = <<new.b, "">>],
                            info |-> [o.info EXCEPT !.n.addr[ND] = ind], b |-> new.b]
        Table(new) == First(new.b, BlockAlloc(new.c))
        Later(new) == [c |-> new.c, info |-> o.info, b |-> new.b]
    IN  CASE j < ND /\ o.info.n.addr[j] # 0 -> On(o.info.n.addr[j])
          [] j < ND /\ o.info.n.addr[j] = 0 -> Direct(BlockAlloc(o.c))
          [] j >= ND /\ o.info.n.addr[ND] = 0 -> Table(BlockAlloc(o.c))
          [] OTHER -> Later(BlockAlloc(o.c))

\* Data handed over in one call never crosses a block: an entry is one unit,
\* and a file arrives block by block.
InodeAppend(o, data) ==
    LET i == o.info.n.size % BS
        Copied(t) == [c |-> [t.c EXCEPT !.img.blk[t.b] =
                               [u \in 0 .. BS - 1 |->
                                  IF u \in i .. i + Len(data) - 1 THEN data[u - i + 1]
                                                                  ELSE @[u]]],
                      info |-> [t.info EXCEPT !.n.size = @ + Len(data)]]
    IN  Copied(AppendBlock(o))

-----------------------------------------------------------------------------
(* The tree.  tree[d] is what readdir returns for host directory d: a       *)
(* sequence of [name, sub, data], where sub is a host directory, or "" for  *)
(* a file with the units data.                                              *)

Mkdir(c, name, parent) ==
    LET Dots(new, up) ==
          [InodeAppend(InodeAppend(new, << <<new.info.idx, ".">> >>),
                       << <<up, "..">> >>) EXCEPT !.info.n.n_link = @ + 2]
        Linked(q, child) == [c |-> q.c, child |-> child,
                             parent |-> [q.info EXCEPT !.n.n_link = @ + 1]]
        Entered(t, dir) ==
          Linked(InodeAppend([c |-> t.c, info |-> dir], << <<t.info.idx, name>> >>), t.info)
        Top(t) == [c |-> t.c, child |-> t.info, parent |-> t.info]
        Made(new) ==
          IF parent = {} THEN Top(Dots(new, new.info.idx))
          ELSE Entered(Dots(new, (CHOOSE q \in parent : TRUE).idx), CHOOSE q \in parent : TRUE)
    IN  Made(InodeAlloc(c, T_DIR))

AddFile(c, name, data, dir) ==
    LET chunks == [k \in 1 .. (Len(data) + BS - 1) \div BS |->
                     SubSeq(data, (k - 1) * BS + 1,
                            IF k * BS < Len(data) THEN k * BS ELSE Len(data))]
        Filled(new, d) ==
          [c |-> PutInode(FoldLeft(InodeAppend,
                                   [c |-> d.c, info |-> [new.info EXCEPT !.n.n_link = 1]],
                                   chunks)),
           dir |-> d.info]
        Entered(new) ==
          Filled(new, InodeAppend([c |-> new.c, info |-> dir], << <<new.info.idx, name>> >>))
    IN  Entered(InodeAlloc(c, T_FILE))

\* One turn of the outer loop of mkfs_ctx_build_rootfs: take the directory on
\* top of `queue', which is a stack, add what it holds, push what it contains.
Visit(tree, t) ==
    LET File(v, r) == [v EXCEPT !.c = r.c, !.dir = r.dir]
        Sub(v, r, sub) == [c |-> r.c, dir |-> r.parent,
                           queue |-> Append(v.queue, [sub |-> sub, info |-> r.child])]
        AddEntry(v, e) ==
          IF e.sub = "" THEN File(v, AddFile(v.c, e.name, e.data, v.dir))
          ELSE Sub(v, Mkdir(v.c, e.name, {v.dir}), e.sub)
        Done(v) == [c |-> PutInode([c |-> v.c, info |-> v.dir]), queue |-> v.queue]
        Open(last) == FoldLeft(AddEntry,
                               [c |-> t.c, dir |-> last.info, queue |-> Front(t.queue)],
                               tree[last.sub])
    IN  Done(Open(Last(t.queue)))

\* main, with `top' the directory given by -d; every directory is visited once.
Make(tree, top) ==
    LET Build(root) == FoldLeft(LAMBDA t, d : Visit(tree, t),
                                [c |-> root.c, queue |-> << [sub |-> top, info |-> root.child] >>],
                                SetToSeq(DOMAIN tree))
    IN  [Build(Mkdir(Context, top, {})).c.img EXCEPT !.magic = TRUE]
=============================================================================
