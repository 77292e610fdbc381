--------------------------------- MODULE Bio ---------------------------------
(***************************************************************************)
(* The block buffer cache of src/kernel/bio.c, its request queue, and the  *)
(* two drivers behind it: src/driver/ide/ide.c, which completes a request  *)
(* in the disk interrupt, and emmc_rw of src/driver/emmc/sd.c, which       *)
(* completes it at once.  The caller busy-waits, so the kernel's one       *)
(* thread of control has at most one request under way.                    *)
(*                                                                         *)
(* A definition marked "Flaw" is a plausible slip in the definition after  *)
(* it; no action uses it, and a run is known to notice it.                 *)
(***************************************************************************)
EXTENDS Integers, Sequences

CONSTANTS
    BLOCK_BUF_NUM,  \* bio.h:7
    Blocks,         \* block numbers of the one device
    Contents,       \* what a block can hold
    Zero,           \* the contents memset() leaves
    NoBlock,        \* a buffer that was never used
    MaxHeld,        \* bound: references to a buffer at a time
    CntMod,         \* item_cnt is unsigned: it counts modulo 2^32
    Drivers,        \* the drivers a kernel may be built with: "ide", "emmc"
    MayFail,        \* the disk may report an error
    MayStray        \* the IDE disk may interrupt although it ended no command

ASSUME BufAssumption == BLOCK_BUF_NUM \in Nat \ {0} /\ CntMod \in Nat /\ CntMod > BLOCK_BUF_NUM
ASSUME BlockAssumption == NoBlock \notin Blocks /\ Zero \notin Contents
ASSUME HeldAssumption == MaxHeld \in Nat \ {0}
ASSUME DriverAssumption == Drivers \subseteq {"ide", "emmc"} /\ {MayFail, MayStray} \subseteq BOOLEAN

Bufs == 1 .. BLOCK_BUF_NUM
Data == Contents \cup {Zero}

VARIABLES
    valid, dirty,  \* BLOCK_FLAG_VALID and BLOCK_FLAG_DIRTY of each buffer
    blk,           \* block_buf.idx
    ref,           \* block_buf.ref_cnt
    data,          \* block_buf.data
    queue,         \* g_io_queue.queue
    itemCnt,       \* g_io_queue.item_cnt
    pc,            \* where bio_read or bio_write stands, or "ready"
    cur,           \* its buffer
    ctl,           \* the disk controller: its command and its interrupt line
    disk,          \* what the disk holds
    driver,        \* the driver behind dev->rw
    failed,        \* history: the disk reported an error
    strayed        \* history: the disk interrupted without having ended a command

cache == <<valid, dirty, blk, ref, data>>
io == <<queue, itemCnt>>
world == <<driver, failed, strayed>>
vars == <<cache, io, pc, cur, ctl, disk, world>>

Quiet == [st |-> "quiet"]

(* The types, until the disk first interrupts out of turn: what the driver  *)
(* then writes over memory has no type.                                     *)
TypeOK == ~strayed =>
    /\ valid \in [Bufs -> BOOLEAN] /\ dirty \in [Bufs -> BOOLEAN]
    /\ blk \in [Bufs -> Blocks \cup {NoBlock}]
    /\ ref \in [Bufs -> 0 .. MaxHeld]
    /\ data \in [Bufs -> Data]
    /\ queue \in Seq(Bufs)
    /\ itemCnt \in 0 .. CntMod - 1
    /\ pc \in {"ready", "sched", "issue", "wait", "null"}
    /\ cur \in Bufs
    /\ \/ ctl = Quiet
       \/ ctl \in [st : {"read"}, b : Blocks]
       \/ ctl \in [st : {"write"}, b : Blocks, d : Data]
       \/ ctl \in [st : {"ok"}, d : Data]
       \/ ctl = [st |-> "error"]
    /\ disk \in [Blocks -> Data]
    /\ driver \in Drivers /\ failed \in BOOLEAN

Init ==
    /\ valid = [i \in Bufs |-> FALSE] /\ dirty = [i \in Bufs |-> FALSE]
    /\ blk = [i \in Bufs |-> NoBlock]
    /\ ref = [i \in Bufs |-> 0]
    /\ data = [i \in Bufs |-> Zero]
    /\ queue = <<>> /\ itemCnt = 0
    /\ pc = "ready" /\ cur = 1
    /\ ctl = Quiet
    /\ disk \in [Blocks -> Contents]
    /\ driver \in Drivers /\ failed = FALSE /\ strayed = FALSE

Synced(i) == valid[i] /\ ~dirty[i]

-----------------------------------------------------------------------------
(* Parts that two operations share.                                         *)

(* Flaw: the count is forgotten.                                            *)
PopUncounted ==
    /\ queue' = Tail(queue)
    /\ UNCHANGED itemCnt

(* bio_pop                                                                  *)
Pop ==
    /\ queue' = Tail(queue)
    /\ itemCnt' = (itemCnt + CntMod - 1) % CntMod

(* Flaw: DIRTY stays.                                                       *)
CompleteDirty(i) ==
    /\ valid' = [valid EXCEPT ![i] = TRUE]
    /\ UNCHANGED dirty

(* The end of ide_intr and of emmc_rw: VALID is set and DIRTY cleared.      *)
Complete(i) ==
    /\ valid' = [valid EXCEPT ![i] = TRUE]
    /\ dirty' = [dirty EXCEPT ![i] = FALSE]

-----------------------------------------------------------------------------
(* bio_read: bio_get, then a request unless the buffer is valid.            *)

ReadHit(b) ==
    /\ pc = "ready"
    /\ \E i \in Bufs :
        /\ blk[i] = b /\ ref[i] < MaxHeld
        /\ \A j \in Bufs : j < i => blk[j] # b
        /\ ref' = [ref EXCEPT ![i] = @ + 1]
        /\ cur' = i
        /\ pc' = IF valid[i] THEN "ready" ELSE "sched"
    /\ UNCHANGED <<valid, dirty, blk, data, io, ctl, disk, world>>

(* Flaw: an unused buffer is taken without a look for a cached one.         *)
RecycleFirst(b) ==
    /\ pc = "ready"
    /\ \E i \in Bufs :
        /\ ref[i] = 0
        /\ \A j \in Bufs : j < i => ref[j] # 0
        /\ ref' = [ref EXCEPT ![i] = 1]
        /\ blk' = [blk EXCEPT ![i] = b]
        /\ valid' = [valid EXCEPT ![i] = FALSE]
        /\ dirty' = [dirty EXCEPT ![i] = FALSE]
        /\ data' = [data EXCEPT ![i] = Zero]
        /\ cur' = i
    /\ pc' = "sched"
    /\ UNCHANGED <<io, ctl, disk, world>>

ReadRecycle(b) ==
    /\ pc = "ready"
    /\ \A i \in Bufs : blk[i] # b
    /\ \E i \in Bufs :
        /\ ref[i] = 0
        /\ \A j \in Bufs : j < i => ref[j] # 0
        /\ ref' = [ref EXCEPT ![i] = 1]
        /\ blk' = [blk EXCEPT ![i] = b]
        /\ valid' = [valid EXCEPT ![i] = FALSE]
        /\ dirty' = [dirty EXCEPT ![i] = FALSE]
        /\ data' = [data EXCEPT ![i] = Zero]
        /\ cur' = i
    /\ pc' = "sched"
    /\ UNCHANGED <<io, ctl, disk, world>>

(* No buffer: the caller gets NULL and uses it.                             *)
ReadNull(b) ==
    /\ pc = "ready"
    /\ \A i \in Bufs : blk[i] # b /\ ref[i] # 0
    /\ pc' = "null"
    /\ UNCHANGED <<cache, io, cur, ctl, disk, world>>

(* The holder of a buffer changes its data and calls bio_write.             *)
Write(i, d) ==
    /\ pc = "ready" /\ ref[i] > 0
    /\ data' = [data EXCEPT ![i] = d]
    /\ dirty' = [dirty EXCEPT ![i] = TRUE]
    /\ cur' = i
    /\ pc' = "sched"
    /\ UNCHANGED <<valid, blk, ref, io, ctl, disk, world>>

(* Flaw: a buffer nobody holds is freed, too.                               *)
FreeUnheld(i) ==
    /\ pc = "ready"
    /\ ref' = [ref EXCEPT ![i] = @ - 1]
    /\ IF ref[i] = 1
       THEN /\ valid' = [valid EXCEPT ![i] = FALSE]
            /\ dirty' = [dirty EXCEPT ![i] = FALSE]
       ELSE UNCHANGED <<valid, dirty>>
    /\ UNCHANGED <<blk, data, io, pc, cur, ctl, disk, world>>

(* bio_free: the last reference drops the contents.                         *)
Free(i) ==
    /\ pc = "ready" /\ ref[i] > 0
    /\ ref' = [ref EXCEPT ![i] = @ - 1]
    /\ IF ref[i] = 1
       THEN /\ valid' = [valid EXCEPT ![i] = FALSE]
            /\ dirty' = [dirty EXCEPT ![i] = FALSE]
       ELSE UNCHANGED <<valid, dirty>>
    /\ UNCHANGED <<blk, data, io, pc, cur, ctl, disk, world>>

(* bio_sched: the driver is called only for the request that makes one.     *)
Sched ==
    /\ pc = "sched"
    /\ queue' = <<cur>> \o queue
    /\ itemCnt' = (itemCnt + 1) % CntMod
    /\ pc' = IF itemCnt' = 1 THEN "issue" ELSE "wait"
    /\ UNCHANGED <<cache, cur, ctl, disk, world>>

(* The busy-wait of bio_read and bio_write ends.                            *)
WaitDone ==
    /\ pc = "wait" /\ Synced(cur)
    /\ pc' = "ready"
    /\ UNCHANGED <<cache, io, cur, ctl, disk, world>>

-----------------------------------------------------------------------------
(* ide.c                                                                    *)

(* ide_do_request; a write hands its data over with the command.            *)
Command(i) ==
    IF dirty[i] THEN [st |-> "write", b |-> blk[i], d |-> data[i]]
                ELSE [st |-> "read", b |-> blk[i]]

(* bio_front and rw at the end of ide_intr: the next request, if any.       *)
NextCommand(idle) ==
    IF Tail(queue) = <<>> \/ Synced(Head(Tail(queue)))
    THEN idle ELSE Command(Head(Tail(queue)))

(* Flaw: the caller goes on without the wait for its request.               *)
IdeRwNoWait ==
    /\ driver = "ide" /\ pc = "issue"
    /\ ctl' = IF Synced(cur) THEN ctl ELSE Command(cur)
    /\ pc' = "ready"
    /\ UNCHANGED <<cache, io, cur, disk, world>>

(* ide_rw; ide_do_request first waits for the end of the command before it, *)
(* which there can only be after an interrupt out of turn.                  *)
IdeRw ==
    /\ driver = "ide" /\ pc = "issue"
    /\ Synced(cur) \/ ctl = Quiet
    /\ ctl' = IF Synced(cur) THEN ctl ELSE Command(cur)
    /\ pc' = "wait"
    /\ UNCHANGED <<cache, io, cur, disk, world>>

(* The disk executes its command, or fails, and raises the interrupt.       *)
DiskRead ==
    /\ ctl.st = "read" /\ ctl.b \in Blocks
    /\ ctl' = [st |-> "ok", d |-> disk[ctl.b]]
    /\ UNCHANGED <<cache, io, pc, cur, disk, world>>

DiskWrite ==
    /\ ctl.st = "write" /\ ctl.b \in Blocks
    /\ disk' = [disk EXCEPT ![ctl.b] = ctl.d]
    /\ ctl' = [st |-> "ok", d |-> ctl.d]
    /\ UNCHANGED <<cache, io, pc, cur, world>>

(* It refuses, too, a block it does not have.                               *)
DiskFails ==
    /\ ctl.st \in {"read", "write"}
    /\ MayFail \/ ctl.b \notin Blocks
    /\ ctl' = [st |-> "error"]
    /\ failed' = TRUE
    /\ UNCHANGED <<cache, io, pc, cur, disk, driver, strayed>>

(* Flaw: the transfer of a read is left out.                                *)
IdeIntrNoData ==
    /\ ctl.st \in {"ok", "error"} /\ queue # <<>>
    /\ Complete(Head(queue))
    /\ Pop
    /\ ctl' = NextCommand(Quiet)
    /\ UNCHANGED <<blk, ref, data, pc, cur, disk, world>>

(* ide_intr: pop, transfer a read that succeeded, mark the buffer valid in  *)
(* any case, start the next request.                                        *)
IdeIntr ==
    /\ ctl.st \in {"ok", "error"} /\ queue # <<>>
    /\ LET i == Head(queue)
       IN  /\ data' = IF ~dirty[i] /\ ctl.st = "ok"
                      THEN [data EXCEPT ![i] = ctl.d] ELSE data
           /\ Complete(i)
    /\ Pop
    /\ ctl' = NextCommand(Quiet)
    /\ UNCHANGED <<blk, ref, pc, cur, disk, world>>

(* An interrupt out of turn while a request is queued: ide_intr pops it,    *)
(* takes what the idle disk's data port happens to hold for the block read, *)
(* and marks it done.  (If the disk is reading, the ide_wait in ide_intr    *)
(* lasts until it is ready: that is IdeIntr.)                               *)
EarlyIntr ==
    /\ driver = "ide" /\ MayStray /\ ctl.st \in {"quiet", "write"} /\ queue # <<>>
    /\ LET i == Head(queue)
       IN  /\ \E d \in Data : data' = IF dirty[i] THEN data ELSE [data EXCEPT ![i] = d]
           /\ Complete(i)
    /\ Pop
    /\ ctl' = NextCommand(ctl)
    /\ strayed' = TRUE
    /\ UNCHANGED <<blk, ref, pc, cur, disk, driver, failed>>

(* An interrupt while no request is queued.  bio_pop does not test for an   *)
(* empty queue: it takes the memory around the queue head for a buffer.     *)
(* The flags of that buffer lie before the head; the block read, if these   *)
(* do not say DIRTY, goes over item_cnt and what follows it.  Where the     *)
(* linker put g_bio_buf decides what that is of the cache: all of the first *)
(* buffer, a word of the last one's data, or nothing.                       *)
StrayIntr ==
    /\ driver = "ide" /\ MayStray /\ ctl.st \in {"quiet", "ok", "error"} /\ queue = <<>>
    /\ itemCnt' \in 0 .. CntMod - 1
    /\ \/ UNCHANGED cache
       \/ /\ \E v, w \in BOOLEAN : /\ valid' = [valid EXCEPT ![1] = v]
                                   /\ dirty' = [dirty EXCEPT ![1] = w]
          /\ \E b \in Blocks \cup {NoBlock} : blk' = [blk EXCEPT ![1] = b]
          /\ \E n \in 0 .. MaxHeld : ref' = [ref EXCEPT ![1] = n]
          /\ \E d \in Data : data' = [data EXCEPT ![1] = d]
       \/ /\ \E d \in Data : data' = [data EXCEPT ![BLOCK_BUF_NUM] = d]
          /\ UNCHANGED <<valid, dirty, blk, ref>>
    /\ ctl' = Quiet
    /\ strayed' = TRUE
    /\ UNCHANGED <<queue, pc, cur, disk, driver, failed>>

-----------------------------------------------------------------------------
(* emmc_rw of sd.c: the transfer, whose result nobody looks at, then the    *)
(* completion.  A buffer that needs no transfer never comes here.           *)
EmmcRw ==
    /\ driver = "emmc" /\ pc = "issue"
    /\ \E ok \in (IF MayFail THEN BOOLEAN ELSE {TRUE}) :
        /\ data' = IF ok /\ ~dirty[cur]
                   THEN [data EXCEPT ![cur] = disk[blk[cur]]] ELSE data
        /\ disk' = IF ok /\ dirty[cur]
                   THEN [disk EXCEPT ![blk[cur]] = data[cur]] ELSE disk
        /\ failed' = (failed \/ ~ok)
    /\ Pop
    /\ Complete(cur)
    /\ pc' = "wait"
    /\ UNCHANGED <<blk, ref, cur, ctl, driver, strayed>>

-----------------------------------------------------------------------------

Client ==
    \/ \E b \in Blocks : ReadHit(b) \/ ReadRecycle(b) \/ ReadNull(b)
    \/ \E i \in Bufs : Free(i) \/ \E d \in Contents : Write(i, d)

Progress ==
    \/ Sched \/ WaitDone \/ IdeRw \/ EmmcRw
    \/ DiskRead \/ DiskWrite \/ DiskFails \/ IdeIntr

Next == Client \/ Progress \/ EarlyIntr \/ StrayIntr

Spec == Init /\ [][Next]_vars

(* The kernel's code runs on and the disk answers every command.            *)
FairSpec == Spec /\ WF_vars(Progress)

-----------------------------------------------------------------------------
(* Properties.  They are claimed until the disk first interrupts out of     *)
(* turn; what it then overwrites decides the rest.                          *)

(* A valid buffer that is not dirty holds what the disk holds (bio.h:9), as *)
(* long as the disk has not failed: over recycling, freeing and writing.    *)
ValidIsSynced ==
    ~failed /\ ~strayed => \A i \in Bufs : Synced(i) => data[i] = disk[blk[i]]

(* The command the disk works on is that of the buffer at the front of the  *)
(* queue, to which ide_intr will credit the completion - although bio_sched *)
(* pushes at the front, and also after disk errors.                         *)
RequestMatches == ~strayed =>
    /\ ctl # Quiet => queue # <<>>
    /\ ctl.st = "read" => ~dirty[Head(queue)] /\ blk[Head(queue)] = ctl.b
    /\ ctl.st = "write" => /\ dirty[Head(queue)] /\ blk[Head(queue)] = ctl.b
                           /\ data[Head(queue)] = ctl.d

(* A block is cached once, so no two holders change different copies of it. *)
OneBufferPerBlock == ~strayed =>
    \A i, j \in Bufs : blk[i] = blk[j] /\ blk[i] # NoBlock => i = j

(* item_cnt is the length of the queue, at most one, so that bio_sched       *)
(* starts the driver exactly when nothing else will.                        *)
ItemsCounted == ~strayed => itemCnt = Len(queue) /\ Len(queue) <= 1

(* Every bio_read and bio_write returns, disk errors or not, unless the     *)
(* disk ever interrupted out of turn.                                       *)
IoReturns == pc \in {"sched", "issue", "wait"} ~> pc = "ready" \/ strayed

-----------------------------------------------------------------------------
(* Bound of the passing run: a state after an interrupt out of turn is      *)
(* checked, and its successors, of which nothing is claimed, are not made.  *)
BeforeStray == ~strayed
=============================================================================
