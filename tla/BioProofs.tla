------------------------------ MODULE BioProofs ------------------------------
(* Invariance proofs for Bio, for every number of buffers, blocks and       *)
(* contents, both drivers and disk errors, up to the first interrupt out of *)
(* turn: after it the driver has written over memory, and no claim is made. *)
EXTENDS Bio, TLAPS

(* What the place in bio_read or bio_write says about the queue and about   *)
(* the buffer it is for: the queue is empty or holds just that buffer.      *)
Standing ==
    /\ pc \in {"sched", "issue", "wait"} => ref[cur] > 0
    /\ pc \in {"ready", "sched", "null"} => queue = <<>>
    /\ pc \in {"sched", "issue"} => ~Synced(cur)
    /\ pc = "issue" => queue = <<cur>> /\ ctl = Quiet
    /\ pc = "wait" => \/ queue = <<>> /\ Synced(cur)
                      \/ queue = <<cur>> /\ ~Synced(cur)
    /\ queue = <<>> => ctl = Quiet
    /\ itemCnt = Len(queue)

(* What a buffer says about itself.                                         *)
Sound(i) ==
    /\ valid[i] => blk[i] # NoBlock
    /\ ref[i] > 0 => blk[i] # NoBlock
    /\ ref[i] = 0 => ~valid[i]

(* The command the disk works on, or has ended, belongs to cur.             *)
CommandOfCur ==
    /\ ctl.st = "read" => ~dirty[cur] /\ blk[cur] = ctl.b
    /\ ctl.st = "write" => dirty[cur] /\ blk[cur] = ctl.b /\ data[cur] = ctl.d
    /\ ctl.st = "ok" /\ ~failed => /\ ctl.d = disk[blk[cur]]
                                   /\ dirty[cur] => ctl.d = data[cur]
    /\ ctl.st = "error" => failed

Core ==
    /\ TypeOK
    /\ Standing
    /\ \A i \in Bufs : Sound(i)
    /\ OneBufferPerBlock
    /\ CommandOfCur
    /\ ValidIsSynced

IInv == ~strayed => Core

(* A history variable is never taken back.                                  *)
LEMMA OnceStrayed == [Next]_vars /\ ~strayed' => ~strayed /\ ~StrayIntr /\ ~EarlyIntr
<1> SUFFICES ASSUME [Next]_vars, ~strayed' PROVE ~strayed /\ ~StrayIntr /\ ~EarlyIntr
    OBVIOUS
<1>1. ~StrayIntr /\ ~EarlyIntr
    BY Zenon DEF StrayIntr, EarlyIntr
<1>2. Client => strayed' = strayed
    BY Zenon DEF Client, ReadHit, ReadRecycle, ReadNull, Free, Write, world
<1>3. Progress => strayed' = strayed
    BY Zenon DEF Progress, Sched, WaitDone, IdeRw, EmmcRw, DiskRead, DiskWrite, DiskFails,
                 IdeIntr, world
<1>4. UNCHANGED vars => strayed' = strayed
    BY DEF vars, world
<1>5. QED
    BY <1>1, <1>2, <1>3, <1>4 DEF Next

(* A queue of one request, as bio_sched makes it and bio_pop leaves it.     *)
LEMMA OneRequest ==
    ASSUME NEW i
    PROVE  /\ <<i>> # <<>> /\ Len(<<i>>) = 1 /\ Len(<<>>) = 0
           /\ Head(<<i>>) = i /\ Tail(<<i>>) = <<>>
           /\ <<i>> \o <<>> = <<i>>
    OBVIOUS

(* item_cnt stays in its range, and counts right from 0 to 1 and back.      *)
LEMMA CountWraps ==
    /\ \A n \in 0 .. CntMod - 1 : /\ (n + 1) % CntMod \in 0 .. CntMod - 1
                                  /\ (n + CntMod - 1) % CntMod \in 0 .. CntMod - 1
    /\ (0 + 1) % CntMod = 1
    /\ (1 + CntMod - 1) % CntMod = 0
<1>1. CntMod \in Nat /\ CntMod > 1
    BY BufAssumption
<1>2. ASSUME NEW n \in Nat PROVE n % CntMod \in 0 .. CntMod - 1
    BY <1>1
<1>3. \A n \in 0 .. CntMod - 1 : n + 1 \in Nat /\ n + CntMod - 1 \in Nat
    BY <1>1
<1>4. 1 % CntMod = 1
    BY <1>1
<1>5. CntMod % CntMod = 0
    BY <1>1
<1>6. QED
    BY <1>1, <1>2, <1>3, <1>4, <1>5

(* Who finds a request in the queue finds that of cur.                      *)
LEMMA Busy ==
    Core /\ ~strayed /\ queue # <<>> => /\ queue = <<cur>> /\ ~Synced(cur) /\ blk[cur] \in Blocks
                                        /\ pc \in {"issue", "wait"}
                                        /\ pc = "issue" => ctl = Quiet
    BY DEF Core, TypeOK, Standing, Sound

(* Every step preserves the types.                                          *)
LEMMA TypeStep == Core /\ [Next]_vars /\ ~strayed' => TypeOK'
<1> SUFFICES ASSUME Core, [Next]_vars, ~strayed' PROVE TypeOK'
    OBVIOUS
<1>0. ~strayed /\ ~StrayIntr /\ ~EarlyIntr
    BY OnceStrayed
<1> USE <1>0
<1> USE BufAssumption, BlockAssumption, HeldAssumption, DriverAssumption
<1> USE DEF Core, TypeOK, Quiet, Standing, Sound, Data, cache, io, world
<1>1. ASSUME NEW b \in Blocks, ReadHit(b) PROVE TypeOK'
    BY <1>1 DEF ReadHit
<1>2. ASSUME NEW b \in Blocks, ReadRecycle(b) PROVE TypeOK'
    BY <1>2 DEF ReadRecycle
<1>3. ASSUME NEW b \in Blocks, ReadNull(b) PROVE TypeOK'
    BY <1>3 DEF ReadNull
<1>4. ASSUME NEW i \in Bufs, Free(i) PROVE TypeOK'
  <2>1. ref[i] - 1 \in 0 .. MaxHeld /\ ref' = [ref EXCEPT ![i] = ref[i] - 1]
      BY <1>4 DEF Free
  <2>2. QED
      BY <1>4, <2>1 DEF Free
<1>5. ASSUME NEW i \in Bufs, NEW d \in Contents, Write(i, d) PROVE TypeOK'
    BY <1>5 DEF Write
<1>6. CASE Sched
    BY <1>6 DEF Sched
<1>7. CASE WaitDone
    BY <1>7 DEF WaitDone
<1>8. CASE IdeRw
    BY <1>8 DEF IdeRw, Command
<1>9. CASE EmmcRw
  <2>1. queue = <<cur>> /\ blk[cur] \in Blocks
      BY <1>9 DEF EmmcRw
  <2>2. queue' = <<>> /\ itemCnt' \in 0 .. CntMod - 1
      BY <1>9, <2>1, OneRequest, CountWraps DEF EmmcRw, Pop
  <2>3. data' \in [Bufs -> Data] /\ disk' \in [Blocks -> Data] /\ failed' \in BOOLEAN
      BY <1>9, <2>1 DEF EmmcRw
  <2>4. QED
      BY <1>9, <2>2, <2>3 DEF EmmcRw, Complete
<1>10. CASE DiskRead
    BY <1>10 DEF DiskRead
<1>11. CASE DiskWrite
    BY <1>11 DEF DiskWrite
<1>12. CASE DiskFails
    BY <1>12 DEF DiskFails
<1>13. CASE IdeIntr
  <2>1. queue = <<cur>> /\ blk[cur] \in Blocks
      BY <1>13, Busy DEF IdeIntr
  <2>2. queue' = <<>> /\ itemCnt' \in 0 .. CntMod - 1 /\ ctl' = Quiet
      BY <1>13, <2>1, OneRequest, CountWraps DEF IdeIntr, Pop, NextCommand
  <2>3. data' \in [Bufs -> Data]
      BY <1>13, <2>1, OneRequest DEF IdeIntr
  <2>4. QED
      BY <1>13, <2>1, <2>2, <2>3, OneRequest DEF IdeIntr, Complete
<1>14. CASE UNCHANGED vars
    BY <1>14 DEF vars
<1>15. QED
    BY <1>1, <1>2, <1>3, <1>4, <1>5, <1>6, <1>7, <1>8, <1>9,
       <1>10, <1>11, <1>12, <1>13, <1>14 DEF Next, Client, Progress

(* The queue never holds more than the request under way, and its count     *)
(* follows, whichever driver takes it off.                                  *)
LEMMA StandingStep == Core /\ [Next]_vars /\ ~strayed' => Standing'
<1> SUFFICES ASSUME Core, [Next]_vars, ~strayed' PROVE Standing'
    OBVIOUS
<1>0. ~strayed /\ ~StrayIntr /\ ~EarlyIntr
    BY OnceStrayed
<1> USE <1>0
<1> USE BufAssumption, BlockAssumption, HeldAssumption, DriverAssumption
<1> USE DEF Core, TypeOK, Quiet, Standing, Synced, Sound, cache, io, world
<1>1. ASSUME NEW b \in Blocks, ReadHit(b) PROVE Standing'
  <2>1. PICK i \in Bufs : /\ blk[i] = b
                        /\ ref' = [ref EXCEPT ![i] = @ + 1] /\ cur' = i
                        /\ pc' = IF valid[i] THEN "ready" ELSE "sched"
      BY <1>1 DEF ReadHit
  <2>2. ref'[cur'] > 0 /\ (pc' = "sched" => ~valid'[cur'])
      BY <1>1, <2>1 DEF ReadHit
  <2>3. QED
      BY <1>1, <2>1, <2>2 DEF ReadHit
<1>2. ASSUME NEW b \in Blocks, ReadRecycle(b) PROVE Standing'
  <2>1. ~valid'[cur'] /\ ref'[cur'] > 0 /\ pc' = "sched"
      BY <1>2 DEF ReadRecycle
  <2>2. QED
      BY <1>2, <2>1 DEF ReadRecycle
<1>3. ASSUME NEW b \in Blocks, ReadNull(b) PROVE Standing'
    BY <1>3 DEF ReadNull
<1>4. ASSUME NEW i \in Bufs, Free(i) PROVE Standing'
    BY <1>4 DEF Free
<1>5. ASSUME NEW i \in Bufs, NEW d \in Contents, Write(i, d) PROVE Standing'
    BY <1>5 DEF Write
<1>6. CASE Sched
  <2>1. queue = <<>> /\ queue' = <<cur>> /\ Len(queue') = 1 /\ queue' # <<>>
      BY <1>6, OneRequest DEF Sched
  <2>2. itemCnt' = 1
      BY <1>6, <2>1, CountWraps, OneRequest DEF Sched
  <2>3. QED
      BY <1>6, <2>1, <2>2 DEF Sched
<1>7. CASE WaitDone
    BY <1>7 DEF WaitDone
<1>8. CASE IdeRw
  <2>1. queue = <<cur>> /\ queue # <<>>
      BY <1>8, OneRequest DEF IdeRw
  <2>2. QED
      BY <1>8, <2>1 DEF IdeRw
<1>9. CASE EmmcRw
  <2>1. queue' = <<>> /\ ctl' = Quiet
      BY <1>9, OneRequest DEF EmmcRw, Pop
  <2>2. valid'[cur] /\ ~dirty'[cur]
      BY <1>9 DEF EmmcRw, Complete
  <2>3. itemCnt' = Len(queue')
      BY <1>9, <2>1, CountWraps, OneRequest DEF EmmcRw, Pop
  <2>4. QED
      BY <1>9, <2>1, <2>2, <2>3 DEF EmmcRw
<1>10. CASE DiskRead
    BY <1>10 DEF DiskRead
<1>11. CASE DiskWrite
    BY <1>11 DEF DiskWrite
<1>12. CASE DiskFails
    BY <1>12 DEF DiskFails
<1>13. CASE IdeIntr
  <2>1. queue = <<cur>> /\ pc = "wait"
      BY <1>13, Busy DEF IdeIntr

  <2>2. queue' = <<>> /\ ctl' = Quiet
      BY <1>13, <2>1, OneRequest DEF IdeIntr, NextCommand, Pop
  <2>3. valid'[cur] /\ ~dirty'[cur]
      BY <1>13, <2>1, OneRequest DEF IdeIntr, Complete
  <2>4. itemCnt' = Len(queue')
      BY <1>13, <2>1, <2>2, CountWraps, OneRequest DEF IdeIntr, Pop
  <2>5. QED
      BY <1>13, <2>1, <2>2, <2>3, <2>4 DEF IdeIntr
<1>14. CASE UNCHANGED vars
    BY <1>14 DEF vars
<1>15. QED
    BY <1>1, <1>2, <1>3, <1>4, <1>5, <1>6, <1>7, <1>8, <1>9,
       <1>10, <1>11, <1>12, <1>13, <1>14 DEF Next, Client, Progress

(* A buffer without a reference has no contents, one with a block.          *)
LEMMA SoundStep == Core /\ [Next]_vars /\ ~strayed' => (\A k \in Bufs : Sound(k))'
<1> SUFFICES ASSUME Core, [Next]_vars, ~strayed' PROVE (\A k \in Bufs : Sound(k))'
    OBVIOUS
<1>0. ~strayed /\ ~StrayIntr /\ ~EarlyIntr
    BY OnceStrayed
<1> USE <1>0
<1> USE BufAssumption, BlockAssumption, HeldAssumption, DriverAssumption
<1> USE DEF Core, TypeOK, Quiet, Standing, Synced, Sound, cache, io, world
<1>1. ASSUME NEW b \in Blocks, ReadHit(b) PROVE (\A k \in Bufs : Sound(k))'
    BY <1>1 DEF ReadHit
<1>2. ASSUME NEW b \in Blocks, ReadRecycle(b) PROVE (\A k \in Bufs : Sound(k))'
    BY <1>2 DEF ReadRecycle
<1>3. ASSUME NEW b \in Blocks, ReadNull(b) PROVE (\A k \in Bufs : Sound(k))'
    BY <1>3 DEF ReadNull
<1>4. ASSUME NEW i \in Bufs, Free(i) PROVE (\A k \in Bufs : Sound(k))'
    BY <1>4 DEF Free
<1>5. ASSUME NEW i \in Bufs, NEW d \in Contents, Write(i, d) PROVE (\A k \in Bufs : Sound(k))'
    BY <1>5 DEF Write
<1>6. CASE Sched
    BY <1>6 DEF Sched
<1>7. CASE WaitDone
    BY <1>7 DEF WaitDone
<1>8. CASE IdeRw
    BY <1>8 DEF IdeRw, Command
<1>9. CASE EmmcRw
  <2>1. valid' = [valid EXCEPT ![cur] = TRUE] /\ blk[cur] # NoBlock /\ ref[cur] > 0
      BY <1>9 DEF EmmcRw, Complete
  <2>2. QED
      BY <1>9, <2>1 DEF EmmcRw
<1>10. CASE DiskRead
    BY <1>10 DEF DiskRead
<1>11. CASE DiskWrite
    BY <1>11 DEF DiskWrite
<1>12. CASE DiskFails
    BY <1>12 DEF DiskFails
<1>13. CASE IdeIntr
  <2>1. queue = <<cur>> /\ pc = "wait"
      BY <1>13, Busy DEF IdeIntr

  <2>2. valid' = [valid EXCEPT ![cur] = TRUE] /\ blk[cur] # NoBlock /\ ref[cur] > 0
      BY <1>13, <2>1, OneRequest, Busy DEF IdeIntr, Complete
  <2>3. QED
      BY <1>13, <2>2 DEF IdeIntr
<1>14. CASE UNCHANGED vars
    BY <1>14 DEF vars
<1>15. QED
    BY <1>1, <1>2, <1>3, <1>4, <1>5, <1>6, <1>7, <1>8, <1>9,
       <1>10, <1>11, <1>12, <1>13, <1>14 DEF Next, Client, Progress

(* A block gets a buffer only when it has none.                             *)
LEMMA OneStep == Core /\ [Next]_vars /\ ~strayed' => OneBufferPerBlock'
<1> SUFFICES ASSUME Core, [Next]_vars, ~strayed' PROVE OneBufferPerBlock'
    OBVIOUS
<1>0. ~strayed /\ ~StrayIntr /\ ~EarlyIntr
    BY OnceStrayed
<1> USE <1>0
<1> USE BufAssumption, BlockAssumption, HeldAssumption, DriverAssumption
<1> USE DEF Core, TypeOK, OneBufferPerBlock, cache, io, world
<1>1. ASSUME NEW b \in Blocks, ReadHit(b) PROVE OneBufferPerBlock'
    BY <1>1 DEF ReadHit
<1>2. ASSUME NEW b \in Blocks, ReadRecycle(b) PROVE OneBufferPerBlock'
    BY <1>2 DEF ReadRecycle
<1>3. ASSUME NEW b \in Blocks, ReadNull(b) PROVE OneBufferPerBlock'
    BY <1>3 DEF ReadNull
<1>4. ASSUME NEW i \in Bufs, Free(i) PROVE OneBufferPerBlock'
    BY <1>4 DEF Free
<1>5. ASSUME NEW i \in Bufs, NEW d \in Contents, Write(i, d) PROVE OneBufferPerBlock'
    BY <1>5 DEF Write
<1>6. CASE Sched
    BY <1>6 DEF Sched
<1>7. CASE WaitDone
    BY <1>7 DEF WaitDone
<1>8. CASE IdeRw
    BY <1>8 DEF IdeRw, Command
<1>9. CASE EmmcRw
    BY <1>9 DEF EmmcRw, Pop, Complete
<1>10. CASE DiskRead
    BY <1>10 DEF DiskRead
<1>11. CASE DiskWrite
    BY <1>11 DEF DiskWrite
<1>12. CASE DiskFails
    BY <1>12 DEF DiskFails
<1>13. CASE IdeIntr
    BY <1>13 DEF IdeIntr, Pop, Complete, NextCommand, Command
<1>14. CASE UNCHANGED vars
    BY <1>14 DEF vars
<1>15. QED
    BY <1>1, <1>2, <1>3, <1>4, <1>5, <1>6, <1>7, <1>8, <1>9,
       <1>10, <1>11, <1>12, <1>13, <1>14 DEF Next, Client, Progress

(* The controller's command stays that of the request under way.            *)
LEMMA CommandStep == Core /\ [Next]_vars /\ ~strayed' => CommandOfCur'
<1> SUFFICES ASSUME Core, [Next]_vars, ~strayed' PROVE CommandOfCur'
    OBVIOUS
<1>0. ~strayed /\ ~StrayIntr /\ ~EarlyIntr
    BY OnceStrayed
<1> USE <1>0
<1> USE BufAssumption, BlockAssumption, HeldAssumption, DriverAssumption
<1> USE DEF Core, TypeOK, Standing, Synced, Quiet, CommandOfCur, cache, io, world
<1>1. ASSUME NEW b \in Blocks, ReadHit(b) PROVE CommandOfCur'
    BY <1>1 DEF ReadHit
<1>2. ASSUME NEW b \in Blocks, ReadRecycle(b) PROVE CommandOfCur'
    BY <1>2 DEF ReadRecycle
<1>3. ASSUME NEW b \in Blocks, ReadNull(b) PROVE CommandOfCur'
    BY <1>3 DEF ReadNull
<1>4. ASSUME NEW i \in Bufs, Free(i) PROVE CommandOfCur'
    BY <1>4 DEF Free
<1>5. ASSUME NEW i \in Bufs, NEW d \in Contents, Write(i, d) PROVE CommandOfCur'
    BY <1>5 DEF Write
<1>6. CASE Sched
    BY <1>6 DEF Sched
<1>7. CASE WaitDone
    BY <1>7 DEF WaitDone
<1>8. CASE IdeRw
    BY <1>8 DEF IdeRw, Command
<1>9. CASE EmmcRw
    BY <1>9 DEF EmmcRw, Pop, Complete
<1>10. CASE DiskRead
    BY <1>10 DEF DiskRead
<1>11. CASE DiskWrite
    BY <1>11 DEF DiskWrite
<1>12. CASE DiskFails
    BY <1>12 DEF DiskFails
<1>13. CASE IdeIntr
  <2>1. queue = <<cur>> /\ pc = "wait"
      BY <1>13, Busy DEF IdeIntr

  <2>2. ctl' = Quiet
      BY <1>13, <2>1, OneRequest DEF IdeIntr, NextCommand
  <2>3. QED
      BY <2>2
<1>14. CASE UNCHANGED vars
    BY <1>14 DEF vars
<1>15. QED
    BY <1>1, <1>2, <1>3, <1>4, <1>5, <1>6, <1>7, <1>8, <1>9,
       <1>10, <1>11, <1>12, <1>13, <1>14 DEF Next, Client, Progress

(* Data, disk and flags change together; the disk changes under no other    *)
(* buffer, because no other caches the block.                               *)
LEMMA SyncedStep == Core /\ [Next]_vars /\ ~strayed' => ValidIsSynced'
<1> SUFFICES ASSUME Core, [Next]_vars, ~strayed' PROVE ValidIsSynced'
    OBVIOUS
<1>0. ~strayed /\ ~StrayIntr /\ ~EarlyIntr
    BY OnceStrayed
<1> USE <1>0
<1> USE BufAssumption, BlockAssumption, HeldAssumption, DriverAssumption
<1> USE DEF Core, TypeOK, Standing, Synced, Sound, Quiet, OneBufferPerBlock, CommandOfCur,
        ValidIsSynced, cache, io, world
<1>1. ASSUME NEW b \in Blocks, ReadHit(b) PROVE ValidIsSynced'
    BY <1>1 DEF ReadHit
<1>2. ASSUME NEW b \in Blocks, ReadRecycle(b) PROVE ValidIsSynced'
    BY <1>2 DEF ReadRecycle
<1>3. ASSUME NEW b \in Blocks, ReadNull(b) PROVE ValidIsSynced'
    BY <1>3 DEF ReadNull
<1>4. ASSUME NEW i \in Bufs, Free(i) PROVE ValidIsSynced'
    BY <1>4 DEF Free
<1>5. ASSUME NEW i \in Bufs, NEW d \in Contents, Write(i, d) PROVE ValidIsSynced'
    BY <1>5 DEF Write
<1>6. CASE Sched
    BY <1>6 DEF Sched
<1>7. CASE WaitDone
    BY <1>7 DEF WaitDone
<1>8. CASE IdeRw
    BY <1>8 DEF IdeRw, Command
<1>9. CASE EmmcRw
  <2>1. /\ blk' = blk /\ blk[cur] \in Blocks
        /\ valid' = [valid EXCEPT ![cur] = TRUE] /\ dirty' = [dirty EXCEPT ![cur] = FALSE]
      BY <1>9 DEF EmmcRw, Complete
  <2>2. ASSUME ~failed' PROVE data'[cur] = disk'[blk[cur]]
    <3>1. PICK ok \in (IF MayFail THEN BOOLEAN ELSE {TRUE}) :
             /\ data' = IF ok /\ ~dirty[cur]
                        THEN [data EXCEPT ![cur] = disk[blk[cur]]] ELSE data
             /\ disk' = IF ok /\ dirty[cur]
                        THEN [disk EXCEPT ![blk[cur]] = data[cur]] ELSE disk
             /\ failed' = (failed \/ ~ok)
        BY <1>9 DEF EmmcRw
    <3>2. ok
        BY Zenon, <2>2, <3>1
    <3>3. CASE dirty[cur]
        BY <2>1, <3>1, <3>2, <3>3
    <3>4. CASE ~dirty[cur]
        BY <2>1, <3>1, <3>2, <3>4
    <3>5. QED
        BY <3>3, <3>4
  <2>3. ASSUME NEW i \in Bufs, i # cur, Synced(i)
        PROVE  data'[i] = data[i] /\ disk'[blk[i]] = disk[blk[i]]
      BY <1>9, <2>1, <2>3 DEF EmmcRw
  <2>4. QED
      BY <1>9, <2>1, <2>2, <2>3 DEF EmmcRw
<1>10. CASE DiskRead
    BY <1>10 DEF DiskRead
<1>11. CASE DiskWrite
    BY <1>11 DEF DiskWrite
<1>12. CASE DiskFails
    BY <1>12 DEF DiskFails
<1>13. CASE IdeIntr
    BY <1>13 DEF IdeIntr, Pop, Complete, NextCommand, Command
<1>14. CASE UNCHANGED vars
    BY <1>14 DEF vars
<1>15. QED
    BY <1>1, <1>2, <1>3, <1>4, <1>5, <1>6, <1>7, <1>8, <1>9,
       <1>10, <1>11, <1>12, <1>13, <1>14 DEF Next, Client, Progress

(* The first state satisfies the invariant.                                 *)
LEMMA IInvInit == Init => IInv
<1> SUFFICES ASSUME Init PROVE IInv
    OBVIOUS
<1> USE BufAssumption, BlockAssumption, HeldAssumption
<1>1. TypeOK
  <2>1. 1 \in Bufs /\ Zero \in Data /\ Contents \subseteq Data
      BY DEF Bufs, Data
  <2>2. queue \in Seq(Bufs) /\ disk \in [Blocks -> Data]
      BY <2>1 DEF Init
  <2>3. failed \in BOOLEAN /\ strayed \in BOOLEAN
      BY Zenon DEF Init
  <2>4. QED
      BY <2>1, <2>2, <2>3 DEF Init, TypeOK
<1>2. Standing
    BY DEF Init, Standing, Synced
<1>3. /\ \A i \in Bufs : Sound(i)
      /\ OneBufferPerBlock /\ ValidIsSynced
    BY DEF Init, Sound, OneBufferPerBlock, ValidIsSynced, Synced
<1>4. CommandOfCur
    BY DEF Init, CommandOfCur, Quiet
<1>5. QED
    BY <1>1, <1>2, <1>3, <1>4 DEF IInv, Core

(* Every step preserves it.                                                 *)
LEMMA IInvStep == IInv /\ [Next]_vars => IInv'
<1> SUFFICES ASSUME IInv, [Next]_vars, ~strayed' PROVE Core'
    BY DEF IInv
<1>1. Core
    BY OnceStrayed DEF IInv
<1>2. QED
    BY <1>1, TypeStep, StandingStep, SoundStep, OneStep, CommandStep, SyncedStep DEF Core

(* The invariant holds in every reachable state.                            *)
LEMMA Invariance == Spec => []IInv
<1>1. QED
    BY IInvInit, IInvStep, PTL DEF Spec

(* Flags, counts, the queue and the controller's command keep their types;  *)
(* in particular bio_free never takes a reference nobody has.  Disk errors  *)
(* included, interrupts out of turn not.                                    *)
THEOREM TypeCorrect == Spec => []TypeOK
<1>1. IInv => TypeOK
    BY DEF IInv, Core, TypeOK
<1>2. QED
    BY <1>1, Invariance, PTL

(* However many blocks fight for the buffers, a block is cached once, until *)
(* the first interrupt out of turn.                                         *)
THEOREM CachedOnce == Spec => []OneBufferPerBlock
<1>1. IInv => OneBufferPerBlock
    BY DEF IInv, Core, OneBufferPerBlock
<1>2. QED
    BY <1>1, Invariance, PTL

(* What is valid and not dirty equals the disk, with both drivers, until    *)
(* the disk first fails or interrupts out of turn.                          *)
THEOREM Synchronised == Spec => []ValidIsSynced
<1>1. IInv => ValidIsSynced
    BY DEF IInv, Core, ValidIsSynced
<1>2. QED
    BY <1>1, Invariance, PTL

(* ide_intr credits each completion to the buffer it was made for, after    *)
(* disk errors, too, until the first interrupt out of turn.                 *)
THEOREM CompletionsMatch == Spec => []RequestMatches
<1>1. IInv => RequestMatches
  <2> SUFFICES ASSUME Core, ~strayed PROVE RequestMatches
      BY DEF IInv, RequestMatches
  <2>1. ctl # Quiet => queue = <<cur>> /\ queue # <<>> /\ Head(queue) = cur
      BY Busy, OneRequest DEF Core, Standing
  <2>2. ctl.st \in {"read", "write"} => ctl # Quiet
      BY DEF Quiet
  <2>3. QED
      BY <2>1, <2>2 DEF Core, CommandOfCur, RequestMatches
<1>2. QED
    BY <1>1, Invariance, PTL

(* item_cnt counts the queue, which holds at most one request, until an     *)
(* interrupt out of turn: so bio_sched's test for 1 is a test for an idle driver. *)
THEOREM QueueCounted == Spec => []ItemsCounted
<1>1. IInv => ItemsCounted
    BY Busy, OneRequest DEF IInv, Core, Standing, ItemsCounted
<1>2. QED
    BY <1>1, Invariance, PTL

==============================================================================
