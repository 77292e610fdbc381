----------------------------- MODULE ProcProofs -----------------------------
(* Proofs about Proc and the scheduling order of MCProc, for every NPROC    *)
(* and both architectures.                                                  *)
EXTENDS MCProc, TLAPS

(* What the place of a process says about its state and about the CPU.      *)
Placed(s) ==
    /\ state[s] = "UNUSED" <=> pc[s] = "none"
    /\ state[s] = "EMBRYO" <=> pc[s] = "embryo"
    /\ state[s] = "RUNNING" => cpu = s
    /\ state[s] = "SLEEPING" => pc[s] \in {"doze", "asleep"}
    /\ state[s] = "ZOMBIE" => pc[s] \in {"exit", "dead"}
    /\ pc[s] \in {"user", "fork", "copy", "wait", "read"} => cpu = s /\ state[s] = "RUNNING"
    /\ pc[s] = "exit" => cpu = s /\ state[s] \in {"RUNNING", "ZOMBIE"}
    /\ pc[s] = "dead" => cpu # s /\ state[s] = "ZOMBIE"
    /\ pc[s] = "doze" => cpu = s /\ state[s] \in {"SLEEPING", "RUNNABLE"}
    /\ pc[s] = "asleep" => state[s] \in {"SLEEPING", "RUNNABLE", "RUNNING"}
    /\ pc[s] = "new" => state[s] \in {"RUNNABLE", "RUNNING"}
    /\ cpu = s /\ pc[s] \in {"new", "asleep"} => state[s] = "RUNNING"
    /\ cpu = s => pc[s] # "none" /\ pc[s] # "embryo"

Coherent ==
    /\ cpu # NoProc => curProc = cpu
    /\ \A s \in Slots : Placed(s)

(* Every step preserves the types.                                          *)
LEMMA TypeStep == TypeOK /\ [Next]_vars => TypeOK'
<1> SUFFICES ASSUME TypeOK, [Next]_vars PROVE TypeOK'
    OBVIOUS
<1> USE NPROCAssumption, NullAssumption, FlagAssumption
<1>1. CASE Irq
    BY <1>1 DEF Irq, TypeOK, Woken, ProcStates
<1>2. CASE Scheduler
  <2>1. NextSlot(scan) \in Slots
      BY DEF TypeOK, NextSlot, Slots
  <2>2. QED
      BY <1>2, <2>1 DEF Scheduler, SchedSkip, SchedJoin, SchedResume, TypeOK,
                        table, ProcStates, Slots
<1>3. ASSUME NEW p \in Slots, NEW call \in Calls, Trap(p, call) PROVE TypeOK'
    BY <1>3 DEF Trap, Calls, TypeOK, table, Places
<1>4. ASSUME NEW p \in Slots, KernelStep(p) PROVE TypeOK'
  <2>1. CASE FirstRun(p)
      BY <2>1 DEF FirstRun, ToUser, TypeOK, table, Places
  <2>2. CASE ForkAlloc(p)
      BY <2>2 DEF ForkAlloc, TypeOK, ProcStates, Places
  <2>3. CASE ForkFail(p)
      BY <2>3 DEF ForkFail, ToUser, TypeOK, table, Places
  <2>4. CASE ForkDone(p)
      BY <2>4 DEF ForkDone, ToUser, Children, TypeOK, ProcStates, Places
  <2>5. CASE ExitZombie(p)
      BY <2>5 DEF ExitZombie, TypeOK, ProcStates
  <2>6. CASE ExitYield(p)
      BY <2>6 DEF ExitYield, Woken, TypeOK, ProcStates, Places
  <2>7. CASE WaitReap(p)
      BY <2>7 DEF WaitReap, Zombies, Children, ToUser, TypeOK, ProcStates, Places
  <2>8. CASE WaitNone(p)
      BY <2>8 DEF WaitNone, ToUser, TypeOK, table, Places
  <2>9. CASE WaitSleep(p)
      BY <2>9 DEF WaitSleep, Sleep, TypeOK, ProcStates, Places
  <2>10. CASE ReadDone(p)
      BY <2>10 DEF ReadDone, ToUser, TypeOK, table, Places
  <2>11. CASE ReadSleep(p)
      BY <2>11 DEF ReadSleep, Sleep, TypeOK, ProcStates, Places
  <2>12. CASE SleepYield(p)
      BY <2>12 DEF SleepYield, TypeOK, table, Places
  <2>13. CASE SleepReturn(p)
      BY <2>13 DEF SleepReturn, TypeOK, Places
  <2>14. QED
      BY <1>4, <2>1, <2>2, <2>3, <2>4, <2>5, <2>6, <2>7, <2>8, <2>9, <2>10,
         <2>11, <2>12, <2>13 DEF KernelStep
<1>5. CASE UNCHANGED vars
    BY <1>5 DEF vars, table, TypeOK
<1>6. QED
    BY <1>1, <1>2, <1>3, <1>4, <1>5 DEF Next, Kernel

(* The initial state is well typed.                                         *)
LEMMA TypeInit == Init => TypeOK
<1> SUFFICES ASSUME Init PROVE TypeOK
    OBVIOUS
<1>1. irqOn \in BOOLEAN /\ orphaned \in BOOLEAN
    BY Zenon DEF Init
<1>2. 0 \in Slots
    BY NPROCAssumption DEF Slots
<1>3. /\ state \in [Slots -> ProcStates]
      /\ pid \in [Slots -> Nat]
      /\ parent \in [Slots -> Slots \cup {NULL}]
      /\ waitObj \in [Slots -> Slots \cup {NULL, Chan}]
      /\ pc \in [Slots -> Places]
    BY DEF Init, ProcStates, Places
<1>4. nextPid \in Nat \ {0} /\ curProc \in Slots \cup {NoProc}
      /\ scan \in Slots /\ cpu \in Slots \cup {NoProc}
    BY <1>2 DEF Init
<1>5. QED
    BY <1>1, <1>3, <1>4, Zenon DEF TypeOK

(* The process table stays well typed (proc.c, proc.h:14-33).               *)
THEOREM TypeCorrect == Spec => []TypeOK
BY TypeInit, TypeStep, PTL DEF Spec

-----------------------------------------------------------------------------

(* s_cur_proc = -1 names no slot.                                           *)
LEMMA NoProcIsNoSlot == NoProc \notin Slots
BY DEF NoProc, Slots

(* The first process waits for its first run.                               *)
LEMMA CoherentInit == Init => Coherent
BY NPROCAssumption DEF Init, Coherent, Placed, Slots, NoProc

(* Every step keeps places, states and the CPU in agreement.                *)
LEMMA CoherentStep == TypeOK /\ Coherent /\ [Next]_vars => Coherent'
<1> SUFFICES ASSUME TypeOK, Coherent, [Next]_vars PROVE Coherent'
    OBVIOUS
<1> USE NPROCAssumption, NullAssumption DEF TypeOK
<1>1. CASE Irq
    BY <1>1 DEF Irq, Woken, Coherent, Placed
<1>2. CASE Scheduler
    BY <1>2 DEF Scheduler, SchedSkip, SchedJoin, SchedResume, table, Coherent,
                Placed, Slots, NoProc
<1>3. ASSUME NEW p \in Slots, NEW call \in Calls, Trap(p, call) PROVE Coherent'
    BY <1>3 DEF Trap, InKernel, Calls, table, Coherent, Placed
<1>4. ASSUME NEW p \in Slots, KernelStep(p) PROVE Coherent'
  <2> USE NoProcIsNoSlot DEF InKernel, Coherent, Placed
  <2>1. CASE FirstRun(p)
      BY <2>1 DEF FirstRun, ToUser, table
  <2>2. CASE ForkAlloc(p)
      BY <2>2 DEF ForkAlloc
  <2>3. CASE ForkFail(p)
      BY <2>3 DEF ForkFail, ToUser, table
  <2>4. CASE ForkDone(p)
      BY <2>4 DEF ForkDone, ToUser, Children
  <2>5. CASE ExitZombie(p)
      BY <2>5 DEF ExitZombie
  <2>6. CASE ExitYield(p)
      BY <2>6 DEF ExitYield, Woken
  <2>7. CASE WaitReap(p)
      BY <2>7 DEF WaitReap, Zombies, Children, ToUser
  <2>8. CASE WaitNone(p)
      BY <2>8 DEF WaitNone, ToUser, table
  <2>9. CASE WaitSleep(p)
      BY <2>9 DEF WaitSleep, Sleep
  <2>10. CASE ReadDone(p)
      BY <2>10 DEF ReadDone, ToUser, table
  <2>11. CASE ReadSleep(p)
      BY <2>11 DEF ReadSleep, Sleep
  <2>12. CASE SleepYield(p)
      BY <2>12 DEF SleepYield, table
  <2>13. CASE SleepReturn(p)
      BY <2>13 DEF SleepReturn
  <2>14. QED
      BY <1>4, <2>1, <2>2, <2>3, <2>4, <2>5, <2>6, <2>7, <2>8, <2>9, <2>10, <2>11, <2>12, <2>13 DEF KernelStep
<1>5. CASE UNCHANGED vars
    BY <1>5 DEF vars, table, Coherent, Placed
<1>6. QED
    BY <1>1, <1>2, <1>3, <1>4, <1>5 DEF Next, Kernel

(* That agreement is what get_cur_proc() relies on.                         *)
LEMMA CoherentOwns == TypeOK /\ Coherent => CurrentOwnsCpu
BY DEF TypeOK, Coherent, Placed, CurrentOwnsCpu

(* sys_wait scans and falls asleep without giving up the CPU, so no child   *)
(* can turn zombie in between; and a child that does so later wakes its     *)
(* parent before it gives up the CPU.                                       *)
LEMMA NoLostExitStep == TypeOK /\ Coherent /\ NoLostExit /\ [Next]_vars => NoLostExit'
<1> SUFFICES ASSUME TypeOK, Coherent, NoLostExit, [Next]_vars PROVE NoLostExit'
    OBVIOUS
<1> USE NullAssumption, NoProcIsNoSlot DEF TypeOK, InKernel, Coherent, Placed, NoLostExit
<1>1. CASE Irq
    BY <1>1 DEF Irq, Woken
<1>2. CASE Scheduler
    BY <1>2 DEF Scheduler, SchedSkip, SchedJoin, SchedResume, table
<1>3. ASSUME NEW p \in Slots, NEW call \in Calls, Trap(p, call) PROVE NoLostExit'
    BY <1>3 DEF Trap, Calls, Children, table
<1>4. ASSUME NEW p \in Slots, KernelStep(p) PROVE NoLostExit'
  <2>1. CASE FirstRun(p)
      BY <2>1 DEF FirstRun, ToUser, table
  <2>2. CASE ForkAlloc(p)
      BY <2>2 DEF ForkAlloc
  <2>3. CASE ForkFail(p)
      BY <2>3 DEF ForkFail, ToUser, table
  <2>4. CASE ForkDone(p)
      BY <2>4 DEF ForkDone, ToUser, Children
  <2>5. CASE ExitZombie(p)
      BY <2>5 DEF ExitZombie
  <2>6. CASE ExitYield(p)
      BY <2>6 DEF ExitYield, Woken
  <2>7. CASE WaitReap(p)
      BY <2>7 DEF WaitReap, Zombies, Children, ToUser
  <2>8. CASE WaitNone(p)
      BY <2>8 DEF WaitNone, ToUser, table
  <2>9. CASE WaitSleep(p)
      BY <2>9 DEF WaitSleep, Sleep, Zombies, Children
  <2>10. CASE ReadDone(p)
      BY <2>10 DEF ReadDone, ToUser, table
  <2>11. CASE ReadSleep(p)
      BY <2>11 DEF ReadSleep, Sleep
  <2>12. CASE SleepYield(p)
      BY <2>12 DEF SleepYield, table
  <2>13. CASE SleepReturn(p)
      BY <2>13 DEF SleepReturn
  <2>14. QED
      BY <1>4, <2>1, <2>2, <2>3, <2>4, <2>5, <2>6, <2>7,
         <2>8, <2>9, <2>10, <2>11, <2>12, <2>13 DEF KernelStep
<1>5. CASE UNCHANGED vars
    BY <1>5 DEF vars, table
<1>6. QED
    BY <1>1, <1>2, <1>3, <1>4, <1>5 DEF Next, Kernel

(* The current process owns the CPU and s_cur_proc names it, whatever runs  *)
(* and is interrupted (proc.c:31-37, 111-142).                              *)
THEOREM CpuOwnership == Spec => []CurrentOwnsCpu
<1>1. Init => TypeOK /\ Coherent
    BY TypeInit, CoherentInit
<1>2. TypeOK /\ Coherent /\ [Next]_vars => (TypeOK /\ Coherent)'
    BY TypeStep, CoherentStep
<1>3. TypeOK /\ Coherent => CurrentOwnsCpu
    BY CoherentOwns
<1>4. QED
    BY <1>1, <1>2, <1>3, PTL DEF Spec

(* No exit is lost between sys_exit and sys_wait, for any number of slots,  *)
(* with interrupts masked in system calls or not (proc.c:218-219, 231-259). *)
THEOREM ExitNotLost == Spec => []NoLostExit
<1>1. Init => TypeOK /\ Coherent /\ NoLostExit
  <2>1. Init => NoLostExit
      BY DEF Init, NoLostExit
  <2>2. QED
      BY <2>1, TypeInit, CoherentInit
<1>2. TypeOK /\ Coherent /\ NoLostExit /\ [Next]_vars
         => (TypeOK /\ Coherent /\ NoLostExit)'
    BY TypeStep, CoherentStep, NoLostExitStep
<1>3. QED
    BY <1>1, <1>2, PTL DEF Spec

-----------------------------------------------------------------------------

(* What ParentOlder needs to be inductive: a parent is no zombie either,    *)
(* pids only grow, and a process inside sys_exit has no children.           *)
Lineage ==
    /\ ~orphaned =>
        \A c \in Slots :
            parent[c] # NULL => /\ state[parent[c]] \notin {"UNUSED", "ZOMBIE"}
                                /\ pid[parent[c]] < pid[c]
    /\ \A s \in Slots : pid[s] < nextPid

(* A process that exits after its children leaves no pointer to its slot.   *)
LEMMA LineageStep == TypeOK /\ Coherent /\ Lineage /\ [Next]_vars => Lineage'
<1> SUFFICES ASSUME TypeOK, Coherent, Lineage, [Next]_vars PROVE Lineage'
    OBVIOUS
<1> USE NullAssumption, NoProcIsNoSlot DEF TypeOK, InKernel, Coherent, Placed, Lineage
<1>1. CASE Irq
    BY <1>1 DEF Irq, Woken
<1>2. CASE Scheduler
    BY <1>2 DEF Scheduler, SchedSkip, SchedJoin, SchedResume, table
<1>3. ASSUME NEW p \in Slots, NEW call \in Calls, Trap(p, call) PROVE Lineage'
    BY <1>3 DEF Trap, Calls, Children, table
<1>4. ASSUME NEW p \in Slots, KernelStep(p) PROVE Lineage'
  <2>1. CASE FirstRun(p)
      BY <2>1 DEF FirstRun, ToUser, table
  <2>2. CASE ForkAlloc(p)
      BY <2>2 DEF ForkAlloc
  <2>3. CASE ForkFail(p)
      BY <2>3 DEF ForkFail, ToUser, table
  <2>4. CASE ForkDone(p)
      BY <2>4 DEF ForkDone, ToUser, Children
  <2>5. CASE ExitZombie(p)
      BY <2>5 DEF ExitZombie, Children
  <2>6. CASE ExitYield(p)
      BY <2>6 DEF ExitYield, Woken
  <2>7. CASE WaitReap(p)
      BY <2>7 DEF WaitReap, Zombies, Children, ToUser
  <2>8. CASE WaitNone(p)
      BY <2>8 DEF WaitNone, ToUser, table
  <2>9. CASE WaitSleep(p)
      BY <2>9 DEF WaitSleep, Sleep, Zombies, Children
  <2>10. CASE ReadDone(p)
      BY <2>10 DEF ReadDone, ToUser, table
  <2>11. CASE ReadSleep(p)
      BY <2>11 DEF ReadSleep, Sleep
  <2>12. CASE SleepYield(p)
      BY <2>12 DEF SleepYield, table
  <2>13. CASE SleepReturn(p)
      BY <2>13 DEF SleepReturn
  <2>14. QED
      BY <1>4, <2>1, <2>2, <2>3, <2>4, <2>5, <2>6, <2>7,
         <2>8, <2>9, <2>10, <2>11, <2>12, <2>13 DEF KernelStep
<1>5. CASE UNCHANGED vars
    BY <1>5 DEF vars, table
<1>6. QED
    BY <1>1, <1>2, <1>3, <1>4, <1>5 DEF Next, Kernel

(* While nobody exits before its children, a parent link always names the   *)
(* living process that forked (proc.c:160, 216, 248).                       *)
THEOREM ParentsAreOlder == Spec => []ParentOlder
<1>1. Init => TypeOK /\ Coherent /\ Lineage
  <2>1. Init => Lineage
      BY DEF Init, Lineage, Slots
  <2>2. QED
      BY <2>1, TypeInit, CoherentInit
<1>2. TypeOK /\ Coherent /\ Lineage /\ [Next]_vars
         => (TypeOK /\ Coherent /\ Lineage)'
    BY TypeStep, CoherentStep, LineageStep
<1>3. Lineage => ParentOlder
    BY DEF Lineage, ParentOlder
<1>4. QED
    BY <1>1, <1>2, <1>3, PTL DEF Spec

-----------------------------------------------------------------------------

(* Turns of the loop of scheduler() until it comes to a slot.               *)
Ahead(s) == IF s >= scan THEN s - scan ELSE s - scan + NPROC

(* Whoever was joined since s became RUNNABLE comes after s on the round,   *)
(* or is the process that the loop has joined just now.                     *)
Order ==
    /\ curProc \in {NoProc, scan}
    /\ \A s \in Slots :
         /\ passed[s] \subseteq Slots
         /\ state[s] # "RUNNABLE" \/ s = curProc => passed[s] = {}
         /\ \A q \in passed[s] : q = curProc \/ Ahead(q) > Ahead(s)

RInv == TypeOK /\ passed \in [Slots -> SUBSET Slots] /\ Order

(* A turn of the loop brings every slot one nearer but its own.             *)
LEMMA NextTurn ==
    ASSUME TypeOK, scan' = NextSlot(scan), NEW s \in Slots
    PROVE  /\ Ahead(s) \in 0 .. NPROC - 1 /\ (Ahead(s) = 0 <=> s = scan)
           /\ Ahead(s)' = IF s = scan THEN NPROC - 1 ELSE Ahead(s) - 1
<1>1. scan \in Slots /\ NPROC \in Nat \ {0}
    BY NPROCAssumption DEF TypeOK
<1>2. scan' = IF scan = NPROC - 1 THEN 0 ELSE scan + 1
    BY <1>1 DEF NextSlot, Slots
<1>3. QED
    BY <1>1, <1>2 DEF Ahead, Slots

(* A step that joins nobody and leaves the loop where it is.                *)
LEMMA SameTurn ==
    ASSUME RInv, TypeOK', UNCHANGED <<scan, curProc>>,
           passed' = [s \in Slots |->
                        IF state'[s] = "RUNNABLE" THEN passed[s] \cup Joined ELSE {}]
    PROVE  Order'
<1>1. Joined = {}
    BY DEF Joined
<1>2. \A s \in Slots : passed'[s] = IF state'[s] = "RUNNABLE" THEN passed[s] ELSE {}
    BY <1>1
<1>3. \A s \in Slots : Ahead(s)' = Ahead(s)
    BY DEF Ahead
<1>4. QED
    BY <1>2, <1>3 DEF RInv, Order

(* The loop goes on where it was, so the order of the round is kept.        *)
LEMMA OrderStep == RInv /\ [MCNext]_<<vars, passed>> => RInv'
<1> SUFFICES ASSUME RInv, [MCNext]_<<vars, passed>> PROVE RInv'
    OBVIOUS
<1>0. CASE UNCHANGED <<vars, passed>>
    BY <1>0 DEF vars, table, RInv, TypeOK, Order, Ahead
<1> SUFFICES ASSUME MCNext PROVE RInv'
    BY <1>0
<1>1. TypeOK'
    BY TypeStep DEF RInv, MCNext
<1>2. /\ passed' = [s \in Slots |->
                       IF state'[s] = "RUNNABLE" THEN passed[s] \cup Joined ELSE {}]
      /\ Joined \subseteq Slots
    BY <1>1 DEF MCNext, Joined, TypeOK
<1>3. passed' \in [Slots -> SUBSET Slots]
    BY <1>2 DEF RInv
<1>4. CASE SchedSkip
  <2>1. Joined = {} /\ scan' = NextSlot(scan) /\ UNCHANGED <<curProc, state>> /\ curProc = NoProc
        /\ state[scan] # "RUNNABLE"
      BY <1>4 DEF SchedSkip, Joined, table
  <2>2. \A s \in Slots : passed'[s] = IF state[s] = "RUNNABLE" THEN passed[s] ELSE {}
      BY <1>2, <2>1
  <2>3. TypeOK /\ NoProc \notin Slots
      BY NoProcIsNoSlot DEF RInv
  <2>4. ASSUME NEW s \in Slots, NEW q \in passed'[s] PROVE Ahead(q)' > Ahead(s)'
    <3>1. state[s] = "RUNNABLE" /\ q \in passed[s] /\ q \in Slots /\ q # curProc
        BY <2>1, <2>2, <2>3, <2>4 DEF RInv, Order
    <3>2. Ahead(q) > Ahead(s) /\ s # scan
        BY <2>1, <3>1 DEF RInv, Order
    <3>3. q # scan
        BY <2>1, <2>3, <3>1, <3>2, NextTurn
    <3>4. QED
        BY <2>1, <2>3, <3>1, <3>2, <3>3, NextTurn
  <2>5. QED
      BY <1>1, <1>3, <2>1, <2>2, <2>3, <2>4 DEF RInv, Order
<1>5. CASE SchedJoin
  <2>1. /\ Joined = {scan} /\ curProc' = scan /\ curProc = NoProc /\ scan' = scan
        /\ \A s \in Slots : state'[s] = IF s = scan THEN "RUNNING" ELSE state[s]
      BY <1>5, NoProcIsNoSlot DEF SchedJoin, Joined, RInv, TypeOK
  <2>2. \A s \in Slots : passed'[s] = IF s # scan /\ state[s] = "RUNNABLE"
                                     THEN passed[s] \cup {scan} ELSE {}
      BY <1>2, <2>1
  <2>3. \A s \in Slots : Ahead(s)' = Ahead(s)
      BY <2>1 DEF Ahead
  <2>4. scan \in Slots /\ NoProc \notin Slots
      BY NoProcIsNoSlot DEF RInv, TypeOK
  <2>5. QED
      BY <1>1, <1>3, <2>1, <2>2, <2>3, <2>4 DEF RInv, Order
<1>6. CASE SchedResume
  <2>1. Joined = {} /\ scan' = NextSlot(scan) /\ state' = state /\ curProc = scan /\ curProc' = NoProc
      BY <1>6 DEF SchedResume, Joined, table, RInv, Order
  <2>2. \A s \in Slots : passed'[s] = IF state[s] = "RUNNABLE" THEN passed[s] ELSE {}
      BY <1>2, <2>1
  <2>3. TypeOK /\ NoProc \notin Slots
      BY NoProcIsNoSlot DEF RInv
  <2>4. ASSUME NEW s \in Slots, NEW q \in passed'[s] PROVE Ahead(q)' > Ahead(s)'
    <3>1. state[s] = "RUNNABLE" /\ q \in passed[s] /\ q \in Slots /\ s # scan
        BY <2>1, <2>2, <2>4 DEF RInv, Order
    <3>2. q = scan \/ Ahead(q) > Ahead(s)
        BY <2>1, <3>1 DEF RInv, Order
    <3>3. q # scan => Ahead(q)' = Ahead(q) - 1
        BY <2>1, <2>3, <3>1, NextTurn
    <3>4. q = scan => Ahead(q)' = NPROC - 1
        BY <2>1, <2>3, <3>1, NextTurn
    <3>5. /\ Ahead(s)' = Ahead(s) - 1 /\ Ahead(s) \in 0 .. NPROC - 1
          /\ Ahead(q) \in 0 .. NPROC - 1
        BY <2>1, <2>3, <3>1, NextTurn
    <3>6. QED
        BY <3>2, <3>3, <3>4, <3>5, NPROCAssumption
  <2>5. QED
      BY <1>1, <1>3, <2>1, <2>2, <2>3, <2>4 DEF RInv, Order
<1>7. CASE ~Scheduler
  <2>1. UNCHANGED <<scan, curProc>>
      BY <1>7 DEF MCNext, Next, Kernel, KernelStep, Irq, Trap, FirstRun, ForkAlloc, ForkFail,
             ForkDone, ExitZombie, ExitYield, WaitReap, WaitNone, WaitSleep, ReadDone, ReadSleep,
             SleepYield, SleepReturn, Sleep
  <2>2. QED
      BY <1>1, <1>2, <1>3, <2>1, SameTurn DEF RInv
<1>8. QED
    BY <1>4, <1>5, <1>6, <1>7 DEF Scheduler

(* A process that stays RUNNABLE is passed over by no other twice, for any  *)
(* number of slots and whatever the processes do (proc.c:121-138).          *)
THEOREM RoundRobin == MCSpec => NoDoubleBypass
<1>1. MCInit => RInv
  <2> SUFFICES ASSUME MCInit PROVE RInv
      OBVIOUS
  <2>1. TypeOK
      BY TypeInit DEF MCInit
  <2>2. QED
      BY <2>1 DEF MCInit, Init, RInv, Order
<1>2. RInv /\ [MCNext]_<<vars, passed>> =>
        [\A s \in Slots : state[s] = "RUNNABLE" /\ state'[s] = "RUNNABLE"
             => Joined \cap passed[s] = {}]_<<vars, passed>>
  <2> SUFFICES ASSUME RInv, MCNext, NEW s \in Slots, state[s] = "RUNNABLE",
                      state'[s] = "RUNNABLE", Joined # {}
               PROVE  Joined \cap passed[s] = {}
      OBVIOUS
  <2>1. curProc = NoProc /\ curProc' # NoProc
      BY DEF Joined
  <2>2. SchedJoin
      BY <2>1 DEF MCNext, Next, Kernel, KernelStep, Irq, Trap, FirstRun, ForkAlloc, ForkFail,
             ForkDone, ExitZombie, ExitYield, WaitReap, WaitNone, WaitSleep, ReadDone, ReadSleep,
             SleepYield, SleepReturn, Sleep, Scheduler, SchedSkip, SchedResume
  <2>3. Joined = {scan} /\ scan \in Slots /\ scan # curProc
      BY <2>1, <2>2, NoProcIsNoSlot DEF SchedJoin, Joined, RInv, TypeOK
  <2>4. ~(Ahead(scan) > Ahead(s))
      BY <2>3, NPROCAssumption DEF Ahead, Slots
  <2>5. QED
      BY <2>3, <2>4 DEF RInv, Order
<1>3. QED
    BY <1>1, <1>2, OrderStep, PTL DEF MCSpec, NoDoubleBypass
=============================================================================
