-------------------------------- MODULE Proc --------------------------------
(***************************************************************************)
(* The process table, the scheduler and the process system calls of        *)
(* src/kernel/proc.c, on one CPU, with the interrupts that can come        *)
(* between two steps.  The CPU runs either the scheduler or one process,   *)
(* and only a process that calls yield() gives it up: there is no          *)
(* preemption.  What an interrupt handler does to this state is wakeup()   *)
(* on a device channel (console.c:96).                                     *)
(*                                                                         *)
(* A definition marked "Flaw" is a plausible slip in the definition after  *)
(* it; no action uses it, and a run is known to notice it.                 *)
(***************************************************************************)
EXTENDS Integers

CONSTANTS
    NPROC,           \* length of s_proc_list
    MaxPid,          \* bound: no fork once this pid was given out
    NULL,            \* the null pointer of parent and wait_obj
    Chan,            \* a device's wait channel: &input.r of console.c
    SyscallMasksIrq  \* TRUE on ARM (SWI sets the I bit), FALSE on x86 (trap gate)

Slots == 0 .. NPROC - 1
NoProc == -1

ASSUME NPROCAssumption == NPROC \in Nat \ {0}
ASSUME NullAssumption == NULL \notin Slots /\ Chan \notin Slots /\ NULL # Chan
ASSUME FlagAssumption == SyscallMasksIrq \in BOOLEAN
ASSUME MaxPidAssumption == MaxPid \in Nat

VARIABLES
    state,    \* struct proc.state
    pid,      \* struct proc.pid
    parent,   \* struct proc.parent
    waitObj,  \* struct proc.wait_obj
    pc,       \* where in the kernel, or in user mode, the process stands
    nextPid,  \* next_pid
    curProc,  \* s_cur_proc
    scan,     \* the loop index i of scheduler()
    cpu,      \* whose context the CPU runs: a slot, or NoProc for scheduler()
    irqOn,    \* the CPU accepts interrupts
    orphaned  \* history: a process exited and left children behind

table == <<state, pid, parent, waitObj, nextPid, orphaned>>
vars == <<table, pc, curProc, scan, cpu, irqOn>>

ProcStates == {"UNUSED", "EMBRYO", "SLEEPING", "RUNNABLE", "RUNNING", "ZOMBIE"}

(* "doze" is inside sleep() before its yield(), "asleep" after it; "new" is *)
(* a process whose saved context still points at forkret.                   *)
Places == {"none", "embryo", "new", "user", "fork", "copy", "exit", "dead",
           "wait", "read", "doze", "asleep"}

TypeOK ==
    /\ state \in [Slots -> ProcStates]
    /\ pid \in [Slots -> Nat]
    /\ parent \in [Slots -> Slots \cup {NULL}]
    /\ waitObj \in [Slots -> Slots \cup {NULL, Chan}]
    /\ pc \in [Slots -> Places]
    /\ nextPid \in Nat \ {0}
    /\ curProc \in Slots \cup {NoProc}
    /\ scan \in Slots
    /\ cpu \in Slots \cup {NoProc}
    /\ irqOn \in BOOLEAN
    /\ orphaned \in BOOLEAN

(* proc_init and prepare_usr_proc, up to the loop of scheduler().           *)
Init ==
    /\ state = [s \in Slots |-> IF s = 0 THEN "RUNNABLE" ELSE "UNUSED"]
    /\ pid = [s \in Slots |-> IF s = 0 THEN 1 ELSE 0]
    /\ parent = [s \in Slots |-> NULL]
    /\ waitObj = [s \in Slots |-> NULL]
    /\ pc = [s \in Slots |-> IF s = 0 THEN "new" ELSE "none"]
    /\ nextPid = 2
    /\ curProc = NoProc
    /\ scan = 0
    /\ cpu = NoProc
    /\ irqOn = TRUE
    /\ orphaned = FALSE

Children(p) == {c \in Slots : parent[c] = p}
Zombies(p) == {c \in Children(p) : state[c] = "ZOMBIE"}
InKernel(p, where) == cpu = p /\ pc[p] = where

-----------------------------------------------------------------------------
(* sleep() and wakeup().                                                    *)

Woken(st, obj) ==
    [s \in Slots |->
        IF st[s] = "SLEEPING" /\ waitObj[s] = obj THEN "RUNNABLE" ELSE st[s]]

(* sleep() up to its yield(): the assignments are made with interrupts      *)
(* masked and enable_trap() then unmasks them whatever they were before.    *)
Sleep(p, obj) ==
    /\ waitObj' = [waitObj EXCEPT ![p] = obj]
    /\ state' = [state EXCEPT ![p] = "SLEEPING"]
    /\ pc' = [pc EXCEPT ![p] = "doze"]
    /\ irqOn' = TRUE
    /\ UNCHANGED <<pid, parent, nextPid, curProc, scan, cpu, orphaned>>

SleepYield(p) ==
    /\ InKernel(p, "doze")
    /\ pc' = [pc EXCEPT ![p] = "asleep"]
    /\ cpu' = NoProc
    /\ UNCHANGED <<table, curProc, scan, irqOn>>

(* The scheduler joined p again: sleep() forgets the channel and returns to *)
(* the loop that called it, in sys_wait or in console_read.                 *)
SleepReturn(p) ==
    /\ InKernel(p, "asleep")
    /\ waitObj' = [waitObj EXCEPT ![p] = NULL]
    /\ pc' = [pc EXCEPT ![p] = IF waitObj[p] = p THEN "wait" ELSE "read"]
    /\ UNCHANGED <<state, pid, parent, nextPid, curProc, scan, cpu, irqOn, orphaned>>

(* An interrupt handler ends in wakeup(Chan), whoever has the CPU.          *)
Irq ==
    /\ irqOn
    /\ state' = Woken(state, Chan)
    /\ UNCHANGED <<pid, parent, waitObj, pc, nextPid, curProc, scan, cpu, irqOn, orphaned>>

-----------------------------------------------------------------------------
(* scheduler()                                                              *)

(* Flaw: the loop runs to NPROC inclusive.                                  *)
NextSlotPastEnd(s) == (s + 1) % (NPROC + 1)

NextSlot(s) == (s + 1) % NPROC

SchedSkip ==
    /\ cpu = NoProc /\ curProc = NoProc
    /\ state[scan] # "RUNNABLE"
    /\ scan' = NextSlot(scan)
    /\ UNCHANGED <<table, pc, curProc, cpu, irqOn>>

SchedJoin ==
    /\ cpu = NoProc /\ curProc = NoProc
    /\ state[scan] = "RUNNABLE"
    /\ curProc' = scan
    /\ state' = [state EXCEPT ![scan] = "RUNNING"]
    /\ cpu' = scan
    /\ UNCHANGED <<pid, parent, waitObj, pc, nextPid, scan, irqOn, orphaned>>

(* Flaw: the loop starts over after each join().                            *)
SchedRestart ==
    /\ cpu = NoProc /\ curProc # NoProc
    /\ curProc' = NoProc
    /\ scan' = 0
    /\ UNCHANGED <<table, pc, cpu, irqOn>>

(* join() returned because the process yielded.                             *)
SchedResume ==
    /\ cpu = NoProc /\ curProc # NoProc
    /\ curProc' = NoProc
    /\ scan' = NextSlot(scan)
    /\ UNCHANGED <<table, pc, cpu, irqOn>>

-----------------------------------------------------------------------------
(* System calls.                                                            *)

(* Back to user mode: eflags/spsr of the trap frame allow interrupts.       *)
ToUser(p, places) ==
    /\ pc' = [places EXCEPT ![p] = "user"]
    /\ irqOn' = TRUE

(* The first run of a process: forkret, then trapret.                       *)
FirstRun(p) ==
    /\ InKernel(p, "new")
    /\ ToUser(p, pc)
    /\ UNCHANGED <<table, curProc, scan, cpu>>

(* A user program makes a system call; on ARM the trap masks interrupts.    *)
Trap(p, call) ==
    /\ InKernel(p, "user")
    /\ call = "fork" => nextPid <= MaxPid
    /\ pc' = [pc EXCEPT ![p] = call]
    /\ irqOn' = (irqOn /\ ~SyscallMasksIrq)
    /\ UNCHANGED <<table, curProc, scan, cpu>>

(* proc_alloc(): the first UNUSED slot, and the parent link.                *)
ForkAlloc(p) ==
    /\ InKernel(p, "fork")
    /\ \E c \in Slots :
        /\ state[c] = "UNUSED"
        /\ \A d \in Slots : d < c => state[d] # "UNUSED"
        /\ state' = [state EXCEPT ![c] = "EMBRYO"]
        /\ pid' = [pid EXCEPT ![c] = nextPid]
        /\ parent' = [parent EXCEPT ![c] = p]
        /\ pc' = [pc EXCEPT ![p] = "copy", ![c] = "embryo"]
    /\ nextPid' = nextPid + 1
    /\ UNCHANGED <<waitObj, curProc, scan, cpu, irqOn, orphaned>>

(* No free slot: sys_fork returns -1.                                       *)
ForkFail(p) ==
    /\ InKernel(p, "fork")
    /\ \A c \in Slots : state[c] # "UNUSED"
    /\ ToUser(p, pc)
    /\ UNCHANGED <<table, curProc, scan, cpu>>

(* Flaw: the child is marked as running.                                    *)
ForkDoneRunning(p) ==
    /\ InKernel(p, "copy")
    /\ \E c \in Children(p) :
        /\ state[c] = "EMBRYO"
        /\ state' = [state EXCEPT ![c] = "RUNNING"]
        /\ ToUser(p, [pc EXCEPT ![c] = "new"])
    /\ UNCHANGED <<pid, parent, waitObj, nextPid, curProc, scan, cpu, orphaned>>

(* Memory, files and trap frame are copied: the child may be scheduled.     *)
ForkDone(p) ==
    /\ InKernel(p, "copy")
    /\ \E c \in Children(p) :
        /\ state[c] = "EMBRYO"
        /\ state' = [state EXCEPT ![c] = "RUNNABLE"]
        /\ ToUser(p, [pc EXCEPT ![c] = "new"])
    /\ UNCHANGED <<pid, parent, waitObj, nextPid, curProc, scan, cpu, orphaned>>

(* sys_exit becomes a zombie first and wakes the parent afterwards; its     *)
(* children keep their parent pointer (proc.c:216).                         *)
ExitZombie(p) ==
    /\ InKernel(p, "exit")
    /\ state[p] = "RUNNING"
    /\ state' = [state EXCEPT ![p] = "ZOMBIE"]
    /\ orphaned' = (orphaned \/ Children(p) # {})
    /\ UNCHANGED <<pid, parent, waitObj, pc, nextPid, curProc, scan, cpu, irqOn>>

(* Flaw: the wakeup is sent to the process itself.                          *)
ExitWakesSelf(p) ==
    /\ InKernel(p, "exit")
    /\ state[p] = "ZOMBIE"
    /\ state' = Woken(state, p)
    /\ pc' = [pc EXCEPT ![p] = "dead"]
    /\ cpu' = NoProc
    /\ UNCHANGED <<pid, parent, waitObj, nextPid, curProc, scan, irqOn, orphaned>>

ExitYield(p) ==
    /\ InKernel(p, "exit")
    /\ state[p] = "ZOMBIE"
    /\ state' = Woken(state, parent[p])
    /\ pc' = [pc EXCEPT ![p] = "dead"]
    /\ cpu' = NoProc
    /\ UNCHANGED <<pid, parent, waitObj, nextPid, curProc, scan, irqOn, orphaned>>

(* Flaw: the parent link of a reaped slot stays.                            *)
WaitKeepsParent(p) ==
    /\ InKernel(p, "wait")
    /\ \E c \in Zombies(p) :
        /\ \A d \in Zombies(p) : c <= d
        /\ state' = [state EXCEPT ![c] = "UNUSED"]
        /\ pid' = [pid EXCEPT ![c] = 0]
        /\ ToUser(p, [pc EXCEPT ![c] = "none"])
    /\ UNCHANGED <<parent, waitObj, nextPid, curProc, scan, cpu, orphaned>>

(* sys_wait: reap the first zombie child, ...                               *)
WaitReap(p) ==
    /\ InKernel(p, "wait")
    /\ \E c \in Zombies(p) :
        /\ \A d \in Zombies(p) : c <= d
        /\ state' = [state EXCEPT ![c] = "UNUSED"]
        /\ pid' = [pid EXCEPT ![c] = 0]
        /\ parent' = [parent EXCEPT ![c] = NULL]
        /\ ToUser(p, [pc EXCEPT ![c] = "none"])
    /\ UNCHANGED <<waitObj, nextPid, curProc, scan, cpu, orphaned>>

(* ... return -1 when no slot names the caller as its parent, ...           *)
WaitNone(p) ==
    /\ InKernel(p, "wait")
    /\ Children(p) = {}
    /\ ToUser(p, pc)
    /\ UNCHANGED <<table, curProc, scan, cpu>>

(* ... or sleep on the caller's own descriptor.                             *)
WaitSleep(p) ==
    /\ InKernel(p, "wait")
    /\ Children(p) # {} /\ Zombies(p) = {}
    /\ Sleep(p, p)

(* A device read finds what it needs, or sleeps on the device's channel.    *)
ReadDone(p) ==
    /\ InKernel(p, "read")
    /\ ToUser(p, pc)
    /\ UNCHANGED <<table, curProc, scan, cpu>>

ReadSleep(p) ==
    /\ InKernel(p, "read")
    /\ Sleep(p, Chan)

-----------------------------------------------------------------------------

Calls == {"fork", "exit", "wait", "read"}

Scheduler == SchedSkip \/ SchedJoin \/ SchedResume

KernelStep(p) ==
    \/ FirstRun(p)
    \/ ForkAlloc(p) \/ ForkFail(p) \/ ForkDone(p)
    \/ ExitZombie(p) \/ ExitYield(p)
    \/ WaitReap(p) \/ WaitNone(p) \/ WaitSleep(p)
    \/ ReadDone(p) \/ ReadSleep(p)
    \/ SleepYield(p) \/ SleepReturn(p)

Kernel == Scheduler \/ \E p \in Slots : KernelStep(p)

Next ==
    \/ Kernel
    \/ \E p \in Slots, call \in Calls : Trap(p, call)
    \/ Irq

Spec == Init /\ [][Next]_vars

(* The CPU executes the kernel's instructions; nothing makes a user program *)
(* call the kernel or a device interrupt.                                   *)
FairSpec == Spec /\ WF_vars(Kernel)

-----------------------------------------------------------------------------
(* Safety.                                                                  *)

(* Whoever has the CPU is s_cur_proc and owns a live slot: get_cur_proc()   *)
(* in a system call is the caller, the kernel stack and page directory the  *)
(* CPU stands on are never those of a slot given back by sys_wait, and no   *)
(* other slot is RUNNING.                                                   *)
CurrentOwnsCpu ==
    /\ cpu # NoProc => /\ curProc = cpu
                       /\ state[cpu] \notin {"UNUSED", "EMBRYO"}
    /\ \A s \in Slots : state[s] = "RUNNING" => cpu = s

(* The exit of a child is never lost: no process sleeps in sys_wait while a *)
(* child that has finished sys_exit is a zombie.  Only the child that has   *)
(* marked itself and not yet called wakeup() is excepted (proc.c:218-219).  *)
NoLostExit ==
    \A p, c \in Slots :
        /\ state[p] = "SLEEPING" /\ waitObj[p] = p
        /\ parent[c] = p /\ state[c] = "ZOMBIE"
        => InKernel(c, "exit")

(* While no process has exited before its children, a parent link names a   *)
(* live process that was created earlier: never a stranger that took over   *)
(* the slot of a dead parent.  So the links have no cycle, sys_wait returns *)
(* only pids its caller forked, and -1 to a caller that forked nothing.     *)
ParentOlder ==
    ~orphaned =>
        \A c \in Slots :
            parent[c] # NULL => /\ state[parent[c]] # "UNUSED"
                                /\ pid[parent[c]] < pid[c]

(* The parent of a process is the process that forked it (proc.h:19): the   *)
(* pointer never leads to a process created later, which merely took over   *)
(* the slot after the parent was reaped.                                    *)
NoStranger ==
    \A c \in Slots :
        parent[c] # NULL /\ state[parent[c]] # "UNUSED"
        => pid[parent[c]] < pid[c]

(* While nothing is runnable and somebody waits for a device, only an       *)
(* interrupt can go on, so the idle loop of scheduler() must accept them    *)
(* (proc.c:118-119 enables them once, before the loop).                     *)
IdleListens ==
    /\ cpu = NoProc
    /\ \A s \in Slots : state[s] # "RUNNABLE"
    /\ \E s \in Slots : state[s] = "SLEEPING" /\ waitObj[s] = Chan
    => irqOn

-----------------------------------------------------------------------------
(* Liveness.                                                                *)

(* User programs are trusted not to keep the CPU: the kernel never takes it.*)
Cooperative == \A p \in Slots : []<>(cpu # p)

(* With cooperative programs a RUNNABLE process is eventually joined.       *)
RunnableRuns ==
    Cooperative =>
        \A p \in Slots : state[p] = "RUNNABLE" ~> state[p] = "RUNNING"

(* With cooperative programs a process asleep in sys_wait that has a zombie *)
(* child returns to its program.                                            *)
WaitReturns ==
    Cooperative =>
        \A p \in Slots :
            (waitObj[p] = p /\ Zombies(p) # {}) ~> pc[p] = "user"
=============================================================================
