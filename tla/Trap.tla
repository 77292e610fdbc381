-------------------------------- MODULE Trap --------------------------------
(***************************************************************************)
(* Traps, interrupt controllers and the input drivers behind them:         *)
(* x86_trap.c, x86_trap_asm.S, x86_vector.S, x86_pic.c and keyboard.c on   *)
(* x86; arm_trap.c, arm_vector.S and mini_uart.c on ARM; the part of       *)
(* kernel_main() that brings them up.                                      *)
(*                                                                         *)
(* One CPU runs boot code, the idle loop, a program or its system call; an *)
(* interrupt may come between any two steps while the CPU takes them.      *)
(* Registers: r0 stands for those a C function may change (eax, r0), r10   *)
(* for the others, seg for the data segments of x86.                       *)
(***************************************************************************)
EXTENDS Integers, Sequences, SequencesExt, FiniteSets

CONSTANTS Keys,       \* keys a user presses: a subset of DOMAIN Scan
          MaxInputs   \* bound: bytes that are sent and interrupts without a request

VARIABLES arm,      \* the architecture
          stage,    \* steps of kernel_main that are done
          mode,     \* what runs when no trap is being handled
          iflag,    \* the CPU takes interrupts
          regs,
          frames,   \* traps being handled, the newest last; was is history
          irqframe, \* ARM: what lies at trap_stack_top
          asleep,   \* a system call that has called sleep(), or <<>>
          traps,    \* trap numbers with a handler (g_trap_handler)
          handlers, \* g_irq_handler: lines with a handler
          enabled,  \* lines the controller lets through
          irr, isr, \* the two 8259A: requests seen, requests in service
          waiting,  \* bytes the device has, the first one to be read first
          obf,      \* the first one is in the data port
          shift,    \* kbdgetc's static shift
          down,     \* history: keys that are held
          typed, taken, spurious, \* counted: bytes sent, read; false alarms
          lost,     \* history: bytes sent before the UART was set up (ARM)
          deaf,     \* history: line 2 is in service for a false alarm on 15
          disk      \* "idle", "busy", or "ready" with an interrupt

cpu == <<stage, mode, iflag, regs, frames, irqframe, asleep>>
pic == <<traps, handlers, enabled, irr, isr>>
kbd == <<waiting, obf, shift, down, typed, taken, lost>>
vars == <<arm, cpu, pic, kbd, spurious, deaf, disk>>

-----------------------------------------------------------------------------
(* keyboard.c: scan codes.  A byte is E0 or [code, up], code being its low  *)
(* seven bits.                                                              *)

E0 == [code |-> "E0", up |-> FALSE]
Scan == [lshift |-> [ext |-> FALSE, code |-> "2A"], rctl |-> [ext |-> TRUE, code |-> "1D"],
         lalt |-> [ext |-> FALSE, code |-> "38"], caps |-> [ext |-> FALSE, code |-> "3A"],
         a |-> [ext |-> FALSE, code |-> "1E"]]

ASSUME KeysAssumption == Keys \subseteq DOMAIN Scan
ASSUME BoundAssumption == MaxInputs \in Nat

\* high: bit 7 of the index.
shiftcode(code, high) ==
    CASE code \in {"2A", "36"} /\ ~high -> {"SHIFT"}
      [] code = "1D" -> {"CTL"}
      [] code = "38" -> {"ALT"}
      [] OTHER -> {}
togglecode(code, high) == IF code = "3A" /\ ~high THEN {"CAPSLOCK"} ELSE {}

\* Mutant of Decode: a key's press leaves its prefix behind.
DecodeKeepsPrefix(b, s) ==
    LET esc == "E0ESC" \in s
        tog == togglecode(b.code, esc)
        on == s \cup shiftcode(b.code, esc)
    IN  IF b = E0 THEN s \cup {"E0ESC"}
        ELSE IF b.up THEN s \ ({"E0ESC"} \cup shiftcode(b.code, esc))
        ELSE (on \ tog) \cup (tog \ on)

\* kbdgetc, for the byte it reads: the new shift.
Decode(b, s) ==
    LET esc == "E0ESC" \in s
        off == s \ {"E0ESC"}
        on == off \cup shiftcode(b.code, esc)
        tog == togglecode(b.code, esc)
    IN  IF b = E0 THEN s \cup {"E0ESC"}
        ELSE IF b.up THEN off \ shiftcode(b.code, esc)
        ELSE (on \ tog) \cup (tog \ on)

-----------------------------------------------------------------------------
(* Boot: the steps of kernel_main that matter here.                         *)

KBD == 1    \* IRQ_KBD
IDE == 14   \* IRQ_IDE
AUX == 29   \* IRQ_AUX
IrqMax == IF arm THEN 64 ELSE 15
T_IRQ0 == 32
T_SYSCALL == 64

\* Mutant of BootSteps: a line is enabled before it has a handler.
BootEnableFirst ==
    IF arm
    THEN <<"trap_init", "irq_init", "enable_trap", "uart off", "uart on", "enable aux",
           "register aux", "scheduler">>
    ELSE <<"trap_init", "irq_init", "enable_trap", "enable kbd", "register kbd",
           "enable ide", "register ide", "scheduler">>

BootSteps ==
    IF arm
    THEN <<"trap_init", "irq_init", "enable_trap", "uart off", "uart on", "register aux",
           "enable aux", "scheduler">>
    ELSE <<"trap_init", "irq_init", "enable_trap", "register kbd", "enable kbd",
           "register ide", "enable ide", "scheduler">>
BootDone(s) == \E i \in 1 .. stage : BootSteps[i] = s

Kernel == [r0 |-> 0, r10 |-> 1, seg |-> "kernel"]
Program == [Kernel EXCEPT !.seg = "user"]

Init ==
    /\ arm \in BOOLEAN
    /\ stage = 0 /\ mode = "boot" /\ iflag = FALSE
    /\ regs = Kernel /\ frames = <<>> /\ irqframe = Kernel /\ asleep = <<>>
    /\ traps = {} /\ handlers = {} /\ enabled = {} /\ irr = {} /\ isr = {}
    /\ waiting = <<>> /\ obf = FALSE /\ shift = {} /\ down = {}
    /\ typed = 0 /\ taken = 0 /\ lost = 0 /\ spurious = 0 /\ deaf = FALSE
    /\ disk = "idle"

\* exception_init, irq_init, pic_init.
ExceptionTraps == 0 .. 31 \cup {T_SYSCALL}
IrqTraps == T_IRQ0 .. T_IRQ0 + IrqMax - 1
PicInit == irr' = {} /\ isr' = {} /\ enabled' = {}

\* irq_register, irq_enable.
Register(n) == handlers' = handlers \cup {m \in {n} : m < IrqMax}
Enable(n) == enabled' = enabled \cup {n} /\ UNCHANGED <<irr, isr>>

\* The next step of kernel_main; pic_init forgets what the 8259A had seen, and
\* mini_uart_init flushes what the UART has received.
BootStep ==
    /\ mode = "boot" /\ frames = <<>>
    /\ stage' = stage + 1
    /\ LET s == BootSteps[stage + 1]
       IN  /\ iflag' = (iflag \/ s \in {"enable_trap", "scheduler"})
           /\ mode' = IF s = "scheduler" THEN "idle" ELSE mode
           /\ traps' = CASE s = "trap_init" -> ExceptionTraps
                         [] s = "irq_init" -> traps \cup IrqTraps
                         [] OTHER -> traps
           /\ CASE s = "register kbd" -> Register(KBD) [] s = "register ide" -> Register(IDE)
                [] s = "register aux" -> Register(AUX) [] OTHER -> UNCHANGED handlers
           /\ CASE s = "enable kbd" -> Enable(KBD) [] s = "enable ide" -> Enable(IDE)
                [] s = "enable aux" -> Enable(AUX) [] s = "irq_init" -> PicInit
                [] OTHER -> UNCHANGED <<enabled, irr, isr>>
           /\ IF s = "uart off" THEN waiting' = <<>> /\ lost' = lost + Len(waiting)
              ELSE UNCHANGED <<waiting, lost>>
    /\ UNCHANGED <<arm, regs, frames, irqframe, asleep, obf, shift, down, typed, taken, spurious,
                   deaf, disk>>

-----------------------------------------------------------------------------
(* Devices.                                                                 *)

\* mini_uart_init has the receiver off while it sets the UART up.
Receiving == BootDone("uart off") => BootDone("uart on")

\* A key goes down or up (x86), or a character comes in (ARM).  On x86 once the
\* controller is set up: a byte that waits before pic_init is never announced.
Type(k) ==
    /\ arm \/ BootDone("irq_init")
    /\ LET code == [code |-> Scan[k].code, up |-> k \in down]
           bytes == IF ~arm /\ Scan[k].ext THEN <<E0, code>> ELSE <<code>>
       IN  /\ typed + Len(bytes) + spurious <= MaxInputs
           /\ typed' = typed + Len(bytes)
           /\ IF Receiving THEN waiting' = waiting \o bytes /\ lost' = lost
              ELSE waiting' = waiting /\ lost' = lost + Len(bytes)
    /\ down' = IF k \in down THEN down \ {k} ELSE down \cup {k}
    /\ UNCHANGED <<arm, cpu, pic, obf, shift, taken, spurious, deaf, disk>>

\* The keyboard puts its next byte into the data port and raises its line; the
\* 8259A notes the edge.
Load ==
    /\ ~arm /\ ~obf /\ waiting # <<>>
    /\ obf' = TRUE
    /\ irr' = irr \cup {KBD}
    /\ UNCHANGED <<arm, cpu, traps, handlers, enabled, isr, waiting, shift, down, typed, taken,
                   lost, spurious, deaf, disk>>

DiskDone ==
    /\ disk = "busy"
    /\ disk' = "ready"
    /\ irr' = irr \cup {IDE}
    /\ UNCHANGED <<arm, cpu, traps, handlers, enabled, isr, kbd, spurious, deaf>>

-----------------------------------------------------------------------------
(* Entry: the vector, alltraps or irq_save_user_regs and save_user_regs_svc *)

Top == Last(frames)

\* Mutant of Masks: all gates of x86 are trap gates.
MasksOnArm(no) == arm

\* trap_init's gates: those of interrupts mask, that of system calls does not;
\* on ARM the CPU masks for both.
Masks(no) == arm \/ no # T_SYSCALL

\* Where ARM keeps an interrupt's registers is always the top of trap_stack.
Enter(no) ==
    /\ frames' = Append(frames, [no |-> no, step |-> "entered", saved |-> regs, was |-> regs,
                                 iflag |-> iflag])
    /\ irqframe' = IF arm /\ no # T_SYSCALL THEN regs ELSE irqframe
    /\ iflag' = (iflag /\ ~Masks(no))
    /\ regs' = [r0 |-> 2, r10 |-> 2, seg |-> "kernel"]

\* The line the 8259A pair announces, by priority: the slave sits on line 2.
Announced == IF KBD \in irr \cap enabled /\ KBD \notin isr THEN {KBD}
             ELSE IF IDE \in irr \cap enabled /\ isr = {} THEN {IDE} ELSE {}

Interrupt ==
    /\ iflag
    /\ IF arm THEN /\ waiting # <<>> /\ AUX \in enabled  \* level triggered
                   /\ Enter(AUX)
                   /\ UNCHANGED <<irr, isr>>
       ELSE \E n \in Announced :
                   /\ Enter(T_IRQ0 + n)
                   /\ irr' = irr \ {n}
                   /\ isr' = isr \cup (IF n = IDE THEN {2, IDE} ELSE {KBD})
    /\ UNCHANGED <<arm, stage, mode, asleep, traps, handlers, enabled, kbd, spurious, deaf,
                   disk>>

\* A line drops before the CPU has asked which it was: the 8259A says 7, the
\* slave 15 with line 2 in service at the master.
FalseAlarm(n) ==
    /\ iflag /\ ~arm /\ typed + spurious < MaxInputs
    /\ n = 15 => IDE \in enabled /\ isr = {}
    /\ Enter(T_IRQ0 + n)
    /\ isr' = IF n = 15 THEN isr \cup {2} ELSE isr
    /\ spurious' = spurious + 1
    /\ deaf' = (deaf \/ n = 15)
    /\ UNCHANGED <<arm, stage, mode, asleep, traps, handlers, enabled, irr, kbd, disk>>

\* A program's system call: the gate of x86 leaves interrupts on, SWI masks.
Syscall ==
    /\ mode = "user" /\ frames = <<>>
    /\ Enter(T_SYSCALL)
    /\ UNCHANGED <<arm, stage, mode, asleep, pic, kbd, spurious, deaf, disk>>

-----------------------------------------------------------------------------
(* Handling                                                                 *)

SetStep(s) == frames' = [frames EXCEPT ![Len(frames)].step = s]

\* The line that interrupts: get_trap_no_bcm2835 asks the controller, which may
\* know of none any more.
IrqNo == IF ~arm THEN Top.no - T_IRQ0 ELSE IF waiting = <<>> THEN -1 ELSE AUX

\* trap_svr, pic_irq_handler and do_irq up to the handler.  IRQ_MAX is 15: trap
\* 47 has none and is not acknowledged.
Dispatch ==
    /\ frames # <<>> /\ Top.step = "entered"
    /\ SetStep(CASE Top.no = T_SYSCALL -> "body"
                 [] Top.no # T_SYSCALL /\ ~arm /\ Top.no \notin traps -> "exit"
                 [] OTHER -> IF 0 < IrqNo /\ IrqNo < IrqMax /\ IrqNo \in handlers
                             THEN (IF IrqNo = IDE THEN "ide" ELSE "console") ELSE "end")
    /\ UNCHANGED <<arm, stage, mode, iflag, regs, irqframe, asleep, pic, kbd, spurious, deaf,
                   disk>>

\* There is a byte for kbdgetc or mini_uart_getc_console.
HasByte == IF arm THEN waiting # <<>> ELSE obf

\* console_intr: kbdgetc or mini_uart_getc_console until there is no byte.  The
\* line drops; whether the 8259A forgets an edge it has seen is up to it.
GetC ==
    /\ frames # <<>> /\ Top.step = "console"
    /\ HasByte
    /\ waiting' = Tail(waiting) /\ obf' = FALSE /\ taken' = taken + 1
    /\ shift' = IF arm THEN shift ELSE Decode(Head(waiting), shift)
    /\ irr' \in {irr, irr \ {KBD}}
    /\ UNCHANGED <<arm, cpu, traps, handlers, enabled, isr, down, typed, lost, spurious, deaf,
                   disk>>

NoMore ==
    /\ frames # <<>> /\ Top.step = "console"
    /\ ~HasByte
    /\ SetStep("end")
    /\ UNCHANGED <<arm, stage, mode, iflag, regs, irqframe, asleep, pic, kbd, spurious, deaf,
                   disk>>

\* ide_intr: the data is read and the line drops.
IdeIntr ==
    /\ frames # <<>> /\ Top.step = "ide"
    /\ disk' = "idle"
    /\ SetStep("end")
    /\ UNCHANGED <<arm, stage, mode, iflag, regs, irqframe, asleep, pic, kbd, spurious, deaf>>

\* Mutant of End: only the master is told.
EndMaster ==
    /\ frames # <<>> /\ Top.step = "end"
    /\ SetStep("exit")
    /\ isr' = isr \ (IF KBD \in isr THEN {KBD} ELSE {2})
    /\ UNCHANGED <<arm, stage, mode, iflag, regs, irqframe, asleep, traps, handlers, enabled,
                   irr, kbd, spurious, deaf, disk>>

\* pic_end: each 8259A ends what it has in service with the highest priority;
\* irq_end on ARM does nothing.
End ==
    /\ frames # <<>> /\ Top.step = "end"
    /\ SetStep("exit")
    /\ isr' = (isr \ {IDE}) \ (IF KBD \in isr THEN {KBD} ELSE {2})
    /\ deaf' = (deaf /\ 2 \in isr')
    /\ UNCHANGED <<arm, stage, mode, iflag, regs, irqframe, asleep, traps, handlers, enabled,
                   irr, kbd, spurious, disk>>

\* Mutant of Restored: the code keeps the handler's segments.
RestoredNoSeg ==
    [(IF arm /\ Top.no # T_SYSCALL THEN [irqframe EXCEPT !.r0 = irqframe.r10] ELSE Top.saved)
       EXCEPT !.seg = "kernel"]

\* trapret or irq_restore_user_regs, which then moves r10 to r0, and
\* restore_user_regs_svc.
Restored ==
    IF arm /\ Top.no # T_SYSCALL THEN [irqframe EXCEPT !.r0 = irqframe.r10] ELSE Top.saved

Exit ==
    /\ frames # <<>> /\ Top.step = "exit"
    /\ frames' = Front(frames)
    /\ regs' = Restored
    /\ iflag' = Top.iflag
    /\ UNCHANGED <<arm, stage, mode, irqframe, asleep, pic, kbd, spurious, deaf, disk>>

-----------------------------------------------------------------------------
(* The code that is interrupted                                             *)

InBody == frames # <<>> /\ Top.step = "body"

\* Boot, idle loop, program or system call compute; r0 and r10 differ.
Work ==
    /\ frames = <<>> \/ InBody
    /\ \E v \in {0, 1} : regs' = [regs EXCEPT !.r0 = v, !.r10 = 1 - v]
    /\ UNCHANGED <<arm, stage, mode, iflag, frames, irqframe, asleep, pic, kbd, spurious, deaf,
                   disk>>

\* bio_read starts the disk and spins until the interrupt.
StartDisk ==
    /\ InBody /\ ~arm /\ disk = "idle"
    /\ disk' = "busy"
    /\ UNCHANGED <<arm, cpu, pic, kbd, spurious, deaf>>

\* trap_syscall and do_software_interrupt put the result into the frame at the
\* top of the kernel stack.
Return ==
    /\ InBody /\ disk = "idle"
    /\ frames' = [frames EXCEPT ![1].saved.r0 = 3, ![1].step = "exit"]
    /\ UNCHANGED <<arm, stage, mode, iflag, regs, irqframe, asleep, pic, kbd, spurious, deaf,
                   disk>>

\* sleep(): disable_trap, then enable_trap, then yield to the idle loop, whose
\* registers switch_ctx brings back.  Only one sleeper at a time is followed.
SleepMask ==
    /\ InBody /\ disk = "idle" /\ asleep = <<>>
    /\ iflag' = FALSE
    /\ SetStep("sleep")
    /\ UNCHANGED <<arm, stage, mode, regs, irqframe, asleep, pic, kbd, spurious, deaf, disk>>

SleepUnmask ==
    /\ frames # <<>> /\ Top.step = "sleep"
    /\ iflag' = TRUE
    /\ SetStep("yield")
    /\ UNCHANGED <<arm, stage, mode, regs, irqframe, asleep, pic, kbd, spurious, deaf, disk>>

SleepYield ==
    /\ frames # <<>> /\ Top.step = "yield"
    /\ asleep' = [frames EXCEPT ![1].step = "body"]
    /\ frames' = <<>>
    /\ regs' = Kernel
    /\ mode' = "idle"
    /\ UNCHANGED <<arm, stage, iflag, irqframe, pic, kbd, spurious, deaf, disk>>

\* The yield of sys_exit: nothing comes back to the process, and the idle loop
\* goes on with the interrupt flag of the system call, as switch_ctx keeps it.
SysExit ==
    /\ InBody /\ disk = "idle"
    /\ frames' = <<>>
    /\ regs' = Kernel
    /\ mode' = "idle"
    /\ UNCHANGED <<arm, stage, iflag, irqframe, asleep, pic, kbd, spurious, deaf, disk>>

\* The scheduler joins a process: a new one, whose frame trapret takes with the
\* flag of a program; or the one that slept, in its system call and with the
\* flag of the idle loop.
JoinNew ==
    /\ mode = "idle" /\ frames = <<>>
    /\ mode' = "user"
    /\ regs' = Program
    /\ iflag' = TRUE
    /\ UNCHANGED <<arm, stage, frames, irqframe, asleep, pic, kbd, spurious, deaf, disk>>

JoinAsleep ==
    /\ mode = "idle" /\ frames = <<>> /\ asleep # <<>>
    /\ mode' = "user"
    /\ frames' = asleep /\ asleep' = <<>>
    /\ regs' = Kernel
    /\ UNCHANGED <<arm, stage, iflag, irqframe, pic, kbd, spurious, deaf, disk>>

Next ==
    \/ BootStep
    \/ \E k \in Keys : Type(k)
    \/ Load \/ DiskDone
    \/ Interrupt
    \/ \E n \in {7, 15} : FalseAlarm(n)
    \/ Syscall \/ Dispatch \/ GetC \/ NoMore \/ IdeIntr \/ End \/ Exit
    \/ Work \/ StartDisk \/ Return \/ SleepMask \/ SleepUnmask \/ SleepYield \/ SysExit
    \/ JoinNew \/ JoinAsleep

\* The CPU goes on with what it does, devices with what they owe it, and a CPU
\* that takes interrupts takes a pending one before its next instruction.
Fairness ==
    /\ WF_vars(BootStep) /\ WF_vars(Load) /\ WF_vars(DiskDone)
    /\ SF_vars(Interrupt)
    /\ WF_vars(Dispatch) /\ WF_vars(GetC) /\ WF_vars(NoMore) /\ WF_vars(IdeIntr)
    /\ WF_vars(End) /\ WF_vars(Exit)
    /\ WF_vars(Return) /\ WF_vars(SleepUnmask) /\ WF_vars(SleepYield)

Spec == Init /\ [][Next]_vars /\ Fairness

-----------------------------------------------------------------------------
(* Properties                                                               *)

\* Traps nest at most two deep, an interrupt within a system call or alone,
\* and the kernel runs with its own segments (the IDT's gates, alltraps).
TypeOK ==
    /\ arm \in BOOLEAN /\ iflag \in BOOLEAN /\ obf \in BOOLEAN /\ deaf \in BOOLEAN
    /\ stage \in 0 .. Len(BootSteps) /\ mode \in {"boot", "idle", "user"}
    /\ typed \in 0 .. MaxInputs /\ taken + lost = typed - Len(waiting) /\ (lost > 0 => arm)
    /\ spurious \in 0 .. MaxInputs /\ disk \in {"idle", "busy", "ready"}
    /\ isr \subseteq {KBD, 2, IDE} /\ irr \subseteq {KBD, IDE}
    /\ enabled \subseteq handlers /\ handlers \subseteq {KBD, IDE, AUX}
    /\ Len(frames) <= 2
    /\ \A i \in DOMAIN frames : i = 2 => frames[1].no = T_SYSCALL /\ frames[2].no # T_SYSCALL
    /\ \A i \in DOMAIN frames : frames[i].no # T_SYSCALL => ~iflag
    /\ (regs.seg = "user") = (mode = "user" /\ frames = <<>>)

\* Interrupted code goes on with its registers, whatever handlers ran; a
\* system call changes its caller's r0, to the result.  The return path of an
\* ARM interrupt destroys r0 (mov r0, r10), which the property leaves out.
RegistersSurvive ==
    [][frames # <<>> /\ Top.step = "exit" /\ Len(frames') < Len(frames) =>
         \/ Top.no = T_SYSCALL /\ regs' = [Top.was EXCEPT !.r0 = 3]
         \/ Top.no # T_SYSCALL /\ ~arm /\ regs' = Top.was
         \/ Top.no # T_SYSCALL /\ arm /\ regs' = [Top.was EXCEPT !.r0 = regs'.r0]
      ]_vars

\* Outside the handlers of interrupts no line is in service, and a byte the
\* keyboard has offered is announced: it never waits for an edge that has been
\* (pic_end, the loop of console_intr, registration before irq_enable).  A
\* false alarm on line 15 is not acknowledged and silences the disk until a
\* false alarm on 7 is.
ControllerReady ==
    (frames = <<>> \/ Top.no = T_SYSCALL) =>
        /\ isr = IF deaf THEN {2} ELSE {}
        /\ obf => KBD \in irr

\* When all bytes are read, kbdgetc's shift says which modifiers are held,
\* however the bytes of a key were spread over interrupts.
ModifiersFollow ==
    ~arm /\ waiting = <<>> =>
        shift \ {"CAPSLOCK"} = UNION {shiftcode(Scan[k].code, Scan[k].ext) : k \in down}

\* A device that has bytes is read until it has none, so every byte that is
\* kept is taken, interrupts masked by system calls and sleep() or not, behind a
\* deaf line 2 too; but for those that come on ARM when the idle loop has got the
\* masked flag of a process that has exited and finds no process to join.
Silent == arm /\ mode = "idle" /\ ~iflag
KeysTaken == waiting # <<>> ~> (waiting = <<>> \/ []Silent)

=============================================================================
