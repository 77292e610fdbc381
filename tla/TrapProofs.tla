---------------------------- MODULE TrapProofs ----------------------------
(* Proofs about Trap, for any keys of the keyboard, any number of bytes and *)
(* of false alarms, on both architectures.                                  *)
EXTENDS Trap, TLAPS

Registers == [r0 : 0 .. 3, r10 : 0 .. 3, seg : {"kernel", "user"}]
Lines == {AUX} \cup {T_IRQ0 + n : n \in {KBD, 7, IDE, 15}}
Frame == [no : Lines \cup {T_SYSCALL},
          step : {"entered", "body", "sleep", "yield", "console", "ide", "end", "exit"},
          saved : Registers, was : Registers, iflag : BOOLEAN]
Bytes == {E0} \cup [code : {"2A", "1D", "38", "3A", "1E"}, up : BOOLEAN]
Held == {"SHIFT", "CTL", "ALT", "CAPSLOCK", "E0ESC"}

(* What the frame of a trap says; at the bottom is the program's or that of *)
(* an interrupt of the kernel.                                              *)
FrameOK(f, seg) ==
    /\ f \in Frame
    /\ f.no = T_SYSCALL => f.step \in {"entered", "body", "sleep", "yield", "exit"} /\ seg = "user"
    /\ f.no # T_SYSCALL => f.step \in {"entered", "console", "ide", "end", "exit"}
    /\ f.saved = IF f.no = T_SYSCALL /\ f.step = "exit" THEN [f.was EXCEPT !.r0 = 3] ELSE f.was
    /\ f.was.seg = seg

Running == IF mode = "user" THEN "user" ELSE "kernel"

(* Traps nest in a system call only, which an interrupt or its own sleep    *)
(* masks.                                                                   *)
Nested ==
    /\ regs \in Registers /\ irqframe \in Registers
    /\ frames \in Seq(Frame) /\ Len(frames) <= 2
    /\ Len(frames) > 0 => FrameOK(frames[1], Running)
    /\ Len(frames) = 2 => /\ FrameOK(frames[2], "kernel") /\ frames[2].no # T_SYSCALL
                          /\ frames[1].no = T_SYSCALL /\ frames[1].step # "sleep"
    /\ frames # <<>> /\ Top.no # T_SYSCALL => ~iflag /\ (arm => irqframe = Top.was)
    /\ frames # <<>> /\ Top.step = "sleep" => ~iflag
    /\ regs.seg = IF mode = "user" /\ frames = <<>> THEN "user" ELSE "kernel"
    /\ asleep # <<>> =>
         /\ asleep \in Seq(Frame) /\ Len(asleep) = 1
         /\ FrameOK(asleep[1], "user") /\ asleep[1].no = T_SYSCALL /\ asleep[1].step = "body"

(* How far kernel_main has come.                                            *)
Booted ==
    /\ arm \in BOOLEAN /\ iflag \in BOOLEAN /\ mode \in {"boot", "idle", "user"}
    /\ stage \in 0 .. 8
    /\ mode = "boot" <=> stage < 8
    /\ iflag => stage >= 3
    /\ stage >= 2 => IrqTraps \subseteq traps
    /\ traps \subseteq ExceptionTraps \cup IrqTraps
    /\ handlers = IF arm THEN {n \in {AUX} : stage >= 6}
                  ELSE {n \in {KBD} : stage >= 4} \cup {n \in {IDE} : stage >= 6}
    /\ enabled = IF arm THEN {n \in {AUX} : stage >= 7}
                 ELSE {n \in {KBD} : stage >= 5} \cup {n \in {IDE} : stage >= 7}

(* The devices and what is counted of them.                                 *)
Devices ==
    /\ waiting \in Seq(Bytes) /\ obf \in BOOLEAN /\ shift \subseteq Held
    /\ down \subseteq DOMAIN Scan
    /\ typed \in 0 .. MaxInputs /\ taken \in Nat /\ lost \in Nat
    /\ taken + lost = typed - Len(waiting) /\ (lost > 0 => arm)
    /\ spurious \in 0 .. MaxInputs /\ deaf \in BOOLEAN /\ disk \in {"idle", "busy", "ready"}
    /\ obf => waiting # <<>> /\ ~arm
    /\ ~arm /\ stage < 2 => waiting = <<>>
    /\ frames # <<>> => stage >= 3

(* What is in service, by what the CPU handles.                             *)
Alarm == IF deaf THEN {2} ELSE {}
Serving(n) == frames # <<>> /\ Top.no = n
Pending == obf => KBD \in irr

InService ==
    /\ isr \subseteq {KBD, 2, IDE} /\ irr \subseteq {KBD, IDE}
    /\ stage < 3 => isr = {} /\ ~deaf
    /\ arm => isr = {} /\ ~deaf
    /\ frames # <<>> => \/ Top.no = T_SYSCALL
                        \/ IF arm THEN Top.no = AUX ELSE Top.no # AUX
    /\ frames = <<>> \/ Serving(T_SYSCALL) \/ Serving(AUX) => isr = Alarm /\ Pending
    /\ Serving(T_IRQ0 + KBD) =>
         /\ isr = Alarm \cup (IF Top.step = "exit" THEN {} ELSE {KBD})
         /\ KBD \in enabled /\ Top.step # "ide"
         /\ Top.step \in {"end", "exit"} => Pending
    /\ Serving(T_IRQ0 + IDE) =>
         /\ ~deaf /\ isr = (IF Top.step = "exit" THEN {} ELSE {2, IDE})
         /\ IDE \in enabled /\ Top.step # "console" /\ Pending
    /\ Serving(T_IRQ0 + 7) =>
         /\ Top.step \in {"entered", "end", "exit"} /\ isr = Alarm /\ Pending
         /\ Top.step = "exit" => ~deaf
    /\ Serving(T_IRQ0 + 15) =>
         Top.step \in {"entered", "exit"} /\ deaf /\ isr = {2} /\ Pending

(* A modifier is held if its key's last byte on the way says so, or, if     *)
(* there is none, if kbdgetc has it; E0 comes with the code it belongs to.  *)
Modifier == [lshift |-> "SHIFT", rctl |-> "CTL", lalt |-> "ALT"]
LastOf(c, i) ==
    /\ i \in 1 .. Len(waiting) /\ waiting[i].code = c
    /\ \A j \in 1 .. Len(waiting) : j > i => waiting[j].code # c
Follows(k) ==
    /\ \A i \in 1 .. Len(waiting) : LastOf(Scan[k].code, i) => (waiting[i].up <=> k \notin down)
    /\ (\A i \in 1 .. Len(waiting) : waiting[i].code # Scan[k].code)
         => (Modifier[k] \in shift <=> k \in down)

KeysFollow ==
    ~arm =>
    /\ \A k \in DOMAIN Modifier : Follows(k)
    /\ \A i \in 1 .. Len(waiting) : waiting[i] = E0 => i < Len(waiting) /\ waiting[i + 1].code = "1D"
    /\ "E0ESC" \in shift => waiting # <<>> /\ waiting[1].code = "1D"

IInv == Nested /\ Booted /\ Devices /\ InService
KInv == IInv /\ KeysFollow

(* The steps of kernel_main, by their place.                                *)
LEMMA BootPlan ==
    /\ Len(BootSteps) = 8
    /\ BootSteps[1] = "trap_init" /\ BootSteps[2] = "irq_init" /\ BootSteps[3] = "enable_trap"
    /\ arm => /\ BootSteps[4] = "uart off" /\ BootSteps[5] = "uart on"
              /\ BootSteps[6] = "register aux" /\ BootSteps[7] = "enable aux"
              /\ BootSteps[8] = "scheduler"
    /\ ~arm => /\ BootSteps[4] = "register kbd" /\ BootSteps[5] = "enable kbd"
               /\ BootSteps[6] = "register ide" /\ BootSteps[7] = "enable ide"
               /\ BootSteps[8] = "scheduler"
    BY DEF BootSteps

(* A handler that goes on changes the step of the newest trap and nothing   *)
(* else.                                                                    *)
LEMMA SetStepFacts ==
    ASSUME frames \in Seq(Frame), frames # <<>>, NEW s, SetStep(s)
    PROVE  /\ Len(frames') = Len(frames) /\ frames' # <<>>
           /\ Top' = [Top EXCEPT !.step = s]
           /\ \A i \in 1 .. Len(frames) - 1 : frames'[i] = frames[i]
           /\ Len(frames) >= 1
<1>1. Len(frames) \in Nat /\ Len(frames) >= 1 /\ Top = frames[Len(frames)]
    BY DEF Top, Last
<1>2. Top \in Frame /\ Top' = frames'[Len(frames')]
    BY <1>1 DEF Top, Last
<1>3. frames' = [frames EXCEPT ![Len(frames)] = [Top EXCEPT !.step = s]]
    BY <1>1 DEF SetStep
<1>4. Len(frames') = Len(frames) /\ frames' # <<>>
    BY <1>1, <1>3
<1>5. QED
    BY <1>1, <1>2, <1>3, <1>4

(* A trap puts its frame on top of those that are being handled.            *)
LEMMA EnterFacts ==
    ASSUME frames \in Seq(Frame), NEW no, Enter(no)
    PROVE  /\ Len(frames') = Len(frames) + 1 /\ frames' # <<>>
           /\ Top' = [no |-> no, step |-> "entered", saved |-> regs, was |-> regs, iflag |-> iflag]
           /\ \A i \in 1 .. Len(frames) : frames'[i] = frames[i]
<1> DEFINE f == [no |-> no, step |-> "entered", saved |-> regs, was |-> regs, iflag |-> iflag]
<1>1. frames' = Append(frames, f)
    BY DEF Enter
<1> HIDE DEF f
<1>2. Top' = frames'[Len(frames')]
    BY DEF Top, Last
<1>3. QED
    BY <1>1, <1>2 DEF f

(* The return from a trap takes its frame away.                             *)
LEMMA ExitFacts ==
    ASSUME frames \in Seq(Frame), frames # <<>>, frames' = Front(frames)
    PROVE  /\ Len(frames') = Len(frames) - 1
           /\ frames' \in Seq(Frame)
           /\ frames' = <<>> <=> Len(frames) = 1
           /\ Len(frames) >= 1
           /\ \A i \in 1 .. Len(frames) - 1 : frames'[i] = frames[i]
           /\ Len(frames) = 2 => Top' = frames[1]
<1>1. Len(frames) \in Nat /\ Len(frames) >= 1
    OBVIOUS
<1>2. Len(frames') = Len(frames) - 1 /\ frames' \in Seq(Frame)
      /\ \A i \in 1 .. Len(frames) - 1 : frames'[i] = frames[i]
  <2> DEFINE n == Len(frames) - 1
  <2>1. n \in Nat /\ n <= Len(frames) /\ Front(frames) = SubSeq(frames, 1, n)
      BY <1>1 DEF Front
  <2> HIDE DEF n
  <2>2. /\ Len(SubSeq(frames, 1, n)) = n /\ SubSeq(frames, 1, n) \in Seq(Frame)
        /\ \A i \in 1 .. n : SubSeq(frames, 1, n)[i] = frames[i]
      BY <1>1, <2>1
  <2>3. QED
      BY <2>1, <2>2 DEF n
<1>3. Top' = frames'[Len(frames')]
    BY DEF Top, Last
<1>4. QED
    BY <1>1, <1>2, <1>3

(* The newest trap stays if the frames do.                                  *)
LEMMA SameTop == frames' = frames => Top' = Top
    BY DEF Top, Last

(* The frame on top is the first or the second.                             *)
LEMMA TopFacts ==
    Nested /\ frames # <<>> =>
        /\ Len(frames) \in 1 .. 2 /\ Top = frames[Len(frames)] /\ Top \in Frame
        /\ FrameOK(Top, IF Len(frames) = 1 THEN Running ELSE "kernel")
        /\ Top.no = T_SYSCALL => Len(frames) = 1
<1> SUFFICES ASSUME Nested, frames # <<>>
             PROVE  /\ Len(frames) \in 1 .. 2 /\ Top = frames[Len(frames)] /\ Top \in Frame
                    /\ FrameOK(Top, IF Len(frames) = 1 THEN Running ELSE "kernel")
                    /\ Top.no = T_SYSCALL => Len(frames) = 1
    OBVIOUS
<1>1. Top = frames[Len(frames)]
    BY DEF Top, Last
<1>2. Len(frames) \in 1 .. 2 /\ Top \in Frame
  <2>1. frames \in Seq(Frame) /\ Len(frames) <= 2 /\ Len(frames) \in Nat /\ Len(frames) # 0
      BY DEF Nested
  <2>2. Len(frames) \in 1 .. 2
    <3>1. \A n \in Nat : n <= 2 /\ n # 0 => n \in 1 .. 2
        OBVIOUS
    <3>2. QED
        BY ONLY <2>1, <3>1
  <2>3. frames[Len(frames)] \in Frame
      BY <2>1, <2>2
  <2>4. QED
      BY <1>1, <2>2, <2>3
<1>3. FrameOK(Top, IF Len(frames) = 1 THEN Running ELSE "kernel")
    BY <1>1, <1>2 DEF Nested
<1>4. QED
    BY <1>1, <1>2, <1>3 DEF Nested

(* A step within a handler moves its frame only.                            *)
LEMMA StepInFrame ==
    ASSUME Nested, frames # <<>>, NEW s, SetStep(s), FrameOK([Top EXCEPT !.step = s], Top.was.seg),
           s = "sleep" => ~iflag', Top.no # T_SYSCALL => ~iflag',
           UNCHANGED <<arm, mode, regs, irqframe, asleep>>
    PROVE  Nested'
<1>1. /\ Len(frames) \in 1 .. 2 /\ Top = frames[Len(frames)] /\ Top \in Frame
      /\ FrameOK(Top, IF Len(frames) = 1 THEN Running ELSE "kernel")
      /\ Top.no = T_SYSCALL => Len(frames) = 1
    BY TopFacts
<1>2. frames \in Seq(Frame)
    BY DEF Nested
<1>3. /\ Len(frames') = Len(frames) /\ frames' # <<>>
      /\ Top' = [Top EXCEPT !.step = s]
      /\ \A i \in 1 .. Len(frames) - 1 : frames'[i] = frames[i]
    BY <1>2, SetStepFacts
<1>4. Top' = frames'[Len(frames')] /\ frames' \in Seq(Frame)
  <2>1. Top' = frames'[Len(frames')]
      BY DEF Top, Last
  <2>2. Top' \in Frame
      BY <1>3 DEF FrameOK
  <2>3. frames' = [frames EXCEPT ![Len(frames)] = Top']
      BY <1>1, <1>3 DEF SetStep
  <2>4. QED
      BY <1>1, <1>2, <2>1, <2>2, <2>3
<1>5. Top'.no = Top.no /\ Top'.step = s /\ Top'.was = Top.was
    BY <1>1, <1>3 DEF Frame
<1>6. Running' = Running
    BY DEF Running
<1>7. \A seg : FrameOK(Top, seg) => FrameOK(Top', seg)
  <2>1. \A seg : FrameOK(Top, seg) => seg = Top.was.seg
      BY DEF FrameOK
  <2>2. QED
      BY <1>3, <2>1
<1>8. /\ Len(frames') > 0 => FrameOK(frames'[1], Running')
      /\ Len(frames') = 2 => /\ FrameOK(frames'[2], "kernel") /\ frames'[2].no # T_SYSCALL
                             /\ frames'[1].no = T_SYSCALL /\ frames'[1].step # "sleep"
  <2>1. CASE Len(frames) = 1
      BY <1>1, <1>3, <1>4, <1>6, <1>7, <2>1
  <2>2. CASE Len(frames) = 2
    <3>1. frames'[1] = frames[1] /\ frames'[2] = Top' /\ Top = frames[2]
        BY <1>1, <1>3, <1>4, <2>2
    <3>2. /\ FrameOK(frames[1], Running) /\ frames[1].no = T_SYSCALL /\ frames[1].step # "sleep"
          /\ FrameOK(Top, "kernel") /\ Top.no # T_SYSCALL
        BY <2>2, <3>1 DEF Nested
    <3>3. QED
        BY <1>3, <1>5, <1>6, <1>7, <2>2, <3>1, <3>2
  <2>3. QED
      BY <1>1, <2>1, <2>2
<1>9. QED
    BY <1>1, <1>3, <1>4, <1>5, <1>8 DEF Nested

(* A trap is entered from the program, or an interrupt from a system call.  *)
LEMMA EnterNests ==
    ASSUME Nested, NEW no \in Lines \cup {T_SYSCALL}, Enter(no), arm \in BOOLEAN, iflag \in BOOLEAN,
           iflag \/ frames = <<>>, no = T_SYSCALL => frames = <<>> /\ mode = "user",
           UNCHANGED <<arm, mode, asleep>>
    PROVE  Nested'
<1> DEFINE f == [no |-> no, step |-> "entered", saved |-> regs, was |-> regs, iflag |-> iflag]
<1>1. /\ frames \in Seq(Frame) /\ regs \in Registers /\ regs.seg \in {"kernel", "user"}
      /\ frames # <<>> => Top.no = T_SYSCALL /\ Len(frames) = 1
    BY TopFacts DEF Nested, Registers
<1>2. f \in Frame
    BY <1>1 DEF Frame
<1>3. /\ frames' = Append(frames, f) /\ Top' = f
      /\ regs' = [r0 |-> 2, r10 |-> 2, seg |-> "kernel"]
      /\ irqframe' = IF arm /\ no # T_SYSCALL THEN regs ELSE irqframe
      /\ iflag' = (iflag /\ ~Masks(no))
    BY <1>1, EnterFacts DEF Enter
<1>4. no # T_SYSCALL => ~iflag'
    BY <1>3 DEF Masks
<1>5. f.no = no /\ f.step = "entered" /\ f.was = regs /\ f.saved = regs
    OBVIOUS
<1>6. regs' \in Registers /\ irqframe' \in Registers /\ regs'.seg = "kernel"
    BY <1>1, <1>3 DEF Nested, Registers
<1> HIDE DEF f
<1>7. Running' = Running /\ Running \in {"kernel", "user"}
    BY DEF Running
<1>8. CASE frames = <<>>
  <2>1. frames' = <<f>> /\ Len(frames') = 1 /\ frames'[1] = f /\ frames' \in Seq(Frame)
      BY <1>2, <1>3, <1>8
  <2>2. regs.seg = Running
      BY <1>8 DEF Nested, Running
  <2>3. FrameOK(f, Running)
      BY <1>2, <1>5, <2>2 DEF FrameOK, Running
  <2>4. QED
      BY <1>3, <1>4, <1>5, <1>6, <1>7, <2>1, <2>3 DEF Nested
<1>9. CASE frames # <<>>
  <2>1. /\ frames' \in Seq(Frame) /\ Len(frames') = 2
        /\ frames'[1] = frames[1] /\ frames'[2] = f
    <3>1. Len(frames) = 1 /\ frames \in Seq(Frame) /\ frames' = Append(frames, f)
        BY <1>1, <1>3, <1>9
    <3>2. Append(frames, f) \in Seq(Frame)
        BY <1>2, <3>1
    <3>5. Len(Append(frames, f)) = Len(frames) + 1
        BY <1>2, <3>1
    <3>3. Append(frames, f)[1] = frames[1] /\ Append(frames, f)[2] = f
        BY <1>2, <3>1
    <3>6. QED
        BY <3>1, <3>2, <3>3, <3>5
  <2>2. no # T_SYSCALL /\ regs.seg = "kernel"
      BY <1>9 DEF Nested
  <2>3. FrameOK(f, "kernel")
      BY <1>2, <1>5, <2>2 DEF FrameOK
  <2>4. frames[1] = Top /\ FrameOK(frames[1], Running) /\ frames[1].no = T_SYSCALL
        /\ frames[1].step # "sleep"
      BY <1>1, <1>9, TopFacts DEF Nested
  <2>5. QED
      BY <1>3, <1>4, <1>5, <1>6, <1>7, <1>9, <2>1, <2>2, <2>3, <2>4 DEF Nested
<1>10. QED
    BY <1>8, <1>9

(* The registers that come back are those of the frame, but for r0.         *)
LEMMA RestoredFacts ==
    ASSUME Nested, frames # <<>>, Top.step = "exit", arm \in BOOLEAN
    PROVE  /\ Restored \in Registers
           /\ Restored = [Top.was EXCEPT !.r0 = Restored.r0]
           /\ Top.no = T_SYSCALL => Restored = [Top.was EXCEPT !.r0 = 3]
           /\ Top.no # T_SYSCALL /\ ~arm => Restored = Top.was
<1>1. Top \in Frame /\ Top.was \in Registers
      /\ Top.saved = IF Top.no = T_SYSCALL THEN [Top.was EXCEPT !.r0 = 3] ELSE Top.was
    BY TopFacts DEF FrameOK, Frame
<1>2. CASE Top.no = T_SYSCALL
    BY <1>1, <1>2 DEF Restored, Registers
<1>3. CASE Top.no # T_SYSCALL /\ ~arm
    BY <1>1, <1>3 DEF Restored, Registers
<1>4. CASE Top.no # T_SYSCALL /\ arm
  <2>1. Restored = [Top.was EXCEPT !.r0 = Top.was.r10]
      BY <1>4 DEF Restored, Nested
  <2>2. QED
      BY <1>1, <1>4, <2>1 DEF Registers
<1>5. QED
    BY <1>2, <1>3, <1>4

(* No step breaks the nesting.                                              *)
LEMMA NestedStep == IInv /\ [Next]_vars => Nested'
<1> SUFFICES ASSUME IInv, [Next]_vars PROVE Nested'
    OBVIOUS
<1> USE DEF IInv, cpu, pic, kbd
<1>0. /\ Nested /\ arm \in BOOLEAN /\ iflag \in BOOLEAN
      /\ mode \in {"boot", "idle", "user"} /\ frames \in Seq(Frame)
    BY DEF Booted, Nested
<1>k. Kernel \in Registers /\ Program \in Registers /\ Kernel.seg = "kernel" /\ Program.seg = "user"
    BY DEF Kernel, Program, Registers
<1>1. CASE UNCHANGED <<mode, iflag, regs, frames, irqframe, asleep, arm>>
  <2>1. Top' = Top /\ Running' = Running
      BY <1>1, SameTop DEF Running
  <2>2. QED
      BY <1>1, <2>1 DEF Nested
<1>2. CASE BootStep
  <2>1. /\ frames = <<>> /\ frames' = <<>> /\ mode = "boot" /\ mode' \in {"boot", "idle"}
        /\ UNCHANGED <<regs, irqframe, asleep>>
      BY <1>2 DEF BootStep
  <2>2. QED
      BY <2>1 DEF Nested, Running
<1>3. ASSUME NEW k \in Keys, Type(k) PROVE Nested'
    BY <1>1, <1>3 DEF Type
<1>4. CASE Load
    BY <1>1, <1>4 DEF Load
<1>5. CASE DiskDone
    BY <1>1, <1>5 DEF DiskDone
<1>6. CASE Interrupt
  <2>1. \E no \in Lines : Enter(no)
      BY <1>6 DEF Interrupt, Announced, Lines
  <2>2. PICK no \in Lines : Enter(no)
      BY <2>1
  <2>3. no # T_SYSCALL
      BY DEF Lines, T_SYSCALL, AUX, T_IRQ0, KBD, IDE
  <2>4. iflag /\ UNCHANGED <<arm, mode, asleep>>
      BY <1>6 DEF Interrupt
  <2>5. QED
      BY <1>0, <2>2, <2>3, <2>4, EnterNests
<1>7. ASSUME NEW n \in {7, 15}, FalseAlarm(n) PROVE Nested'
  <2>1. T_IRQ0 + n \in Lines /\ T_IRQ0 + n # T_SYSCALL
      BY DEF Lines, T_SYSCALL, T_IRQ0
  <2>2. iflag /\ UNCHANGED <<arm, mode, asleep>> /\ Enter(T_IRQ0 + n)
      BY <1>7 DEF FalseAlarm
  <2>3. QED
      BY <1>0, <2>1, <2>2, EnterNests
<1>8. CASE Syscall
  <2>1. mode = "user" /\ frames = <<>> /\ UNCHANGED <<arm, mode, asleep>> /\ Enter(T_SYSCALL)
      BY <1>8 DEF Syscall
  <2>2. QED
      BY <1>0, <2>1, EnterNests
<1>9. CASE Dispatch
  <2> DEFINE s == CASE Top.no = T_SYSCALL -> "body"
                    [] Top.no # T_SYSCALL /\ ~arm /\ Top.no \notin traps -> "exit"
                    [] OTHER -> IF 0 < IrqNo /\ IrqNo < IrqMax /\ IrqNo \in handlers
                                THEN (IF IrqNo = IDE THEN "ide" ELSE "console") ELSE "end"
  <2>1. /\ frames # <<>> /\ Top.step = "entered" /\ SetStep(s)
        /\ UNCHANGED <<arm, mode, iflag, regs, irqframe, asleep>>
      BY <1>9 DEF Dispatch
  <2>2. /\ Top.no = T_SYSCALL => s = "body"
        /\ Top.no # T_SYSCALL => s \in {"exit", "ide", "console", "end"}
      OBVIOUS
  <2> HIDE DEF s
  <2>3. FrameOK([Top EXCEPT !.step = s], Top.was.seg) /\ (Top.no # T_SYSCALL => ~iflag)
      BY <1>0, <2>1, <2>2, TopFacts DEF FrameOK, Frame, Nested
  <2>4. QED
      BY <1>0, <2>1, <2>2, <2>3, StepInFrame
<1>10. CASE GetC
    BY <1>1, <1>10 DEF GetC
<1>11. CASE NoMore
  <2>1. /\ frames # <<>> /\ Top.step = "console" /\ SetStep("end")
        /\ UNCHANGED <<arm, mode, iflag, regs, irqframe, asleep>>
      BY <1>11 DEF NoMore
  <2>2. FrameOK([Top EXCEPT !.step = "end"], Top.was.seg) /\ (Top.no # T_SYSCALL => ~iflag)
      BY <1>0, <2>1, TopFacts DEF FrameOK, Frame, Nested
  <2>3. QED
      BY <1>0, <2>1, <2>2, StepInFrame
<1>12. CASE IdeIntr
  <2>1. /\ frames # <<>> /\ Top.step = "ide" /\ SetStep("end")
        /\ UNCHANGED <<arm, mode, iflag, regs, irqframe, asleep>>
      BY <1>12 DEF IdeIntr
  <2>2. FrameOK([Top EXCEPT !.step = "end"], Top.was.seg) /\ (Top.no # T_SYSCALL => ~iflag)
      BY <1>0, <2>1, TopFacts DEF FrameOK, Frame, Nested
  <2>3. QED
      BY <1>0, <2>1, <2>2, StepInFrame
<1>13. CASE End
  <2>1. /\ frames # <<>> /\ Top.step = "end" /\ SetStep("exit")
        /\ UNCHANGED <<arm, mode, iflag, regs, irqframe, asleep>>
      BY <1>13 DEF End
  <2>2. FrameOK([Top EXCEPT !.step = "exit"], Top.was.seg) /\ (Top.no # T_SYSCALL => ~iflag)
      BY <1>0, <2>1, TopFacts DEF FrameOK, Frame, Nested
  <2>3. QED
      BY <1>0, <2>1, <2>2, StepInFrame
<1>14. CASE Exit
  <2>1. /\ frames # <<>> /\ Top.step = "exit" /\ frames' = Front(frames) /\ regs' = Restored
        /\ UNCHANGED <<arm, mode, irqframe, asleep>>
      BY <1>14 DEF Exit
  <2>2. /\ Len(frames') = Len(frames) - 1 /\ frames' \in Seq(Frame)
        /\ frames' = <<>> <=> Len(frames) = 1
        /\ \A i \in 1 .. Len(frames) - 1 : frames'[i] = frames[i]
        /\ Len(frames) = 2 => Top' = frames[1]
      BY <1>0, <2>1, ExitFacts
  <2>3. Restored \in Registers /\ Restored = [Top.was EXCEPT !.r0 = Restored.r0]
      BY <1>0, <2>1, RestoredFacts
  <2>4. /\ Len(frames) \in 1 .. 2 /\ Top \in Frame
        /\ FrameOK(Top, IF Len(frames) = 1 THEN Running ELSE "kernel")
      BY <1>0, <2>1, TopFacts
  <2>5. Restored.seg = Top.was.seg
      BY <2>3, <2>4 DEF Frame, Registers
  <2>6. Running' = Running /\ Running \in {"kernel", "user"}
      BY <2>1 DEF Running
  <2>7. CASE Len(frames) = 1
    <3>1. frames' = <<>> /\ Len(frames') = 0
        BY <2>2, <2>7
    <3>2. regs'.seg = Running /\ regs' \in Registers
        BY <2>1, <2>3, <2>4, <2>5, <2>7 DEF FrameOK
    <3>3. QED
        BY <1>0, <2>1, <2>2, <3>1, <3>2 DEF Nested, Running
  <2>8. CASE Len(frames) = 2
    <3>1. /\ frames' # <<>> /\ Len(frames') = 1 /\ Top' = frames[1] /\ frames'[1] = frames[1]
        BY <2>2, <2>8
    <3>2. FrameOK(frames[1], Running) /\ frames[1].no = T_SYSCALL /\ frames[1].step # "sleep"
        BY <1>0, <2>8 DEF Nested
    <3>3. regs'.seg = "kernel" /\ regs' \in Registers
        BY <2>1, <2>3, <2>4, <2>5, <2>8 DEF FrameOK
    <3>4. QED
        BY <1>0, <2>1, <2>2, <2>6, <3>1, <3>2, <3>3 DEF Nested
  <2>9. QED
      BY <2>4, <2>7, <2>8
<1>15. CASE Work
  <2>1. /\ UNCHANGED <<mode, iflag, frames, irqframe, asleep, arm>>
        /\ regs' \in Registers /\ regs'.seg = regs.seg
    <3>1. PICK v \in {0, 1} : regs' = [regs EXCEPT !.r0 = v, !.r10 = 1 - v]
        BY <1>15 DEF Work
    <3>2. regs \in Registers
        BY DEF Nested
    <3>3. v \in 0 .. 3 /\ 1 - v \in 0 .. 3
        OBVIOUS
    <3>4. \A x, y \in 0 .. 3 : LET g == [regs EXCEPT !.r0 = x, !.r10 = y]
                             IN  g \in Registers /\ g.seg = regs.seg
        BY ONLY <3>2 DEF Registers
    <3>5. QED
        BY <1>15, <3>1, <3>3, <3>4 DEF Work
  <2>2. Top' = Top /\ Running' = Running
      BY <2>1, SameTop DEF Running
  <2>3. QED
      BY <2>1, <2>2 DEF Nested
<1>16. CASE StartDisk
    BY <1>1, <1>16 DEF StartDisk
<1>17. CASE Return
  <2>1. /\ frames # <<>> /\ Top.step = "body"
        /\ frames' = [frames EXCEPT ![1].saved.r0 = 3, ![1].step = "exit"]
        /\ UNCHANGED <<arm, mode, iflag, regs, irqframe, asleep>>
      BY <1>17 DEF Return, InBody
  <2>2. FrameOK(Top, Running) /\ Len(frames) = 1 /\ Top = frames[1] /\ Top.no = T_SYSCALL
    <3>1. /\ Len(frames) \in 1 .. 2 /\ Top = frames[Len(frames)]
          /\ FrameOK(Top, IF Len(frames) = 1 THEN Running ELSE "kernel")
          /\ Top.no = T_SYSCALL => Len(frames) = 1
        BY <1>0, <2>1, TopFacts
    <3>2. Top.no = T_SYSCALL
        BY <2>1, <3>1 DEF FrameOK
    <3>3. QED
        BY <3>1, <3>2
  <2> DEFINE f == [Top EXCEPT !.saved.r0 = 3, !.step = "exit"]
  <2>3. /\ f \in Frame /\ f.no = T_SYSCALL /\ f.step = "exit" /\ f.was = Top.was
        /\ f.saved = [Top.was EXCEPT !.r0 = 3]
      BY <2>1, <2>2 DEF FrameOK, Frame, Registers
  <2>4. frames' = <<f>>
      BY <1>0, <2>1, <2>2
  <2> HIDE DEF f
  <2>5. /\ frames' \in Seq(Frame) /\ Len(frames') = 1 /\ frames'[1] = f /\ frames' # <<>>
      BY <2>3, <2>4
  <2>6. Top' = f
      BY <2>5 DEF Top, Last
  <2>7. FrameOK(f, Running) /\ Running' = Running
      BY <2>1, <2>2, <2>3 DEF FrameOK, Running
  <2>8. QED
      BY <1>0, <2>1, <2>3, <2>5, <2>6, <2>7 DEF Nested
<1>18. CASE SleepMask
  <2>1. /\ frames # <<>> /\ Top.step = "body" /\ SetStep("sleep") /\ iflag' = FALSE
        /\ UNCHANGED <<arm, mode, regs, irqframe, asleep>>
      BY <1>18 DEF SleepMask, InBody
  <2>2. FrameOK([Top EXCEPT !.step = "sleep"], Top.was.seg)
      BY <1>0, <2>1, TopFacts DEF FrameOK, Frame
  <2>3. QED
      BY <1>0, <2>1, <2>2, StepInFrame
<1>19. CASE SleepUnmask
  <2>1. /\ frames # <<>> /\ Top.step = "sleep" /\ SetStep("yield")
        /\ UNCHANGED <<arm, mode, regs, irqframe, asleep>>
      BY <1>19 DEF SleepUnmask
  <2>2. FrameOK([Top EXCEPT !.step = "yield"], Top.was.seg) /\ Top.no = T_SYSCALL
      BY <1>0, <2>1, TopFacts DEF FrameOK, Frame
  <2>3. QED
      BY <1>0, <2>1, <2>2, StepInFrame
<1>20. CASE SleepYield
  <2>1. /\ frames # <<>> /\ Top.step = "yield" /\ asleep' = [frames EXCEPT ![1].step = "body"]
        /\ frames' = <<>> /\ regs' = Kernel /\ mode' = "idle" /\ UNCHANGED irqframe
      BY <1>20 DEF SleepYield
  <2>2. FrameOK(Top, Running) /\ Len(frames) = 1 /\ Top = frames[1] /\ Top.no = T_SYSCALL
    <3>1. /\ Len(frames) \in 1 .. 2 /\ Top = frames[Len(frames)]
          /\ FrameOK(Top, IF Len(frames) = 1 THEN Running ELSE "kernel")
          /\ Top.no = T_SYSCALL => Len(frames) = 1
        BY <1>0, <2>1, TopFacts
    <3>2. Top.no = T_SYSCALL
        BY <2>1, <3>1 DEF FrameOK
    <3>3. QED
        BY <3>1, <3>2
  <2> DEFINE f == [Top EXCEPT !.step = "body"]
  <2>3. f \in Frame /\ FrameOK(f, "user") /\ f.no = T_SYSCALL /\ f.step = "body"
      BY <2>1, <2>2 DEF FrameOK, Frame
  <2>4. asleep' = <<f>>
      BY <1>0, <2>1, <2>2
  <2> HIDE DEF f
  <2>5. asleep' \in Seq(Frame) /\ Len(asleep') = 1 /\ asleep'[1] = f
      BY <2>3, <2>4
  <2>6. regs' \in Registers /\ irqframe' \in Registers /\ regs'.seg = "kernel"
      BY <1>k, <2>1 DEF Nested
  <2>7. frames' \in Seq(Frame) /\ Len(frames') = 0
      BY <2>1
  <2>8. asleep'[1].no = T_SYSCALL /\ asleep'[1].step = "body" /\ FrameOK(asleep'[1], "user")
      BY <2>3, <2>5
  <2>9. QED
      BY <2>1, <2>5, <2>6, <2>7, <2>8 DEF Nested
<1>21. CASE SysExit
  <2>1. /\ frames' = <<>> /\ regs' = Kernel /\ mode' = "idle" /\ UNCHANGED <<irqframe, asleep>>
      BY <1>21 DEF SysExit
  <2>2. regs' \in Registers /\ irqframe' \in Registers /\ regs'.seg = "kernel"
      BY <1>k, <2>1 DEF Nested
  <2>3. frames' \in Seq(Frame) /\ Len(frames') = 0
      BY <2>1
  <2>4. QED
      BY <2>1, <2>2, <2>3 DEF Nested
<1>22. CASE JoinNew
  <2>1. /\ frames = <<>> /\ mode' = "user" /\ regs' = Program
        /\ UNCHANGED <<frames, irqframe, asleep>>
      BY <1>22 DEF JoinNew
  <2>2. QED
      BY <1>0, <1>k, <2>1 DEF Nested
<1>23. CASE JoinAsleep
  <2>1. /\ asleep # <<>> /\ mode' = "user" /\ regs' = Kernel
        /\ frames' = asleep /\ asleep' = <<>> /\ irqframe' = irqframe
      BY <1>23 DEF JoinAsleep
  <2>2. /\ frames' \in Seq(Frame) /\ Len(frames') = 1 /\ frames' # <<>>
        /\ FrameOK(frames'[1], "user") /\ frames'[1].no = T_SYSCALL
        /\ frames'[1].step = "body"
      BY <2>1 DEF Nested
  <2>3. Top' = frames'[1] /\ Running' = "user"
      BY <2>1, <2>2 DEF Top, Last, Running
  <2>4. QED
      BY <1>0, <1>k, <2>1, <2>2, <2>3 DEF Nested
<1>24. CASE UNCHANGED vars
    BY <1>1, <1>24 DEF vars
<1>25. QED
    BY <1>2, <1>3, <1>4, <1>5, <1>6, <1>7, <1>8, <1>9, <1>10, <1>11, <1>12, <1>13,
       <1>14, <1>15, <1>16, <1>17, <1>18, <1>19, <1>20, <1>21, <1>22, <1>23, <1>24 DEF Next

(* The steps of kernel_main by their numbers.                               *)
LEMMA BootEffect ==
    ASSUME Booted, BootStep
    PROVE  /\ stage \in 0 .. 7 /\ stage' = stage + 1
           /\ iflag' = (iflag \/ stage \in {2, 7})
           /\ mode' = IF stage = 7 THEN "idle" ELSE mode
           /\ traps' = IF stage = 0 THEN ExceptionTraps
                       ELSE IF stage = 1 THEN traps \cup IrqTraps ELSE traps
           /\ handlers' = IF stage = 3 /\ ~arm THEN handlers \cup {KBD}
                          ELSE IF stage = 5 THEN handlers \cup {IF arm THEN AUX ELSE IDE}
                          ELSE handlers
           /\ enabled' = IF stage = 1 THEN {}
                         ELSE IF stage = 4 /\ ~arm THEN enabled \cup {KBD}
                         ELSE IF stage = 6 THEN enabled \cup {IF arm THEN AUX ELSE IDE}
                         ELSE enabled
           /\ irr' = IF stage = 1 THEN {} ELSE irr
           /\ isr' = IF stage = 1 THEN {} ELSE isr
           /\ IF stage = 3 /\ arm THEN waiting' = <<>> /\ lost' = lost + Len(waiting)
              ELSE waiting' = waiting /\ lost' = lost
<1> DEFINE s == BootSteps[stage + 1]
<1>1. stage \in 0 .. 7 /\ stage' = stage + 1 /\ arm \in BOOLEAN
  <2>1. mode = "boot" /\ stage' = stage + 1
      BY DEF BootStep
  <2>2. QED
      BY <2>1 DEF Booted
<1>2. /\ iflag' = (iflag \/ s \in {"enable_trap", "scheduler"})
      /\ mode' = IF s = "scheduler" THEN "idle" ELSE mode
      /\ traps' = CASE s = "trap_init" -> ExceptionTraps
                    [] s = "irq_init" -> traps \cup IrqTraps
                    [] OTHER -> traps
      /\ CASE s = "register kbd" -> Register(KBD) [] s = "register ide" -> Register(IDE)
           [] s = "register aux" -> Register(AUX) [] OTHER -> UNCHANGED handlers
      /\ CASE s = "enable kbd" -> Enable(KBD) [] s = "enable ide" -> Enable(IDE)
           [] s = "enable aux" -> Enable(AUX) [] s = "irq_init" -> PicInit
           [] OTHER -> UNCHANGED <<enabled, irr, isr>>
      /\ IF s = "uart off" THEN waiting' = <<>> /\ lost' = lost + Len(waiting)
         ELSE UNCHANGED <<waiting, lost>>
    BY DEF BootStep
<1>3. /\ stage = 0 => s = "trap_init"
      /\ stage = 1 => s = "irq_init"
      /\ stage = 2 => s = "enable_trap"
      /\ stage = 3 => s = IF arm THEN "uart off" ELSE "register kbd"
      /\ stage = 4 => s = IF arm THEN "uart on" ELSE "enable kbd"
      /\ stage = 5 => s = IF arm THEN "register aux" ELSE "register ide"
      /\ stage = 6 => s = IF arm THEN "enable aux" ELSE "enable ide"
      /\ stage = 7 => s = "scheduler"
  <2>1. /\ stage = 0 => stage + 1 = 1
        /\ stage = 1 => stage + 1 = 2
        /\ stage = 2 => stage + 1 = 3
        /\ stage = 3 => stage + 1 = 4
        /\ stage = 4 => stage + 1 = 5
        /\ stage = 5 => stage + 1 = 6
        /\ stage = 6 => stage + 1 = 7
        /\ stage = 7 => stage + 1 = 8
      BY <1>1
  <2>2. QED
      BY Zenon, <2>1, BootPlan
<1> HIDE DEF s
<1>4. /\ Register(KBD) /\ ~arm => handlers' = handlers \cup {KBD}
      /\ Register(IDE) /\ ~arm => handlers' = handlers \cup {IDE}
      /\ Register(AUX) /\ arm => handlers' = handlers \cup {AUX}
    BY DEF Register, IrqMax, KBD, IDE, AUX
<1>5. stage = 0 \/ stage = 1 \/ stage = 2 \/ stage = 3 \/ stage = 4 \/ stage = 5 \/ stage = 6 \/ stage = 7
    BY <1>1
<1>6. CASE stage = 0
    BY <1>1, <1>2, <1>3, <1>6
<1>7. CASE stage = 1
    BY <1>1, <1>2, <1>3, <1>7 DEF PicInit
<1>8. CASE stage = 2
    BY <1>1, <1>2, <1>3, <1>8
<1>9. CASE stage = 3
    BY <1>1, <1>2, <1>3, <1>4, <1>9
<1>10. CASE stage = 4
    BY <1>1, <1>2, <1>3, <1>10 DEF Enable
<1>11. CASE stage = 5
    BY <1>1, <1>2, <1>3, <1>4, <1>11
<1>12. CASE stage = 6
    BY <1>1, <1>2, <1>3, <1>12 DEF Enable
<1>13. CASE stage = 7
    BY <1>1, <1>2, <1>3, <1>13
<1>14. QED
    BY <1>5, <1>6, <1>7, <1>8, <1>9, <1>10, <1>11, <1>12, <1>13

(* kernel_main registers a line before it enables it, and traps before it   *)
(* lets interrupts in.                                                      *)
LEMMA BootedStep == IInv /\ [Next]_vars => Booted'
<1> SUFFICES ASSUME IInv, [Next]_vars PROVE Booted'
    OBVIOUS
<1> USE DEF IInv, cpu, pic, kbd
<1>2. ASSUME UNCHANGED <<arm, stage, traps, handlers, enabled>>, iflag' \in BOOLEAN,
             iflag' => iflag \/ frames # <<>> \/ mode # "boot",
             mode' = mode \/ (mode # "boot" /\ mode' \in {"idle", "user"})
      PROVE  Booted'
    BY <1>2 DEF Booted, Devices, IrqTraps, IrqMax
<1>3. CASE BootStep
  <2>1. /\ Booted /\ stage \in 0 .. 7 /\ stage' = stage + 1 /\ arm' = arm
        /\ iflag' = (iflag \/ stage \in {2, 7})
        /\ mode' = IF stage = 7 THEN "idle" ELSE mode
        /\ traps' = IF stage = 0 THEN ExceptionTraps
                    ELSE IF stage = 1 THEN traps \cup IrqTraps ELSE traps
      BY <1>3, BootEffect DEF BootStep
  <2>2. IrqTraps' = IrqTraps
      BY <2>1 DEF IrqTraps, IrqMax
  <2>3. iflag' \in BOOLEAN
      BY Zenon, <2>1
  <2>4. stage' \in 0 .. 8
      BY <2>1
  <2>5. mode' \in {"boot", "idle", "user"} /\ (mode' = "boot" <=> stage' < 8)
        /\ (iflag' => stage' >= 3)
      BY <2>1 DEF Booted
  <2>6. (stage' >= 2 => IrqTraps \subseteq traps') /\ traps' \subseteq ExceptionTraps \cup IrqTraps
      BY <2>1 DEF Booted
  <2>7. handlers' = IF stage = 3 /\ ~arm THEN handlers \cup {KBD}
                    ELSE IF stage = 5 THEN handlers \cup {IF arm THEN AUX ELSE IDE}
                    ELSE handlers
      BY <1>3, BootEffect
  <2>8. handlers' = IF arm THEN {n \in {AUX} : stage' >= 6}
                    ELSE {n \in {KBD} : stage' >= 4} \cup {n \in {IDE} : stage' >= 6}
    <3>1. CASE arm
        BY <2>1, <2>7, <3>1 DEF Booted
    <3>2. CASE ~arm
        BY <2>1, <2>7, <3>2 DEF Booted
    <3>3. QED
        BY <3>1, <3>2
  <2>9. enabled' = IF stage = 1 THEN {}
                   ELSE IF stage = 4 /\ ~arm THEN enabled \cup {KBD}
                   ELSE IF stage = 6 THEN enabled \cup {IF arm THEN AUX ELSE IDE}
                   ELSE enabled
      BY <1>3, BootEffect
  <2>10. enabled' = IF arm THEN {n \in {AUX} : stage' >= 7}
                    ELSE {n \in {KBD} : stage' >= 5} \cup {n \in {IDE} : stage' >= 7}
    <3>1. CASE arm
        BY <2>1, <2>9, <3>1 DEF Booted
    <3>2. CASE ~arm
        BY <2>1, <2>9, <3>2 DEF Booted
    <3>3. QED
        BY <3>1, <3>2
  <2>11. QED
      BY <2>1, <2>2, <2>3, <2>4, <2>5, <2>6, <2>8, <2>10 DEF Booted
<1>b. iflag \in BOOLEAN
    BY DEF Booted
<1>4. ASSUME NEW k \in Keys, Type(k) PROVE Booted'
    BY <1>b, <1>2, <1>4 DEF Type
<1>5. CASE Load
    BY <1>b, <1>2, <1>5 DEF Load
<1>6. CASE DiskDone
    BY <1>b, <1>2, <1>6 DEF DiskDone
<1>m. \A no : Masks(no) \in BOOLEAN
    BY DEF Masks, Booted
<1>e. ASSUME NEW no, Enter(no) PROVE iflag' \in BOOLEAN /\ (iflag' => iflag)
    BY Zenon, <1>b, <1>m, <1>e DEF Enter
<1>7. CASE Interrupt
  <2>1. PICK no : Enter(no)
      BY <1>7 DEF Interrupt
  <2>2. QED
      BY <1>2, <1>7, <1>e, <2>1 DEF Interrupt
<1>8. ASSUME NEW n \in {7, 15}, FalseAlarm(n) PROVE Booted'
    BY <1>2, <1>8, <1>e DEF FalseAlarm
<1>9. CASE Syscall
    BY <1>2, <1>9, <1>e DEF Syscall
<1>10. CASE Dispatch
    BY <1>b, <1>2, <1>10 DEF Dispatch
<1>11. CASE GetC
    BY <1>b, <1>2, <1>11 DEF GetC
<1>12. CASE NoMore
    BY <1>b, <1>2, <1>12 DEF NoMore
<1>13. CASE IdeIntr
    BY <1>b, <1>2, <1>13 DEF IdeIntr
<1>14. CASE End
    BY <1>b, <1>2, <1>14 DEF End
<1>15. CASE Exit
  <2>1. iflag' \in BOOLEAN /\ frames # <<>>
      BY <1>15, TopFacts DEF Exit, Frame
  <2>2. QED
      BY <1>2, <1>15, <2>1 DEF Exit
<1>16. CASE Work
    BY <1>b, <1>2, <1>16 DEF Work
<1>17. CASE StartDisk
    BY <1>b, <1>2, <1>17 DEF StartDisk
<1>18. CASE Return
    BY <1>b, <1>2, <1>18 DEF Return
<1>19. CASE SleepMask
    BY <1>b, <1>2, <1>19 DEF SleepMask
<1>20. CASE SleepUnmask
    BY <1>2, <1>20 DEF SleepUnmask
<1>s. ASSUME frames # <<>>, Top.step \in {"body", "yield"} PROVE mode # "boot"
  <2>1. Top.no = T_SYSCALL /\ FrameOK(Top, Running)
      BY <1>s, TopFacts DEF FrameOK
  <2>2. QED
      BY <2>1 DEF FrameOK, Running
<1>21. CASE SleepYield
  <2>1. frames # <<>> /\ Top.step = "yield" /\ mode' = "idle"
      BY <1>21 DEF SleepYield
  <2>2. QED
      BY <1>b, <1>2, <1>21, <1>s, <2>1 DEF SleepYield
<1>22. CASE SysExit
  <2>1. frames # <<>> /\ Top.step = "body" /\ mode' = "idle"
      BY <1>22 DEF SysExit, InBody
  <2>2. QED
      BY <1>b, <1>2, <1>22, <1>s, <2>1 DEF SysExit
<1>23. CASE JoinNew
    BY <1>2, <1>23 DEF JoinNew
<1>24. CASE JoinAsleep
    BY <1>b, <1>2, <1>24 DEF JoinAsleep
<1>25. CASE UNCHANGED vars
    BY <1>b, <1>2, <1>25 DEF vars
<1>26. QED
    BY <1>3, <1>4, <1>5, <1>6, <1>7, <1>8, <1>9, <1>10, <1>11, <1>12, <1>13,
       <1>14, <1>15, <1>16, <1>17, <1>18, <1>19, <1>20, <1>21, <1>22, <1>23, <1>24, <1>25 DEF Next

(* A keyboard is not set up as a UART is.                                   *)
LEMMA X86Receives == Booted /\ ~arm => Receiving
<1> SUFFICES ASSUME Booted, ~arm, NEW i \in 1 .. stage PROVE BootSteps[i] # "uart off"
    BY DEF Receiving, BootDone
<1>1. i \in 1 .. 8
    BY DEF Booted
<1>2. \/ i = 1 \/ i = 2 \/ i = 3 \/ i = 4 \/ i = 5 \/ i = 6 \/ i = 7 \/ i = 8
    BY <1>1
<1>3. QED
    BY <1>2, BootPlan

(* A key's bytes.                                                           *)
KeyBytes(k) ==
    LET code == [code |-> Scan[k].code, up |-> k \in down]
    IN  IF ~arm /\ Scan[k].ext THEN <<E0, code>> ELSE <<code>>

(* A key sends one byte, or E0 and one byte; the last one says whether it   *)
(* is held now.                                                             *)
LEMMA KeyFacts ==
    ASSUME NEW k \in DOMAIN Scan
    PROVE  /\ KeyBytes(k) \in Seq(Bytes) /\ Len(KeyBytes(k)) \in 1 .. 2
           /\ KeyBytes(k)[Len(KeyBytes(k))] = [code |-> Scan[k].code, up |-> k \in down]
           /\ Len(KeyBytes(k)) = 2 => KeyBytes(k)[1] = E0 /\ k = "rctl"
<1> DEFINE c == [code |-> Scan[k].code, up |-> k \in down]
<1>1. c \in Bytes /\ E0 \in Bytes
    BY DEF Scan, Bytes
<1>2. Scan[k].ext => k = "rctl"
    BY DEF Scan
<1> HIDE DEF c
<1>3. KeyBytes(k) = IF ~arm /\ Scan[k].ext THEN <<E0, c>> ELSE <<c>>
    BY DEF KeyBytes, c
<1>4. QED
    BY <1>1, <1>2, <1>3 DEF c

(* kbdgetc keeps its shift among the states it knows.                       *)
LEMMA DecodeHeld ==
    ASSUME NEW b \in Bytes, NEW s \in SUBSET Held
    PROVE  Decode(b, s) \subseteq Held
<1>1. \A c, high : shiftcode(c, high) \subseteq Held /\ togglecode(c, high) \subseteq Held
    BY DEF shiftcode, togglecode, Held
<1>2. QED
    BY <1>1 DEF Decode, Held

(* No byte comes from nowhere, and none is lost but before the UART is set  *)
(* up.                                                                      *)
LEMMA DevicesStep == IInv /\ [Next]_vars => Devices'
<1> SUFFICES ASSUME IInv, [Next]_vars PROVE Devices'
    OBVIOUS
<1> USE DEF IInv, cpu, pic, kbd
<1>b. /\ waiting \in Seq(Bytes) /\ obf \in BOOLEAN /\ shift \subseteq Held
      /\ down \subseteq DOMAIN Scan /\ typed \in 0 .. MaxInputs /\ taken \in Nat /\ lost \in Nat
      /\ taken + lost = typed - Len(waiting) /\ (lost > 0 => arm)
      /\ spurious \in 0 .. MaxInputs /\ deaf \in BOOLEAN /\ disk \in {"idle", "busy", "ready"}
      /\ obf => waiting # <<>> /\ ~arm
      /\ ~arm /\ stage < 2 => waiting = <<>>
      /\ frames # <<>> => stage >= 3
      /\ iflag => stage >= 3
      /\ arm \in BOOLEAN /\ stage \in 0 .. 8
    BY DEF Devices, Booted
<1>1. ASSUME UNCHANGED <<arm, stage, kbd, spurious, deaf, disk>>,
             frames' # <<>> => frames # <<>> \/ iflag \/ mode # "boot"
      PROVE  Devices'
  <2>1. frames' # <<>> => stage >= 3
      BY <1>1 DEF Devices, Booted
  <2>2. QED
      BY <1>b, <1>1, <2>1 DEF Devices
<1>2. CASE BootStep
  <2>1. /\ stage \in 0 .. 7 /\ stage' = stage + 1 /\ frames' = <<>>
        /\ UNCHANGED <<arm, obf, shift, down, typed, taken, spurious, deaf, disk>>
        /\ IF stage = 3 /\ arm THEN waiting' = <<>> /\ lost' = lost + Len(waiting)
           ELSE waiting' = waiting /\ lost' = lost
      BY <1>2, BootEffect DEF BootStep
  <2>2. stage' < 2 => stage < 2
      BY <2>1
  <2>3. CASE stage = 3 /\ arm
    <3>1. Len(waiting) \in Nat /\ Len(waiting') = 0 /\ waiting' \in Seq(Bytes)
        BY <1>b, <2>1, <2>3
    <3>2. lost' \in Nat /\ taken + lost' = typed - Len(waiting')
        BY <1>b, <2>1, <2>3, <3>1
    <3>3. QED
        BY <1>b, <2>1, <2>2, <2>3, <3>1, <3>2 DEF Devices
  <2>4. CASE ~(stage = 3 /\ arm)
      BY <1>b, <2>1, <2>2, <2>4 DEF Devices
  <2>5. QED
      BY <2>3, <2>4
<1>3. ASSUME NEW k \in Keys, Type(k) PROVE Devices'
  <2>1. k \in DOMAIN Scan
      BY KeysAssumption
  <2>2. /\ KeyBytes(k) \in Seq(Bytes) /\ Len(KeyBytes(k)) \in 1 .. 2
      BY <2>1, KeyFacts
  <2>3. /\ typed' = typed + Len(KeyBytes(k)) /\ typed' + spurious <= MaxInputs
        /\ UNCHANGED <<arm, cpu, obf, shift, taken, spurious, deaf, disk>>
        /\ IF Receiving THEN waiting' = waiting \o KeyBytes(k) /\ lost' = lost
           ELSE waiting' = waiting /\ lost' = lost + Len(KeyBytes(k))
        /\ down' = IF k \in down THEN down \ {k} ELSE down \cup {k}
        /\ arm \/ BootDone("irq_init")
      BY <1>3 DEF Type, KeyBytes
  <2>4. /\ waiting' \in Seq(Bytes)
        /\ taken + lost' = typed' - Len(waiting') /\ lost' \in Nat
        /\ waiting # <<>> => waiting' # <<>>
        /\ ~Receiving \/ lost' = lost
    <3>1. waiting \in Seq(Bytes) /\ Len(waiting) \in Nat
        BY <1>b
    <3>2. /\ waiting \o KeyBytes(k) \in Seq(Bytes)
          /\ Len(waiting \o KeyBytes(k)) = Len(waiting) + Len(KeyBytes(k))
        BY <2>2, <3>1
    <3>3. CASE Receiving
      <4>1. waiting' \in Seq(Bytes) /\ Len(waiting') = Len(waiting) + Len(KeyBytes(k))
          BY <2>3, <3>2, <3>3
      <4>2. Len(waiting') > 0
          BY <2>2, <3>1, <4>1
      <4>3. lost' = lost
          BY <2>3, <3>3
      <4>4. taken + lost' = typed' - Len(waiting')
        <5>1. /\ taken \in Nat /\ lost \in Nat /\ typed \in Nat /\ Len(KeyBytes(k)) \in Nat
              /\ taken + lost = typed - Len(waiting) /\ typed' = typed + Len(KeyBytes(k))
            BY <1>b, <2>2, <2>3
        <5>2. QED
            BY ONLY <3>1, <4>1, <4>3, <5>1
      <4>5. QED
          BY <1>b, <4>1, <4>2, <4>3, <4>4
    <3>4. CASE ~Receiving
      <4>1. lost' = lost + Len(KeyBytes(k)) /\ waiting' = waiting
          BY <2>3, <3>4
      <4>2. taken + lost' = typed' - Len(waiting') /\ lost' \in Nat
          BY <1>b, <2>2, <2>3, <3>1, <4>1
      <4>3. QED
          BY <1>b, <3>4, <4>1, <4>2
    <3>5. QED
        BY <3>3, <3>4
  <2>5. ~arm => stage >= 2 /\ Receiving
    <3> SUFFICES ASSUME ~arm PROVE stage >= 2 /\ Receiving
        OBVIOUS
    <3>1. PICK i \in 1 .. stage : BootSteps[i] = "irq_init"
        BY <2>3 DEF BootDone
    <3>2. i # 1
        BY <3>1, BootPlan
    <3>3. Receiving
        BY X86Receives, <1>b
    <3>4. QED
        BY <1>b, <3>1, <3>2, <3>3
  <2>6. typed' \in 0 .. MaxInputs
    <3>1. Len(KeyBytes(k)) \in Nat /\ MaxInputs \in Nat
        BY <2>2, BoundAssumption
    <3>2. QED
        BY <1>b, <2>3, <3>1
  <2>7. down' \subseteq DOMAIN Scan
      BY <1>b, <2>1, <2>3
  <2>8. lost' > 0 => arm
      BY <1>b, <2>4, <2>5
  <2>9. QED
      BY <1>b, <2>3, <2>4, <2>5, <2>6, <2>7, <2>8 DEF Devices
<1>4. CASE Load
    BY <1>b, <1>4 DEF Load, Devices
<1>5. CASE DiskDone
    BY <1>b, <1>5 DEF DiskDone, Devices
<1>6. CASE Interrupt
    BY <1>1, <1>6 DEF Interrupt
<1>7. ASSUME NEW n \in {7, 15}, FalseAlarm(n) PROVE Devices'
  <2>1. iflag /\ typed + spurious < MaxInputs /\ spurious' = spurious + 1 /\ deaf' = (deaf \/ n = 15)
        /\ UNCHANGED <<arm, stage, kbd, disk>>
      BY <1>7 DEF FalseAlarm
  <2>2. spurious' \in 0 .. MaxInputs
      BY <1>b, <2>1, BoundAssumption
  <2>3. deaf' \in BOOLEAN
      BY Zenon, <1>b, <2>1
  <2>4. QED
      BY <1>b, <2>1, <2>2, <2>3 DEF Devices
<1>8. CASE Syscall
    BY <1>1, <1>8 DEF Syscall
<1>9. CASE Dispatch
    BY <1>1, <1>9 DEF Dispatch
<1>10. CASE GetC
  <2>1. waiting # <<>> /\ obf' = FALSE /\ waiting' = Tail(waiting) /\ taken' = taken + 1
        /\ shift' = (IF arm THEN shift ELSE Decode(Head(waiting), shift))
        /\ UNCHANGED <<arm, cpu, down, typed, lost, spurious, deaf, disk>> /\ frames # <<>>
      BY <1>b, <1>10 DEF GetC, HasByte
  <2>2. Tail(waiting) \in Seq(Bytes) /\ Len(Tail(waiting)) = Len(waiting) - 1
        /\ Head(waiting) \in Bytes /\ Len(waiting) \in Nat
      BY <1>b, <2>1
  <2>3. shift' \subseteq Held
      BY <1>b, <2>1, <2>2, DecodeHeld
  <2>4. stage >= 3
      BY <1>b, <2>1
  <2>5. taken' \in Nat /\ taken' + lost = typed - Len(waiting')
      BY <1>b, <2>1, <2>2
  <2>6. QED
      BY <1>b, <2>1, <2>2, <2>3, <2>4, <2>5 DEF Devices
<1>11. CASE NoMore
    BY <1>1, <1>11 DEF NoMore
<1>12. CASE IdeIntr
    BY <1>b, <1>12 DEF IdeIntr, Devices
<1>13. CASE End
  <2>1. deaf' \in BOOLEAN
      BY Zenon, <1>b, <1>13 DEF End
  <2>2. frames # <<>> /\ UNCHANGED <<arm, stage, kbd, spurious, disk>>
      BY <1>13 DEF End
  <2>3. QED
      BY <1>b, <2>1, <2>2 DEF Devices
<1>14. CASE Exit
    BY <1>1, <1>14 DEF Exit
<1>15. CASE Work
    BY <1>1, <1>15 DEF Work
<1>16. CASE StartDisk
    BY <1>b, <1>16 DEF StartDisk, Devices
<1>17. CASE Return
    BY <1>1, <1>17 DEF Return, InBody
<1>18. CASE SleepMask
    BY <1>1, <1>18 DEF SleepMask, InBody
<1>19. CASE SleepUnmask
    BY <1>1, <1>19 DEF SleepUnmask
<1>20. CASE SleepYield
    BY <1>1, <1>20 DEF SleepYield
<1>21. CASE SysExit
    BY <1>1, <1>21 DEF SysExit
<1>22. CASE JoinNew
    BY <1>1, <1>22 DEF JoinNew
<1>23. CASE JoinAsleep
    BY <1>1, <1>23 DEF JoinAsleep
<1>24. CASE UNCHANGED vars
    BY <1>1, <1>24 DEF vars
<1>25. QED
    BY <1>2, <1>3, <1>4, <1>5, <1>6, <1>7, <1>8, <1>9, <1>10, <1>11, <1>12, <1>13,
       <1>14, <1>15, <1>16, <1>17, <1>18, <1>19, <1>20, <1>21, <1>22, <1>23, <1>24 DEF Next

(* The kinds of traps are different numbers.                                *)
LEMMA Numbers ==
    /\ T_SYSCALL \notin Lines /\ T_IRQ0 + KBD \in Lines /\ T_IRQ0 + IDE \in Lines
    /\ T_IRQ0 + 7 \in Lines /\ T_IRQ0 + 15 \in Lines /\ AUX \in Lines
    /\ \A n \in Lines : n = AUX \/ n = T_IRQ0 + KBD \/ n = T_IRQ0 + IDE \/ n = T_IRQ0 + 7
                        \/ n = T_IRQ0 + 15
    /\ T_IRQ0 + KBD = 33 /\ T_IRQ0 + IDE = 46 /\ T_IRQ0 + 7 = 39 /\ T_IRQ0 + 15 = 47
    /\ AUX = 29 /\ T_SYSCALL = 64 /\ KBD = 1 /\ IDE = 14
    BY DEF Lines, T_SYSCALL, T_IRQ0, KBD, IDE, AUX

(* A step that leaves the kind of the trap on top as it is, or quiet.       *)
LEMMA ServeSame ==
    ASSUME InService, UNCHANGED <<isr, irr, deaf, enabled, arm, stage, obf>>,
           frames' = frames
    PROVE  InService'
<1>1. Top' = Top
    BY SameTop
<1>2. Alarm' = Alarm /\ Pending' = Pending
    BY DEF Alarm, Pending
<1>3. \A n : Serving(n)' = Serving(n)
    BY <1>1 DEF Serving
<1>4. QED
    BY <1>1, <1>2, <1>3 DEF InService

(* Outside the handlers of interrupts only a false alarm is in service.     *)
LEMMA ServeQuiet ==
    ASSUME isr' = Alarm', Pending', isr' \subseteq {KBD, 2, IDE}, irr' \subseteq {KBD, IDE},
           stage' < 3 => isr' = {} /\ ~deaf', arm' => isr' = {} /\ ~deaf',
           frames' = <<>> \/ Top'.no = T_SYSCALL
    PROVE  InService'
<1>1. Serving(T_IRQ0 + KBD)' = FALSE /\ Serving(T_IRQ0 + IDE)' = FALSE
      /\ Serving(T_IRQ0 + 7)' = FALSE /\ Serving(T_IRQ0 + 15)' = FALSE
    BY Numbers DEF Serving
<1>2. QED
    BY <1>1 DEF InService

(* Nothing is in service but a false alarm when the handler is through, or  *)
(* where there is none.                                                     *)
LEMMA QuietFacts ==
    ASSUME IInv, frames = <<>> \/ Top.no = T_SYSCALL \/ Top.step = "exit"
    PROVE  isr = Alarm /\ Pending
<1>1. frames # <<>> => Top.no \in Lines \cup {T_SYSCALL}
    BY TopFacts DEF IInv, Frame
<1>2. CASE frames = <<>> \/ Serving(T_SYSCALL) \/ Serving(AUX)
    BY <1>2 DEF IInv, InService
<1>3. CASE Serving(T_IRQ0 + KBD) /\ Top.step = "exit"
    BY <1>3 DEF IInv, InService
<1>4. CASE Serving(T_IRQ0 + IDE) /\ Top.step = "exit"
    BY <1>4 DEF IInv, InService, Alarm
<1>5. CASE Serving(T_IRQ0 + 7) /\ Top.step = "exit"
    BY <1>5 DEF IInv, InService
<1>6. CASE Serving(T_IRQ0 + 15) /\ Top.step = "exit"
    BY <1>6 DEF IInv, InService, Alarm
<1>7. QED
    BY <1>1, <1>2, <1>3, <1>4, <1>5, <1>6, Numbers DEF Serving

(* What is in service goes with what is handled: each handler ends what its *)
(* interrupt began.                                                         *)
LEMMA ServiceStep == IInv /\ [Next]_vars => InService'
<1> SUFFICES ASSUME IInv, [Next]_vars PROVE InService'
    OBVIOUS
<1> USE DEF IInv, cpu, pic, kbd
<1>b. /\ isr \subseteq {KBD, 2, IDE} /\ irr \subseteq {KBD, IDE}
      /\ stage < 3 => isr = {} /\ ~deaf
      /\ arm => isr = {} /\ ~deaf
      /\ arm \in BOOLEAN /\ deaf \in BOOLEAN /\ frames \in Seq(Frame)
      /\ frames # <<>> => stage >= 3 /\ Top.no \in Lines \cup {T_SYSCALL}
      /\ iflag => stage >= 3
      /\ IInv
    BY TopFacts DEF InService, Devices, Booted, Nested, Frame
<1>q. iflag => frames = <<>> \/ Top.no = T_SYSCALL
    BY DEF Nested
<1>1. CASE BootStep
  <2>1. /\ stage \in 0 .. 7 /\ stage' = stage + 1 /\ frames' = <<>> /\ frames = <<>>
        /\ irr' = (IF stage = 1 THEN {} ELSE irr) /\ isr' = (IF stage = 1 THEN {} ELSE isr)
        /\ UNCHANGED <<arm, obf, deaf>>
      BY <1>1, BootEffect DEF BootStep
  <2>2. isr = Alarm /\ Pending
      BY <1>b, <2>1, QuietFacts
  <2>3. stage = 1 => ~obf /\ isr = {}
      BY <1>b DEF Devices
  <2>4. isr' = Alarm' /\ Pending'
      BY <2>1, <2>2, <2>3 DEF Alarm, Pending
  <2>5. stage' < 3 => stage < 3
      BY <2>1
  <2>6. isr' \subseteq {KBD, 2, IDE} /\ irr' \subseteq {KBD, IDE}
        /\ (arm' => isr' = {} /\ ~deaf') /\ (stage' < 3 => isr' = {} /\ ~deaf')
      BY <1>b, <2>1, <2>5
  <2>7. QED
      BY <2>1, <2>4, <2>6, ServeQuiet
<1>2. ASSUME NEW k \in Keys, Type(k) PROVE InService'
    BY <1>b, <1>2, ServeSame DEF Type
<1>3. CASE Load
  <2>1. /\ obf' = TRUE /\ irr' = irr \cup {KBD} /\ frames' = frames
        /\ UNCHANGED <<isr, deaf, enabled, arm, stage>>
      BY <1>3 DEF Load
  <2>2. Top' = Top /\ Alarm' = Alarm /\ Pending' /\ \A n : Serving(n)' = Serving(n)
      BY <2>1, SameTop DEF Alarm, Pending, Serving
  <2>3. QED
      BY <1>b, <2>1, <2>2 DEF InService
<1>4. CASE DiskDone
  <2>1. /\ obf' = obf /\ irr' = irr \cup {IDE} /\ frames' = frames
        /\ UNCHANGED <<isr, deaf, enabled, arm, stage>>
      BY <1>4 DEF DiskDone
  <2>2. /\ Top' = Top /\ Alarm' = Alarm /\ (Pending => Pending')
        /\ \A n : Serving(n)' = Serving(n)
      BY <2>1, SameTop DEF Alarm, Pending, Serving
  <2>3. QED
      BY <1>b, <2>1, <2>2 DEF InService
<1>5. CASE Interrupt
  <2>1. iflag /\ isr = Alarm /\ Pending /\ UNCHANGED <<arm, stage, deaf, enabled, obf>>
      BY <1>b, <1>q, <1>5, QuietFacts DEF Interrupt
  <2>2. Alarm' = Alarm
      BY <2>1 DEF Alarm
  <2>3. CASE arm
    <3>1. Enter(AUX) /\ irr' = irr /\ isr' = isr
        BY <1>5, <2>3 DEF Interrupt
    <3>2. Top'.no = AUX /\ frames' # <<>>
        BY <1>b, <3>1, EnterFacts
    <3>3. Pending'
        BY <2>1, <3>1 DEF Pending
    <3>4. QED
        BY <1>b, <2>1, <2>2, <2>3, <3>1, <3>2, <3>3, Numbers DEF InService, Serving
  <2>4. CASE ~arm /\ \E n \in Announced : n = KBD /\ Enter(T_IRQ0 + n) /\ irr' = irr \ {n}
                        /\ isr' = isr \cup (IF n = IDE THEN {2, IDE} ELSE {KBD})
    <3>1. /\ Enter(T_IRQ0 + KBD) /\ irr' = irr \ {KBD} /\ isr' = isr \cup {KBD}
          /\ KBD \in enabled
        BY <2>4, Numbers DEF Announced
    <3>2. Top'.no = T_IRQ0 + KBD /\ Top'.step = "entered" /\ frames' # <<>>
        BY <1>b, <3>1, EnterFacts
    <3>3. /\ ~Serving(T_SYSCALL)' /\ ~Serving(AUX)' /\ ~Serving(T_IRQ0 + IDE)'
          /\ ~Serving(T_IRQ0 + 7)' /\ ~Serving(T_IRQ0 + 15)' /\ Top'.no # AUX
        BY <3>2, Numbers DEF Serving
    <3>4. /\ isr' \subseteq {KBD, 2, IDE} /\ irr' \subseteq {KBD, IDE} /\ ~(stage' < 3) /\ ~arm'
      <4>1. ~(stage < 3)
          BY <1>b, <2>1 DEF Booted
      <4>2. QED
          BY <1>b, <2>1, <2>4, <3>1, <4>1
    <3>5. isr' = Alarm' \cup {KBD} /\ KBD \in enabled'
        BY <2>1, <2>2, <3>1
    <3>6. QED
        BY <3>2, <3>3, <3>4, <3>5 DEF InService
  <2>5. CASE ~arm /\ \E n \in Announced : n = IDE /\ Enter(T_IRQ0 + n) /\ irr' = irr \ {n}
                        /\ isr' = isr \cup (IF n = IDE THEN {2, IDE} ELSE {KBD})
    <3>1. /\ Enter(T_IRQ0 + IDE) /\ irr' = irr \ {IDE} /\ isr' = {2, IDE}
          /\ IDE \in enabled /\ isr = {}
        BY <2>5, Numbers DEF Announced
    <3>2. Top'.no = T_IRQ0 + IDE /\ Top'.step = "entered" /\ frames' # <<>>
        BY <1>b, <3>1, EnterFacts
    <3>3. ~deaf /\ Pending'
        BY <2>1, <3>1, Numbers DEF Alarm, Pending
    <3>4. /\ ~Serving(T_SYSCALL)' /\ ~Serving(AUX)' /\ ~Serving(T_IRQ0 + KBD)'
          /\ ~Serving(T_IRQ0 + 7)' /\ ~Serving(T_IRQ0 + 15)' /\ Top'.no # AUX
        BY <3>2, Numbers DEF Serving
    <3>5. /\ isr' \subseteq {KBD, 2, IDE} /\ irr' \subseteq {KBD, IDE} /\ ~(stage' < 3) /\ ~arm'
      <4>1. ~(stage < 3)
          BY <1>b, <2>1 DEF Booted
      <4>2. QED
          BY <1>b, <2>1, <2>5, <3>1, <4>1
    <3>6. QED
        BY <2>1, <3>1, <3>2, <3>3, <3>4, <3>5 DEF InService
  <2>6. Announced \subseteq {KBD, IDE}
      BY DEF Announced
  <2>7. QED
      BY <1>5, <2>3, <2>4, <2>5, <2>6 DEF Interrupt
<1>6. ASSUME NEW n \in {7, 15}, FalseAlarm(n) PROVE InService'
  <2>1. /\ iflag /\ ~arm /\ isr = Alarm /\ Pending /\ Enter(T_IRQ0 + n)
        /\ UNCHANGED <<arm, stage, enabled, obf, irr>>
        /\ n = 15 => isr = {}
        /\ isr' = (IF n = 15 THEN isr \cup {2} ELSE isr) /\ deaf' = (deaf \/ n = 15)
      BY <1>b, <1>q, <1>6, QuietFacts DEF FalseAlarm
  <2>2. Top'.no = T_IRQ0 + n /\ Top'.step = "entered" /\ frames' # <<>>
      BY <1>b, <2>1, EnterFacts
  <2>3. Pending'
      BY <2>1 DEF Pending
  <2>4. CASE n = 7
    <3>1. Alarm' = Alarm /\ isr' = isr /\ deaf' = deaf
        BY <1>b, <2>1, <2>4 DEF Alarm
    <3>2. QED
        BY <1>b, <2>1, <2>2, <2>3, <2>4, <3>1, Numbers DEF InService, Serving
  <2>5. CASE n = 15
    <3>1. deaf' /\ isr' = {2}
        BY <1>b, <2>1, <2>5
    <3>2. /\ ~Serving(T_SYSCALL)' /\ ~Serving(AUX)' /\ ~Serving(T_IRQ0 + KBD)'
          /\ ~Serving(T_IRQ0 + 7)' /\ ~Serving(T_IRQ0 + IDE)' /\ Top'.no # AUX
        BY <2>2, <2>5, Numbers DEF Serving
    <3>3. /\ isr' \subseteq {KBD, 2, IDE} /\ irr' \subseteq {KBD, IDE} /\ ~(stage' < 3) /\ ~arm'
      <4>1. ~(stage < 3)
          BY <1>b, <2>1 DEF Booted
      <4>2. QED
          BY <1>b, <2>1, <3>1, <4>1
    <3>4. QED
        BY <2>2, <2>3, <3>1, <3>2, <3>3 DEF InService
  <2>6. QED
      BY <2>4, <2>5
<1>7. CASE Syscall
  <2>1. /\ frames = <<>> /\ Enter(T_SYSCALL) /\ isr = Alarm /\ Pending
        /\ UNCHANGED <<arm, stage, isr, irr, deaf, obf>>
      BY <1>b, <1>7, QuietFacts DEF Syscall
  <2>2. Top'.no = T_SYSCALL
      BY <1>b, <2>1, EnterFacts
  <2>3. isr' = Alarm' /\ Pending'
      BY <2>1 DEF Alarm, Pending
  <2>4. QED
      BY <1>b, <2>1, <2>2, <2>3, ServeQuiet
<1>8. CASE Dispatch
  <2> DEFINE s == CASE Top.no = T_SYSCALL -> "body"
                    [] Top.no # T_SYSCALL /\ ~arm /\ Top.no \notin traps -> "exit"
                    [] OTHER -> IF 0 < IrqNo /\ IrqNo < IrqMax /\ IrqNo \in handlers
                                THEN (IF IrqNo = IDE THEN "ide" ELSE "console") ELSE "end"
  <2>1. /\ frames # <<>> /\ Top.step = "entered" /\ SetStep(s)
        /\ UNCHANGED <<arm, stage, isr, irr, deaf, enabled, obf>>
      BY <1>8 DEF Dispatch
  <2>2. /\ frames' # <<>> /\ Top' = [Top EXCEPT !.step = s] /\ Top \in Frame
        /\ Alarm' = Alarm /\ Pending' = Pending
      BY <1>b, <2>1, SetStepFacts, TopFacts DEF Alarm, Pending
  <2>3. Top'.no = Top.no /\ Top'.step = s
      BY <2>2 DEF Frame
  <2>4. IrqTraps \subseteq traps /\ traps \subseteq ExceptionTraps \cup IrqTraps
      BY <1>b, <2>1 DEF Booted
  <2>5. CASE Top.no = T_SYSCALL
    <3>1. isr = Alarm /\ Pending
        BY <1>b, <2>5, QuietFacts
    <3>2. QED
        BY <1>b, <2>1, <2>2, <2>3, <2>5, <3>1, ServeQuiet
  <2>6. CASE arm /\ Top.no # T_SYSCALL
    <3>1. Top.no = AUX /\ isr = Alarm /\ Pending
        BY <1>b, <2>1, <2>6 DEF InService, Serving
    <3>2. QED
        BY <1>b, <2>1, <2>2, <2>3, <2>6, <3>1, Numbers DEF InService, Serving
  <2>7. CASE ~arm /\ Top.no = T_IRQ0 + KBD
    <3>1. KBD \in enabled
        BY <2>1, <2>7 DEF InService, Serving
    <3>2. KBD \in handlers /\ IrqMax = 15 /\ IrqNo = KBD /\ T_IRQ0 + KBD \in traps
        BY <2>4, <2>7, <3>1, Numbers DEF Booted, IrqMax, IrqNo, IrqTraps, T_IRQ0
    <3>3. s = "console"
        BY <2>7, <3>2, Numbers
    <3>4. QED
        BY <1>b, <2>1, <2>2, <2>3, <2>7, <3>3, Numbers DEF InService, Serving
  <2>8. CASE ~arm /\ Top.no = T_IRQ0 + IDE
    <3>1. IDE \in enabled
        BY <2>1, <2>8 DEF InService, Serving
    <3>2. IDE \in handlers /\ IrqMax = 15 /\ IrqNo = IDE /\ T_IRQ0 + IDE \in traps
        BY <2>4, <2>8, <3>1, Numbers DEF Booted, IrqMax, IrqNo, IrqTraps, T_IRQ0
    <3>3. s = "ide"
        BY <2>8, <3>2, Numbers
    <3>4. QED
        BY <1>b, <2>1, <2>2, <2>3, <2>8, <3>3, Numbers DEF InService, Serving
  <2>9. CASE ~arm /\ Top.no = T_IRQ0 + 7
    <3>1. 7 \notin handlers /\ IrqNo = 7 /\ T_IRQ0 + 7 \in traps
        BY <2>4, <2>9, Numbers DEF Booted, IrqMax, IrqNo, IrqTraps, T_IRQ0
    <3>2. s = "end"
        BY <2>9, <3>1, Numbers
    <3>3. QED
        BY <1>b, <2>1, <2>2, <2>3, <2>9, <3>2, Numbers DEF InService, Serving
  <2>10. CASE ~arm /\ Top.no = T_IRQ0 + 15
    <3>1. T_IRQ0 + 15 \notin traps
        BY <2>4, <2>10, Numbers DEF ExceptionTraps, IrqMax, IrqTraps, T_IRQ0
    <3>2. s = "exit"
        BY <2>10, <3>1, Numbers
    <3>3. QED
        BY <1>b, <2>1, <2>2, <2>3, <2>10, <3>2, Numbers DEF InService, Serving
  <2>11. arm \/ Top.no # AUX
      BY <2>1, Numbers DEF InService
  <2>12. QED
      BY <1>b, <2>1, <2>5, <2>6, <2>7, <2>8, <2>9, <2>10, <2>11, Numbers
<1>9. CASE GetC
  <2>1. /\ frames' = frames /\ frames # <<>> /\ Top.step = "console" /\ obf' = FALSE
        /\ irr' \in {irr, irr \ {KBD}}
        /\ UNCHANGED <<arm, stage, isr, deaf, enabled>>
      BY <1>9 DEF GetC
  <2>2. Top' = Top /\ Alarm' = Alarm /\ Pending' /\ \A n : Serving(n)' = Serving(n)
      BY <2>1, SameTop DEF Alarm, Pending, Serving
  <2>3. QED
      BY <1>b, <2>1, <2>2 DEF InService
<1>10. CASE NoMore
  <2>1. /\ frames # <<>> /\ Top.step = "console" /\ SetStep("end") /\ ~HasByte
        /\ UNCHANGED <<arm, stage, isr, irr, deaf, enabled, obf>>
      BY <1>10 DEF NoMore
  <2>2. /\ frames' # <<>> /\ Top' = [Top EXCEPT !.step = "end"] /\ Top \in Frame
        /\ Alarm' = Alarm
      BY <1>b, <2>1, SetStepFacts, TopFacts DEF Alarm
  <2>3. Top'.no = Top.no /\ Top'.step = "end"
      BY <2>2 DEF Frame
  <2>4. Pending'
      BY <2>1 DEF Pending, HasByte, Devices
  <2>5. Top.no = AUX \/ Top.no = T_IRQ0 + KBD
      BY <1>b, <2>1, TopFacts, Numbers DEF InService, Serving, FrameOK
  <2>6. QED
      BY <1>b, <2>1, <2>2, <2>3, <2>4, <2>5, Numbers DEF InService, Serving
<1>11. CASE IdeIntr
  <2>1. /\ frames # <<>> /\ Top.step = "ide" /\ SetStep("end")
        /\ UNCHANGED <<arm, stage, isr, irr, deaf, enabled, obf>>
      BY <1>11 DEF IdeIntr
  <2>2. /\ frames' # <<>> /\ Top' = [Top EXCEPT !.step = "end"] /\ Top \in Frame
        /\ Alarm' = Alarm /\ Pending' = Pending
      BY <1>b, <2>1, SetStepFacts, TopFacts DEF Alarm, Pending
  <2>3. Top'.no = Top.no /\ Top'.step = "end"
      BY <2>2 DEF Frame
  <2>5. Top.no = AUX \/ Top.no = T_IRQ0 + IDE
      BY <1>b, <2>1, TopFacts, Numbers DEF InService, Serving, FrameOK
  <2>6. QED
      BY <1>b, <2>1, <2>2, <2>3, <2>5, Numbers DEF InService, Serving
<1>12. CASE End
  <2>1. /\ frames # <<>> /\ Top.step = "end" /\ SetStep("exit")
        /\ isr' = (isr \ {IDE}) \ (IF KBD \in isr THEN {KBD} ELSE {2})
        /\ deaf' = (deaf /\ 2 \in isr')
        /\ UNCHANGED <<arm, stage, irr, enabled, obf>>
      BY <1>12 DEF End
  <2>2. /\ frames' # <<>> /\ Top' = [Top EXCEPT !.step = "exit"] /\ Top \in Frame
        /\ Pending' = Pending
      BY <1>b, <2>1, SetStepFacts, TopFacts DEF Pending
  <2>3. Top'.no = Top.no /\ Top'.step = "exit"
      BY <2>2 DEF Frame
  <2>4. Top.no \in Lines /\ Top.no # T_SYSCALL /\ Top.no # T_IRQ0 + 15
      BY <1>b, <2>1, TopFacts, Numbers DEF InService, Serving, FrameOK
  <2>5. isr' \subseteq {KBD, 2, IDE} /\ (arm => isr' = {} /\ ~deaf')
      BY <1>b, <2>1
  <2>6. CASE Top.no = AUX
    <3>1. arm /\ Pending
        BY <2>1, <2>6, Numbers DEF InService, Serving
    <3>2. isr' = Alarm'
        BY <2>5, <3>1 DEF Alarm
    <3>3. QED
        BY <1>b, <2>1, <2>2, <2>3, <2>5, <2>6, <3>1, <3>2, Numbers DEF InService, Serving
  <2>7. CASE Top.no = T_IRQ0 + KBD
    <3>1. isr = Alarm \cup {KBD} /\ Pending /\ KBD \in enabled
        BY <2>1, <2>7 DEF InService, Serving
    <3>2. isr' = Alarm
        BY <2>1, <3>1, Numbers DEF Alarm
    <3>3. deaf' = deaf /\ Alarm' = Alarm
        BY <1>b, <2>1, <3>2 DEF Alarm
    <3>4. QED
        BY <1>b, <2>1, <2>2, <2>3, <2>5, <2>7, <3>1, <3>2, <3>3, Numbers DEF InService, Serving
  <2>8. CASE Top.no = T_IRQ0 + IDE
    <3>1. isr = {2, IDE} /\ Pending /\ IDE \in enabled /\ ~deaf
        BY <2>1, <2>8 DEF InService, Serving
    <3>2. isr' = {} /\ ~deaf'
      <4>1. KBD \notin isr
          BY <3>1, Numbers
      <4>2. isr' = (isr \ {IDE}) \ {2}
          BY <2>1, <4>1
      <4>3. QED
          BY <2>1, <3>1, <4>2
    <3>3. QED
        BY <1>b, <2>1, <2>2, <2>3, <2>5, <2>8, <3>1, <3>2, Numbers DEF InService, Serving
  <2>9. CASE Top.no = T_IRQ0 + 7
    <3>1. isr = Alarm /\ Pending
        BY <2>1, <2>9 DEF InService, Serving
    <3>2. isr' = {} /\ ~deaf'
      <4>1. KBD \notin isr /\ isr \subseteq {2}
          BY <3>1, Numbers DEF Alarm
      <4>2. isr' = (isr \ {IDE}) \ {2}
          BY <2>1, <4>1
      <4>3. isr' = {}
          BY <4>1, <4>2
      <4>4. QED
          BY <2>1, <4>3
    <3>3. isr' = Alarm'
        BY <3>2 DEF Alarm
    <3>4. QED
        BY <1>b, <2>1, <2>2, <2>3, <2>5, <2>9, <3>1, <3>2, <3>3, Numbers DEF InService, Serving
  <2>10. QED
      BY <2>4, <2>6, <2>7, <2>8, <2>9, Numbers
<1>13. CASE Exit
  <2>1. /\ frames # <<>> /\ Top.step = "exit" /\ frames' = Front(frames)
        /\ UNCHANGED <<arm, stage, isr, irr, deaf, obf>>
      BY <1>13 DEF Exit
  <2>2. isr = Alarm /\ Pending
      BY <1>b, <2>1, QuietFacts
  <2>3. isr' = Alarm' /\ Pending'
      BY <2>1, <2>2 DEF Alarm, Pending
  <2>4. frames' = <<>> \/ Top'.no = T_SYSCALL
    <3>1. Len(frames) \in 1 .. 2
        BY <2>1, TopFacts
    <3>2. frames' = <<>> <=> Len(frames) = 1
        BY <1>b, <2>1, ExitFacts
    <3>3. Len(frames) = 2 => Top' = frames[1]
        BY <1>b, <2>1, ExitFacts
    <3>4. Len(frames) = 2 => frames[1].no = T_SYSCALL
        BY DEF Nested
    <3>5. QED
        BY <3>1, <3>2, <3>3, <3>4
  <2>5. QED
      BY <1>b, <2>1, <2>3, <2>4, ServeQuiet
<1>14. CASE Work
    BY <1>b, <1>14, ServeSame DEF Work
<1>15. CASE StartDisk
    BY <1>b, <1>15, ServeSame DEF StartDisk
<1>16. ASSUME frames # <<>>, Top.step \in {"body", "sleep", "yield"}
       PROVE  isr = Alarm /\ Pending /\ Top.no = T_SYSCALL
  <2>1. Top.no = T_SYSCALL
      BY <1>16, TopFacts DEF FrameOK
  <2>2. QED
      BY <1>b, <2>1, QuietFacts
<1>17. CASE Return
  <2>1. /\ frames # <<>> /\ Top.step = "body"
        /\ frames' = [frames EXCEPT ![1].saved.r0 = 3, ![1].step = "exit"]
        /\ UNCHANGED <<arm, stage, isr, irr, deaf, obf>>
      BY <1>17 DEF Return, InBody
  <2>2. isr' = Alarm' /\ Pending'
      BY <1>16, <2>1 DEF Alarm, Pending
  <2>3. Top'.no = T_SYSCALL
    <3>1. Top.no = T_SYSCALL /\ Len(frames) = 1 /\ Top = frames[1] /\ Top \in Frame
        BY <1>16, <2>1, TopFacts
    <3>2. Len(frames') = 1 /\ Top' = frames'[Len(frames')]
        BY <1>b, <2>1, <3>1 DEF Top, Last
    <3>3. frames'[1].no = frames[1].no
        BY <1>b, <2>1, <3>1 DEF Frame
    <3>4. QED
        BY <3>1, <3>2, <3>3
  <2>4. QED
      BY <1>b, <2>1, <2>2, <2>3, ServeQuiet
<1>18. CASE SleepMask
  <2>1. /\ frames # <<>> /\ Top.step = "body" /\ SetStep("sleep")
        /\ UNCHANGED <<arm, stage, isr, irr, deaf, obf>>
      BY <1>18 DEF SleepMask, InBody
  <2>2. isr' = Alarm' /\ Pending'
      BY <1>16, <2>1 DEF Alarm, Pending
  <2>3. Top'.no = T_SYSCALL
      BY <1>b, <1>16, <2>1, SetStepFacts, TopFacts DEF Frame
  <2>4. QED
      BY <1>b, <2>1, <2>2, <2>3, ServeQuiet
<1>19. CASE SleepUnmask
  <2>1. /\ frames # <<>> /\ Top.step = "sleep" /\ SetStep("yield")
        /\ UNCHANGED <<arm, stage, isr, irr, deaf, obf>>
      BY <1>19 DEF SleepUnmask
  <2>2. isr' = Alarm' /\ Pending'
      BY <1>16, <2>1 DEF Alarm, Pending
  <2>3. Top'.no = T_SYSCALL
      BY <1>b, <1>16, <2>1, SetStepFacts, TopFacts DEF Frame
  <2>4. QED
      BY <1>b, <2>1, <2>2, <2>3, ServeQuiet
<1>20. CASE SleepYield
  <2>1. /\ frames # <<>> /\ Top.step = "yield" /\ frames' = <<>>
        /\ UNCHANGED <<arm, stage, isr, irr, deaf, obf>>
      BY <1>20 DEF SleepYield
  <2>2. isr' = Alarm' /\ Pending'
      BY <1>16, <2>1 DEF Alarm, Pending
  <2>3. QED
      BY <1>b, <2>1, <2>2, ServeQuiet
<1>21. CASE SysExit
  <2>1. /\ frames # <<>> /\ Top.step = "body" /\ frames' = <<>>
        /\ UNCHANGED <<arm, stage, isr, irr, deaf, obf>>
      BY <1>21 DEF SysExit, InBody
  <2>2. isr' = Alarm' /\ Pending'
      BY <1>16, <2>1 DEF Alarm, Pending
  <2>3. QED
      BY <1>b, <2>1, <2>2, ServeQuiet
<1>22. CASE JoinNew
    BY <1>b, <1>22, ServeSame DEF JoinNew
<1>23. CASE JoinAsleep
  <2>1. /\ frames = <<>> /\ frames' = asleep /\ asleep # <<>>
        /\ UNCHANGED <<arm, stage, isr, irr, deaf, obf>>
      BY <1>23 DEF JoinAsleep
  <2>2. isr = Alarm /\ Pending
      BY <1>b, <2>1, QuietFacts
  <2>3. isr' = Alarm' /\ Pending'
      BY <2>1, <2>2 DEF Alarm, Pending
  <2>4. Top'.no = T_SYSCALL
    <3>1. Top' = frames'[Len(frames')]
        BY DEF Top, Last
    <3>2. QED
        BY <2>1, <3>1 DEF Nested
  <2>5. QED
      BY <1>b, <2>1, <2>3, <2>4, ServeQuiet
<1>24. CASE UNCHANGED vars
    BY <1>b, <1>24, ServeSame DEF vars
<1>25. QED
    BY <1>1, <1>2, <1>3, <1>4, <1>5, <1>6, <1>7, <1>8, <1>9, <1>10, <1>11, <1>12, <1>13,
       <1>14, <1>15, <1>17, <1>18, <1>19, <1>20, <1>21, <1>22, <1>23, <1>24 DEF Next

(* kbdgetc changes the modifier whose code it reads, and no other; it       *)
(* remembers a prefix until the next code.                                  *)
LEMMA DecodeFacts ==
    ASSUME NEW b \in Bytes, NEW s \in SUBSET Held, "E0ESC" \in s => b.code = "1D",
           NEW m \in DOMAIN Modifier
    PROVE  /\ b.code = Scan[m].code => (Modifier[m] \in Decode(b, s) <=> ~b.up)
           /\ b.code # Scan[m].code => (Modifier[m] \in Decode(b, s) <=> Modifier[m] \in s)
           /\ "E0ESC" \in Decode(b, s) <=> b = E0
<1>1. m = "lshift" \/ m = "rctl" \/ m = "lalt"
    BY DEF Modifier
<1>2. CASE b = E0
  <2>1. "E0ESC" \notin s /\ Decode(b, s) = s \cup {"E0ESC"} /\ b.code = "E0"
      BY <1>2 DEF Decode, E0
  <2>2. b.code # Scan[m].code /\ Modifier[m] # "E0ESC"
      BY <1>1, <2>1 DEF Scan, Modifier
  <2>3. QED
      BY <1>2, <2>1, <2>2
<1>3. CASE b # E0
  <2>1. /\ b.code = "2A" \/ b.code = "1D" \/ b.code = "38" \/ b.code = "3A" \/ b.code = "1E"
        /\ b.up \in BOOLEAN
      BY <1>3 DEF Bytes
  <2> DEFINE esc == "E0ESC" \in s
  <2> DEFINE off == s \ {"E0ESC"}
  <2> DEFINE own == shiftcode(b.code, esc)
  <2> DEFINE on == off \cup own
  <2> DEFINE tog == togglecode(b.code, esc)
  <2>2. Decode(b, s) = IF b.up THEN off \ own ELSE (on \ tog) \cup (tog \ on)
      BY <1>3 DEF Decode
  <2>3. /\ tog \subseteq {"CAPSLOCK"} /\ own \subseteq {"SHIFT", "CTL", "ALT"}
        /\ b.code = Scan[m].code => own = {Modifier[m]}
        /\ b.code # Scan[m].code => Modifier[m] \notin own
        /\ Modifier[m] # "CAPSLOCK" /\ Modifier[m] # "E0ESC"
    <3>1. esc => b.code = "1D"
        OBVIOUS
    <3>2. CASE b.code = "2A"
        BY <1>1, <3>1, <3>2 DEF Scan, Modifier, shiftcode, togglecode
    <3>3. CASE b.code = "1D"
        BY <1>1, <3>1, <3>3 DEF Scan, Modifier, shiftcode, togglecode
    <3>4. CASE b.code = "38"
        BY <1>1, <3>1, <3>4 DEF Scan, Modifier, shiftcode, togglecode
    <3>5. CASE b.code = "3A"
        BY <1>1, <3>1, <3>5 DEF Scan, Modifier, shiftcode, togglecode
    <3>6. CASE b.code = "1E"
        BY <1>1, <3>1, <3>6 DEF Scan, Modifier, shiftcode, togglecode
    <3>7. QED
        BY <2>1, <3>2, <3>3, <3>4, <3>5, <3>6
  <2> HIDE DEF own, tog
  <2>4. CASE b.up
      BY <1>3, <2>2, <2>3, <2>4
  <2>5. CASE ~b.up
      BY <1>3, <2>2, <2>3, <2>5
  <2>6. QED
      BY <2>4, <2>5
<1>4. QED
    BY <1>2, <1>3

(* Each key has its code.                                                   *)
LEMMA CodesDiffer ==
    /\ \A k, m \in DOMAIN Scan : Scan[k].code = Scan[m].code => k = m
    /\ \A k \in DOMAIN Scan : Scan[k].code # "E0"
    /\ DOMAIN Modifier \subseteq DOMAIN Scan
    /\ E0.code = "E0" /\ Scan["rctl"].code = "1D"
<1>1. DOMAIN Scan = {"lshift", "rctl", "lalt", "caps", "a"} /\ DOMAIN Modifier = {"lshift", "rctl", "lalt"}
    BY DEF Scan, Modifier
<1>2. /\ Scan["lshift"].code = "2A" /\ Scan["rctl"].code = "1D" /\ Scan["lalt"].code = "38"
      /\ Scan["caps"].code = "3A" /\ Scan["a"].code = "1E" /\ E0.code = "E0"
    BY DEF Scan, E0
<1>3. QED
    BY <1>1, <1>2

(* A key's own bytes are the last word about it.                            *)
LEMMA TypeFollows ==
    ASSUME IInv, KeysFollow, NEW k \in Keys, Type(k), ~arm
    PROVE  KeysFollow'
<1> DEFINE L == Len(waiting)
<1> DEFINE t == KeyBytes(k)
<1> DEFINE n == Len(t)
<1>1. k \in DOMAIN Scan
    BY KeysAssumption
<1>2. /\ t \in Seq(Bytes) /\ n \in 1 .. 2
      /\ t[n] = [code |-> Scan[k].code, up |-> k \in down]
      /\ n = 2 => t[1] = E0 /\ k = "rctl"
    BY <1>1, KeyFacts
<1>3. /\ waiting \in Seq(Bytes) /\ L \in Nat
      /\ waiting' = waiting \o t /\ shift' = shift /\ arm' = arm
      /\ down' = IF k \in down THEN down \ {k} ELSE down \cup {k}
    BY X86Receives DEF IInv, Devices, Type, KeyBytes
<1> HIDE DEF t
<1>4. /\ Len(waiting') = L + n
      /\ \A i \in 1 .. L : waiting'[i] = waiting[i]
      /\ waiting'[L + n] = t[n]
      /\ n = 2 => waiting'[L + 1] = t[1]
  <2>1. Len(waiting') = L + n
      BY <1>2, <1>3
  <2>2. \A i \in 1 .. L : waiting'[i] = waiting[i]
      BY <1>2, <1>3
  <2>3. \A i \in 1 .. n : waiting'[L + i] = t[i]
      BY <1>2, <1>3
  <2>4. QED
      BY <1>2, <2>1, <2>2, <2>3
<1> HIDE DEF L, n
<1>5. waiting'[L + n].code = Scan[k].code /\ (waiting'[L + n].up <=> k \in down)
  <2> DEFINE r == [code |-> Scan[k].code, up |-> k \in down]
  <2>1. waiting'[L + n] = r
      BY <1>2, <1>4
  <2>2. r.code = Scan[k].code /\ (r.up <=> k \in down)
      BY Zenon
  <2> HIDE DEF r
  <2>3. QED
      BY <2>1, <2>2
<1>6. ASSUME NEW i \in 1 .. L + n, i > L, i # L + n
      PROVE  i = L + 1 /\ n = 2 /\ waiting'[i] = E0
    BY <1>2, <1>3, <1>4, <1>6
<1>7. ASSUME NEW m \in DOMAIN Modifier, m # k
      PROVE  Follows(m)'
  <2> DEFINE c == Scan[m].code
  <2>1. m \in DOMAIN Scan /\ c # Scan[k].code /\ c # "E0"
      BY <1>1, <1>7, CodesDiffer
  <2>2. \A i \in 1 .. L + n : waiting'[i].code = c => i \in 1 .. L /\ waiting[i].code = c
    <3> SUFFICES ASSUME NEW i \in 1 .. L + n, waiting'[i].code = c
                 PROVE  i \in 1 .. L /\ waiting[i].code = c
        OBVIOUS
    <3>1. i # L + n
        BY <1>5, <2>1
    <3>2. ~(i > L)
        BY <1>6, <2>1, <3>1, CodesDiffer
    <3>3. QED
        BY <1>2, <1>3, <1>4, <3>2
  <2>3. ASSUME NEW i \in 1 .. L + n, LastOf(c, i)' PROVE waiting'[i].up <=> m \notin down
    <3>1. i \in 1 .. L /\ waiting[i].code = c /\ waiting'[i] = waiting[i]
        BY <1>4, <2>2, <2>3 DEF LastOf
    <3>2. \A j \in 1 .. L : j > i => waiting[j].code # c
      <4> SUFFICES ASSUME NEW j \in 1 .. L, j > i PROVE waiting[j].code # c
          OBVIOUS
      <4>1. j \in 1 .. L + n
          BY <1>2, <1>3
      <4>2. waiting'[j].code # c
          BY <1>4, <2>3, <4>1 DEF LastOf
      <4>3. QED
          BY <1>4, <4>2
    <3>3. LastOf(c, i)
        BY <3>1, <3>2 DEF LastOf, L
    <3>4. QED
        BY <1>7, <3>1, <3>3 DEF KeysFollow, Follows, L
  <2>4. ASSUME \A i \in 1 .. L + n : waiting'[i].code # c PROVE Modifier[m] \in shift <=> m \in down
    <3>1. ASSUME NEW i \in 1 .. L PROVE waiting[i].code # c
      <4>1. i \in 1 .. L + n
          BY <1>2, <1>3
      <4>2. QED
          BY <1>4, <2>4, <4>1
    <3>2. QED
        BY <1>7, <3>1 DEF KeysFollow, Follows, L
  <2>5. m \in down' <=> m \in down
      BY <1>3, <1>7
  <2>6. QED
      BY <1>3, <1>4, <2>3, <2>4, <2>5 DEF Follows
<1>8. ASSUME k \in DOMAIN Modifier PROVE Follows(k)'
  <2> DEFINE c == Scan[k].code
  <2>1. ASSUME NEW i \in 1 .. L + n, LastOf(c, i)' PROVE i = L + n
      BY <1>2, <1>3, <1>4, <1>5, <2>1 DEF LastOf
  <2>2. k \in down' <=> k \notin down
      BY <1>3
  <2>3. L + n \in 1 .. L + n
      BY <1>2, <1>3
  <2>4. QED
      BY <1>4, <1>5, <2>1, <2>2, <2>3 DEF Follows
<1>9. ASSUME NEW i \in 1 .. L + n, waiting'[i] = E0
      PROVE  i < L + n /\ waiting'[i + 1].code = "1D"
  <2>1. CASE i \in 1 .. L
    <3>1. i < L /\ waiting[i + 1].code = "1D"
        BY <1>4, <1>9, <2>1 DEF KeysFollow, L
    <3>2. i + 1 \in 1 .. L
        BY <1>3, <2>1, <3>1
    <3>3. i < L + n
        BY <1>2, <1>3, <3>1
    <3>4. waiting'[i + 1] = waiting[i + 1]
        BY <1>4, <3>2
    <3>5. QED
        BY <3>1, <3>3, <3>4
  <2>2. CASE i > L
    <3>1. i # L + n
        BY <1>1, <1>5, <1>9, CodesDiffer
    <3>2. i = L + 1 /\ n = 2
        BY <1>6, <2>2, <3>1
    <3>3. k = "rctl" /\ i + 1 = L + n
        BY <1>2, <1>3, <3>2
    <3>4. i < L + n
        BY <1>3, <3>2
    <3>5. waiting'[i + 1].code = "1D"
        BY <1>5, <3>3, CodesDiffer
    <3>6. QED
        BY <3>4, <3>5
  <2>3. i \in 1 .. L \/ i > L
      BY <1>2, <1>3
  <2>4. QED
      BY <2>1, <2>2, <2>3
<1>10. "E0ESC" \in shift => waiting' # <<>> /\ waiting'[1].code = "1D"
  <2>1. ASSUME "E0ESC" \in shift PROVE L > 0 /\ waiting[1].code = "1D"
      BY <1>3, <2>1 DEF KeysFollow, L
  <2>2. QED
      BY <1>2, <1>3, <1>4, <2>1
<1>11. QED
    BY <1>3, <1>4, <1>7, <1>8, <1>9, <1>10 DEF KeysFollow

(* kbdgetc moves the word about a key from its byte to shift.               *)
LEMMA GetCFollows ==
    ASSUME IInv, KeysFollow, GetC, ~arm
    PROVE  KeysFollow'
<1> DEFINE b == Head(waiting)
<1> DEFINE L == Len(waiting)
<1>1. /\ waiting \in Seq(Bytes) /\ waiting # <<>> /\ waiting' = Tail(waiting)
      /\ shift' = Decode(b, shift) /\ shift \in SUBSET Held /\ arm' = arm /\ down' = down
    BY DEF IInv, Devices, GetC, HasByte
<1>2. /\ L \in Nat /\ L > 0 /\ b = waiting[1] /\ b \in Bytes /\ Len(waiting') = L - 1
    BY <1>1
<1>3. \A i \in 1 .. L - 1 : waiting'[i] = waiting[i + 1]
    BY <1>1, <1>2
<1> HIDE DEF b, L
<1>4. "E0ESC" \in shift => b.code = "1D"
    BY <1>2 DEF KeysFollow
<1>5. ASSUME NEW m \in DOMAIN Modifier PROVE Follows(m)'
  <2> DEFINE c == Scan[m].code
  <2>1. /\ b.code = c => (Modifier[m] \in shift' <=> ~b.up)
        /\ b.code # c => (Modifier[m] \in shift' <=> Modifier[m] \in shift)
      BY <1>1, <1>2, <1>4, DecodeFacts
  <2>2. ASSUME NEW i \in 1 .. L - 1, LastOf(c, i)' PROVE waiting'[i].up <=> m \notin down
    <3>1. i + 1 \in 1 .. L /\ waiting[i + 1] = waiting'[i] /\ waiting'[i].code = c
        BY <1>2, <1>3, <2>2 DEF LastOf
    <3>2. ASSUME NEW j \in 1 .. L, j > i + 1 PROVE waiting[j].code # c
      <4>1. j - 1 \in 1 .. L - 1 /\ j - 1 > i /\ (j - 1) + 1 = j
          BY <1>2, <3>2
      <4>2. waiting'[j - 1].code # c
          BY <1>2, <2>2, <4>1 DEF LastOf
      <4>3. QED
          BY <1>3, <4>1, <4>2
    <3>3. LastOf(c, i + 1)
        BY <3>1, <3>2 DEF LastOf, L
    <3>4. QED
        BY <3>1, <3>3 DEF KeysFollow, Follows, L
  <2>3. ASSUME \A i \in 1 .. L - 1 : waiting'[i].code # c PROVE Modifier[m] \in shift' <=> m \in down
    <3>1. ASSUME NEW j \in 1 .. L, j > 1 PROVE waiting[j].code # c
      <4>1. j - 1 \in 1 .. L - 1 /\ (j - 1) + 1 = j
          BY <1>2, <3>1
      <4>2. QED
          BY <1>3, <2>3, <4>1
    <3>2. CASE b.code = c
      <4>1. LastOf(c, 1)
          BY <1>2, <3>1, <3>2 DEF LastOf, L
      <4>2. b.up <=> m \notin down
          BY <1>2, <4>1 DEF KeysFollow, Follows, LastOf
      <4>3. QED
          BY <2>1, <3>2, <4>2
    <3>3. CASE b.code # c
      <4>1. \A j \in 1 .. L : waiting[j].code # c
          BY <1>2, <3>1, <3>3
      <4>2. QED
          BY <2>1, <3>3, <4>1 DEF KeysFollow, Follows, L
    <3>4. QED
        BY <3>2, <3>3
  <2>4. QED
      BY <1>1, <1>2, <2>2, <2>3 DEF Follows
<1>6. ASSUME NEW i \in 1 .. L - 1, waiting'[i] = E0
      PROVE  i < L - 1 /\ waiting'[i + 1].code = "1D"
  <2>1. i + 1 \in 1 .. L /\ waiting[i + 1] = E0
      BY <1>2, <1>3, <1>6
  <2>2. i + 1 < L /\ waiting[(i + 1) + 1].code = "1D"
      BY <2>1 DEF KeysFollow, L
  <2>3. i + 1 \in 1 .. L - 1
      BY <1>2, <2>1, <2>2
  <2>4. QED
      BY <1>2, <1>3, <2>2, <2>3
<1>7. ASSUME "E0ESC" \in shift' PROVE waiting' # <<>> /\ waiting'[1].code = "1D"
  <2>1. "lshift" \in DOMAIN Modifier
      BY DEF Modifier
  <2>2. b = E0
      BY <1>1, <1>2, <1>4, <1>7, <2>1, DecodeFacts
  <2>3. 1 < L /\ waiting[1 + 1].code = "1D"
    <3>1. 1 \in 1 .. L /\ waiting[1] = E0
        BY <1>2, <2>2
    <3>2. QED
        BY <3>1 DEF KeysFollow, L
  <2>4. 1 \in 1 .. L - 1
      BY <1>2, <2>3
  <2>5. QED
      BY <1>2, <1>3, <2>3, <2>4
<1>8. QED
    BY <1>1, <1>2, <1>5, <1>6, <1>7 DEF KeysFollow

(* What the keyboard still has to say is said in the end.                   *)
LEMMA KeysStep == KInv /\ [Next]_vars => KeysFollow'
<1> SUFFICES ASSUME IInv, KeysFollow, [Next]_vars PROVE KeysFollow'
    BY DEF KInv
<1>0. arm' = arm
    BY DEF Next, BootStep, Type, Load, DiskDone, Interrupt, FalseAlarm, Syscall, Dispatch, GetC,
           NoMore, IdeIntr, End, Exit, Work, StartDisk, Return, SleepMask, SleepUnmask,
           SleepYield, SysExit, JoinNew, JoinAsleep, vars
<1>1. CASE arm
    BY <1>0, <1>1 DEF KeysFollow
<1>2. CASE ~arm /\ GetC
    BY <1>2, GetCFollows
<1>3. CASE ~arm /\ \E k \in Keys : Type(k)
    BY <1>3, TypeFollows
<1>4. CASE UNCHANGED <<waiting, shift, down>>
    BY <1>0, <1>4 DEF KeysFollow, Follows, LastOf
<1>5. CASE ~arm /\ BootStep
  <2>1. waiting' = waiting /\ shift' = shift /\ down' = down
      BY <1>5, BootEffect DEF BootStep, IInv
  <2>2. QED
      BY <1>4, <2>1
<1>6. QED
    BY <1>1, <1>2, <1>3, <1>4, <1>5
       DEF Next, Load, DiskDone, Interrupt, FalseAlarm, Syscall, Dispatch,
           NoMore, IdeIntr, End, Exit, Work, StartDisk, Return, SleepMask, SleepUnmask,
           SleepYield, SysExit, JoinNew, JoinAsleep, vars, kbd

(* At first nothing is enabled, nothing is handled and no key is held.      *)
LEMMA InitInv == Init => KInv
<1> SUFFICES ASSUME Init PROVE KInv
    OBVIOUS
<1>1. Nested
    BY DEF Init, Nested, Kernel, Registers, Frame
<1>2. Booted
  <2>1. /\ arm \in BOOLEAN /\ iflag = FALSE /\ mode = "boot" /\ stage = 0
        /\ traps = {} /\ handlers = {} /\ enabled = {}
      BY DEF Init
  <2>2. /\ handlers = IF arm THEN {m \in {AUX} : stage >= 6}
                      ELSE {m \in {KBD} : stage >= 4} \cup {m \in {IDE} : stage >= 6}
        /\ enabled = IF arm THEN {m \in {AUX} : stage >= 7}
                     ELSE {m \in {KBD} : stage >= 5} \cup {m \in {IDE} : stage >= 7}
      BY <2>1
  <2>3. /\ stage \in 0 .. 8
        /\ mode = "boot" <=> stage < 8
        /\ ~(stage >= 2) /\ ~iflag
      BY <2>1
  <2>4. QED
      BY <2>1, <2>2, <2>3 DEF Booted
<1>3. Devices
  <2>1. waiting \in Seq(Bytes) /\ Len(waiting) = 0
      BY DEF Init
  <2>2. /\ typed \in 0 .. MaxInputs /\ spurious \in 0 .. MaxInputs
        /\ taken \in Nat /\ lost \in Nat /\ ~(lost > 0) /\ taken + lost = typed - Len(waiting)
    <3>1. typed = 0 /\ spurious = 0 /\ taken = 0 /\ lost = 0
        BY DEF Init
    <3>2. QED
        BY <2>1, <3>1, BoundAssumption
  <2>3. /\ shift = {} /\ down = {} /\ obf = FALSE /\ deaf = FALSE /\ disk = "idle"
        /\ waiting = <<>> /\ frames = <<>>
      BY DEF Init
  <2>4. QED
      BY <2>1, <2>2, <2>3 DEF Devices
<1>4. InService
    BY DEF Init, InService, Serving, Alarm, Pending
<1>5. KeysFollow
  <2>1. Len(waiting) = 0 /\ shift = {} /\ down = {}
      BY DEF Init
  <2>2. QED
      BY <2>1 DEF KeysFollow, Follows, LastOf
<1>6. QED
    BY <1>1, <1>2, <1>3, <1>4, <1>5 DEF KInv, IInv

(* Every step keeps the invariant.                                          *)
LEMMA InvStep == IInv /\ [Next]_vars => IInv'
    BY NestedStep, BootedStep, DevicesStep, ServiceStep DEF IInv

(* The invariant says more than the types and the nesting of Trap.          *)
LEMMA InvTyped == IInv => TypeOK
<1> SUFFICES ASSUME IInv PROVE TypeOK
    OBVIOUS
<1>1. Nested /\ Booted /\ Devices /\ InService
    BY DEF IInv
<1>2. Len(BootSteps) = 8
    BY BootPlan
<1>3. /\ arm \in BOOLEAN /\ iflag \in BOOLEAN /\ obf \in BOOLEAN /\ deaf \in BOOLEAN
      /\ stage \in 0 .. Len(BootSteps) /\ mode \in {"boot", "idle", "user"}
      /\ typed \in 0 .. MaxInputs /\ taken + lost = typed - Len(waiting) /\ (lost > 0 => arm)
      /\ spurious \in 0 .. MaxInputs /\ disk \in {"idle", "busy", "ready"}
    BY <1>1, <1>2 DEF Booted, Devices
<1>4. /\ isr \subseteq {KBD, 2, IDE} /\ irr \subseteq {KBD, IDE} /\ Len(frames) <= 2
    BY <1>1 DEF InService, Nested
<1>5. enabled \subseteq handlers /\ handlers \subseteq {KBD, IDE, AUX}
  <2>1. CASE arm
      BY <1>1, <2>1 DEF Booted
  <2>2. CASE ~arm
      BY <1>1, <2>2 DEF Booted
  <2>3. QED
      BY <2>1, <2>2
<1>6. frames \in Seq(Frame) /\ (frames # <<>> => Len(frames) \in 1 .. 2 /\ Top = frames[Len(frames)])
    BY <1>1, TopFacts DEF Nested
<1>7. \A i \in DOMAIN frames : i = 2 => frames[1].no = T_SYSCALL /\ frames[2].no # T_SYSCALL
  <2>1. ASSUME 2 \in DOMAIN frames PROVE Len(frames) = 2
      BY <1>4, <1>6, <2>1
  <2>2. QED
      BY <1>1, <2>1 DEF Nested
<1>8. \A i \in DOMAIN frames : frames[i].no # T_SYSCALL => ~iflag
  <2> SUFFICES ASSUME NEW i \in DOMAIN frames, frames[i].no # T_SYSCALL PROVE ~iflag
      OBVIOUS
  <2>1. i \in 1 .. Len(frames) /\ frames # <<>>
      BY <1>6
  <2>2. i = Len(frames)
    <3>1. Len(frames) = 2 => frames[1].no = T_SYSCALL
        BY <1>1 DEF Nested
    <3>2. QED
        BY <1>6, <2>1, <3>1
  <2>3. QED
      BY <1>1, <1>6, <2>1, <2>2 DEF Nested
<1>9. (regs.seg = "user") = (mode = "user" /\ frames = <<>>)
    BY <1>1 DEF Nested
<1>10. QED
    BY <1>3, <1>4, <1>5, <1>7, <1>8, <1>9 DEF TypeOK

(* Traps nest at most two deep, an interrupt in a system call or alone and  *)
(* masked; a line is registered before it is enabled; every byte that is    *)
(* sent is read, waits, or has come before the UART of ARM was set up, and  *)
(* none is lost on x86 (trap_init, alltraps, kernel_main, mini_uart_init).  *)
THEOREM TypeCorrect == Spec => []TypeOK
<1>1. Init => IInv
    BY InitInv DEF KInv
<1>2. QED
    BY <1>1, InvStep, InvTyped, PTL DEF Spec

(* pic_end ends what the interrupt began, and the loop of console_intr      *)
(* leaves no byte behind whose edge has been, whatever false alarms come.   *)
THEOREM ControllersReady == Spec => []ControllerReady
<1>1. Init => IInv
    BY InitInv DEF KInv
<1>2. IInv => ControllerReady
    BY QuietFacts DEF ControllerReady, Alarm, Pending
<1>3. QED
    BY <1>1, <1>2, InvStep, PTL DEF Spec

(* A trap's return gives the interrupted code its registers back, on both   *)
(* architectures, however interrupts nest in system calls and system calls  *)
(* sleep (alltraps, trapret, irq_restore_user_regs, trap_syscall).          *)
THEOREM RegistersKept == Spec => RegistersSurvive
<1> DEFINE Kept == \/ Top.no = T_SYSCALL /\ regs' = [Top.was EXCEPT !.r0 = 3]
                   \/ Top.no # T_SYSCALL /\ ~arm /\ regs' = Top.was
                   \/ Top.no # T_SYSCALL /\ arm /\ regs' = [Top.was EXCEPT !.r0 = regs'.r0]
<1> DEFINE Leaves == frames # <<>> /\ Top.step = "exit" /\ Len(frames') < Len(frames)
<1>1. IInv /\ [Next]_vars => [Leaves => Kept]_vars
  <2> SUFFICES ASSUME IInv, Next, Leaves PROVE Kept
      OBVIOUS
  <2>1. Nested /\ arm \in BOOLEAN
      BY DEF IInv, Booted
  <2>2. frames' # frames
      BY DEF Nested
  <2>3. CASE Exit
    <3>1. regs' = Restored
        BY <2>3 DEF Exit
    <3>2. QED
        BY <2>1, <3>1, RestoredFacts
  <2>4. \A s : SetStep(s) => Len(frames') = Len(frames)
      BY <2>1, SetStepFacts DEF Nested
  <2>5. \A no : Enter(no) => Len(frames') = Len(frames) + 1
      BY <2>1, EnterFacts DEF Nested
  <2>6. ~BootStep /\ ~Syscall /\ ~JoinNew /\ ~JoinAsleep
      BY DEF BootStep, Syscall, JoinNew, JoinAsleep
  <2>7. ~Return /\ ~SleepMask /\ ~SleepUnmask /\ ~SleepYield /\ ~SysExit
      BY DEF Return, SleepMask, SleepUnmask, SleepYield, SysExit, InBody
  <2>8. ~Interrupt /\ ~(\E n \in {7, 15} : FalseAlarm(n))
      BY <2>1, <2>5 DEF Interrupt, FalseAlarm, Nested
  <2>9. ~Dispatch /\ ~NoMore /\ ~IdeIntr /\ ~End
      BY <2>1, <2>4 DEF Dispatch, NoMore, IdeIntr, End
  <2>10. ~(\E k \in Keys : Type(k)) /\ ~Load /\ ~DiskDone /\ ~GetC /\ ~Work /\ ~StartDisk
      BY <2>2 DEF Type, Load, DiskDone, GetC, Work, StartDisk, cpu
  <2>11. QED
      BY <2>3, <2>6, <2>7, <2>8, <2>9, <2>10 DEF Next
<1>2. Init => IInv
    BY InitInv DEF KInv
<1>3. QED
    BY <1>1, <1>2, InvStep, PTL DEF Spec, RegistersSurvive

(* kbdgetc's modifiers are those of the keys that are held, for any         *)
(* sequence of keys and however their bytes are spread over interrupts.     *)
THEOREM ModifiersHeld == Spec => []ModifiersFollow
<1>1. KInv /\ [Next]_vars => KInv'
    BY InvStep, KeysStep DEF KInv
<1>2. KInv => ModifiersFollow
  <2> SUFFICES ASSUME KInv, ~arm, waiting = <<>>
               PROVE  shift \ {"CAPSLOCK"} =
                          UNION {shiftcode(Scan[k].code, Scan[k].ext) : k \in down}
      BY DEF ModifiersFollow
  <2>1. shift \subseteq Held /\ down \subseteq DOMAIN Scan /\ "E0ESC" \notin shift
      BY DEF KInv, IInv, Devices, KeysFollow
  <2>2. \A m \in DOMAIN Modifier : Modifier[m] \in shift <=> m \in down
    <3>1. Len(waiting) = 0
        OBVIOUS
    <3>2. QED
        BY <3>1 DEF KInv, KeysFollow, Follows
  <2>3. /\ "SHIFT" \in shift <=> "lshift" \in down
        /\ "CTL" \in shift <=> "rctl" \in down
        /\ "ALT" \in shift <=> "lalt" \in down
      BY <2>2 DEF Modifier
  <2>4. /\ shiftcode(Scan["lshift"].code, Scan["lshift"].ext) = {"SHIFT"}
        /\ shiftcode(Scan["rctl"].code, Scan["rctl"].ext) = {"CTL"}
        /\ shiftcode(Scan["lalt"].code, Scan["lalt"].ext) = {"ALT"}
        /\ shiftcode(Scan["caps"].code, Scan["caps"].ext) = {}
        /\ shiftcode(Scan["a"].code, Scan["a"].ext) = {}
        /\ DOMAIN Scan = {"lshift", "rctl", "lalt", "caps", "a"}
      BY DEF shiftcode, Scan
  <2> DEFINE f(k) == shiftcode(Scan[k].code, Scan[k].ext)
  <2>5. \A k \in down : k \in {"lshift", "rctl", "lalt", "caps", "a"}
      BY <2>1, <2>4
  <2>6. ASSUME NEW x PROVE x \in shift \ {"CAPSLOCK"} <=> \E k \in down : x \in f(k)
    <3>1. (\E k \in down : x \in f(k)) <=> \/ "lshift" \in down /\ x = "SHIFT"
                                           \/ "rctl" \in down /\ x = "CTL"
                                           \/ "lalt" \in down /\ x = "ALT"
        BY <2>4, <2>5
    <3>2. x \in shift \ {"CAPSLOCK"} => x = "SHIFT" \/ x = "CTL" \/ x = "ALT"
        BY <2>1 DEF Held
    <3>3. QED
        BY <2>3, <3>1, <3>2
  <2>7. QED
      BY <2>6
<1>3. QED
    BY <1>1, <1>2, InitInv, PTL DEF Spec

==============================================================================
