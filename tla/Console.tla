------------------------------- MODULE Console -------------------------------
(***************************************************************************)
(* src/kernel/console.c: the ring buffer "input" shared by console_read,   *)
(* run by processes, and console_intr, run by the keyboard interrupt       *)
(* between any two of their steps while interrupts are on.  sleep(),       *)
(* wakeup() and the scheduler are those of Proc, reduced to the readers.   *)
(*                                                                         *)
(* A definition marked "Flaw" is a plausible slip in the definition after  *)
(* it; no action uses it, and a run is known to notice it.                 *)
(***************************************************************************)
EXTENDS Naturals, Sequences

CONSTANTS
    INPUT_BUF,       \* console.c:5
    IdxMod,          \* the indices are unsigned: they count modulo 2^32
    Readers,         \* processes that read the console
    Counts,          \* the cnt arguments of their reads
    Glyphs,          \* characters without a special meaning
    None,            \* no character, no process
    RacyTyping,      \* bound: FALSE if no key fills the buffer in a reader's race
    Orders,          \* in which order the build reads buf and stores r + 1
    SyscallMasksIrq  \* TRUE on ARM, FALSE on x86

ASSUME BufAssumption ==
    /\ INPUT_BUF \in Nat \ {0} /\ IdxMod \in Nat
    /\ IdxMod > INPUT_BUF + 1 /\ IdxMod % INPUT_BUF = 0
ASSUME CountAssumption == Counts \subseteq Nat \ {0}
ASSUME TypingAssumption == RacyTyping \in BOOLEAN
ASSUME OrderAssumption == Orders \subseteq {"store", "load"} /\ Orders # {}
ASSUME NoneAssumption == None \notin Readers /\ None \notin Glyphs \cup {"nl", "eof"}

VARIABLES
    buf, r, w, e,   \* input: data, read, write and edit index
    pstate,         \* state of a reader: RUNNING, RUNNABLE or SLEEPING
    pc,             \* where a reader stands in console_read
    left,           \* cnt
    target,         \* target
    ch,             \* ch
    cpu,            \* the reader that has the CPU, or None
    irqOn           \* the CPU accepts interrupts

input == <<buf, r, w, e>>
local == <<left, target, ch>>
vars == <<input, pstate, pc, local, cpu, irqOn>>

Special == {"nl", "eof"}
Stored == Glyphs \cup Special
Keys == Stored \cup {"cr", "kill", "erase"}
Index == 0 .. IdxMod - 1

Plus(a, k) == (a + k) % IdxMod
Dist(b, a) == (b + IdxMod - a) % IdxMod     \* b - a in unsigned arithmetic
At(i) == buf[i % INPUT_BUF]

TypeOK ==
    /\ buf \in [0 .. INPUT_BUF - 1 -> Stored \cup {None}]
    /\ r \in Index /\ w \in Index /\ e \in Index
    /\ pstate \in [Readers -> {"RUNNING", "RUNNABLE", "SLEEPING"}]
    /\ pc \in [Readers -> {"user", "check", "enter", "doze", "asleep",
                           "take", "load", "bump", "got"}]
    /\ left \in [Readers -> Nat] /\ target \in [Readers -> Nat]
    /\ ch \in [Readers -> Stored \cup {None}]
    /\ cpu \in Readers \cup {None}
    /\ irqOn \in BOOLEAN

Init ==
    /\ buf = [i \in 0 .. INPUT_BUF - 1 |-> None]
    /\ r = 0 /\ w = 0 /\ e = 0
    /\ pstate = [p \in Readers |-> "RUNNABLE"]
    /\ pc = [p \in Readers |-> "user"]
    /\ left = [p \in Readers |-> 0]
    /\ target = [p \in Readers |-> 0]
    /\ ch = [p \in Readers |-> None]
    /\ cpu = None
    /\ irqOn = TRUE

-----------------------------------------------------------------------------
(* console_read                                                             *)

Here(p, where) == cpu = p /\ pc[p] = where
Goto(p, where) == pc' = [pc EXCEPT ![p] = where]

ReturnToUser(p) ==
    /\ pc' = [pc EXCEPT ![p] = "user"]
    /\ ch' = [ch EXCEPT ![p] = None]
    /\ left' = [left EXCEPT ![p] = 0]
    /\ target' = [target EXCEPT ![p] = 0]
    /\ irqOn' = TRUE

(* Flaw: the trap leaves interrupts on.                                     *)
ReadUnmasked(p) ==
    /\ Here(p, "user")
    /\ \E n \in Counts :
        /\ left' = [left EXCEPT ![p] = n]
        /\ target' = [target EXCEPT ![p] = n]
    /\ Goto(p, "check")
    /\ UNCHANGED <<input, pstate, ch, cpu, irqOn>>

Read(p) ==
    /\ Here(p, "user")
    /\ \E n \in Counts :
        /\ left' = [left EXCEPT ![p] = n]
        /\ target' = [target EXCEPT ![p] = n]
    /\ Goto(p, "check")
    /\ irqOn' = (irqOn /\ ~SyscallMasksIrq)
    /\ UNCHANGED <<input, pstate, ch, cpu>>

(* The test of line 23; its outcome is acted upon in a later step.          *)
Check(p) ==
    /\ Here(p, "check")
    /\ Goto(p, IF r = w THEN "enter" ELSE "take")
    /\ UNCHANGED <<input, pstate, local, cpu, irqOn>>

(* sleep(&input.r), until enable_trap().                                    *)
SleepEnter(p) ==
    /\ Here(p, "enter")
    /\ pstate' = [pstate EXCEPT ![p] = "SLEEPING"]
    /\ Goto(p, "doze")
    /\ irqOn' = TRUE
    /\ UNCHANGED <<input, local, cpu>>

SleepYield(p) ==
    /\ Here(p, "doze")
    /\ Goto(p, "asleep")
    /\ cpu' = None
    /\ UNCHANGED <<input, pstate, local, irqOn>>

(* scheduler() joins a runnable reader: it starts, or it tests again.       *)
Join(p) ==
    /\ cpu = None /\ pstate[p] = "RUNNABLE"
    /\ pstate' = [pstate EXCEPT ![p] = "RUNNING"]
    /\ cpu' = p
    /\ Goto(p, IF pc[p] = "asleep" THEN "check" ELSE pc[p])
    /\ UNCHANGED <<input, local, irqOn>>

(* ch = input.buf[input.r++ % INPUT_BUF]: nothing orders the load of the    *)
(* character and the store of r for the interrupt handler.                  *)
Take(p) ==
    /\ Here(p, "take")
    /\ \/ /\ "store" \in Orders
          /\ r' = Plus(r, 1)
          /\ Goto(p, "load")
          /\ UNCHANGED ch
       \/ /\ "load" \in Orders
          /\ ch' = [ch EXCEPT ![p] = At(r)]
          /\ Goto(p, "bump")
          /\ UNCHANGED r
    /\ UNCHANGED <<buf, w, e, pstate, left, target, cpu, irqOn>>

TakeLoad(p) ==
    /\ Here(p, "load")
    /\ ch' = [ch EXCEPT ![p] = At(Dist(r, 1))]
    /\ Goto(p, "got")
    /\ UNCHANGED <<input, pstate, left, target, cpu, irqOn>>

TakeStore(p) ==
    /\ Here(p, "bump")
    /\ r' = Plus(r, 1)
    /\ Goto(p, "got")
    /\ UNCHANGED <<buf, w, e, pstate, local, cpu, irqOn>>

(* Lines 29-35: end of file ends the read, and is put back unless it is the *)
(* first character.                                                         *)
GotEof(p) ==
    /\ Here(p, "got") /\ ch[p] = "eof"
    /\ r' = IF left[p] < target[p] THEN Dist(r, 1) ELSE r
    /\ ReturnToUser(p)
    /\ UNCHANGED <<buf, w, e, pstate, cpu>>

(* Lines 37-42: deliver the character; go on unless it ends the read.       *)
GotLast(p) ==
    /\ Here(p, "got") /\ ch[p] # "eof"
    /\ ch[p] = "nl" \/ left[p] = 1
    /\ ReturnToUser(p)
    /\ UNCHANGED <<input, pstate, cpu>>

(* Flaw: the test of cnt is lost from the loop.                             *)
GotMoreUncounted(p) ==
    /\ Here(p, "got") /\ ch[p] \notin Special
    /\ left' = [left EXCEPT ![p] = @ - 1]
    /\ ch' = [ch EXCEPT ![p] = None]
    /\ Goto(p, "check")
    /\ UNCHANGED <<input, pstate, target, cpu, irqOn>>

GotMore(p) ==
    /\ Here(p, "got") /\ ch[p] \notin Special /\ left[p] > 1
    /\ left' = [left EXCEPT ![p] = @ - 1]
    /\ ch' = [ch EXCEPT ![p] = None]
    /\ Goto(p, "check")
    /\ UNCHANGED <<input, pstate, target, cpu, irqOn>>

-----------------------------------------------------------------------------
(* console_intr, one character at a time                                    *)

(* Flaw: C-U erases committed text, too.                                    *)
KillToRead ==
    /\ irqOn
    /\ \E k \in 0 .. Dist(e, r) :
        /\ \A j \in 1 .. k : At(Dist(e, j)) # "nl"
        /\ k = Dist(e, r) \/ At(Dist(e, k + 1)) = "nl"
        /\ e' = Dist(e, k)
    /\ UNCHANGED <<buf, r, w, pstate, pc, local, cpu, irqOn>>

(* C-U erases back to the last newline or to the committed text.            *)
KillLine ==
    /\ irqOn
    /\ \E k \in 0 .. Dist(e, w) :
        /\ \A j \in 1 .. k : At(Dist(e, j)) # "nl"
        /\ k = Dist(e, w) \/ At(Dist(e, k + 1)) = "nl"
        /\ e' = Dist(e, k)
    /\ UNCHANGED <<buf, r, w, pstate, pc, local, cpu, irqOn>>

(* Flaw: backspace does not stop at the committed text.                     *)
BackspaceAny ==
    /\ irqOn
    /\ e' = Dist(e, 1)
    /\ UNCHANGED <<buf, r, w, pstate, pc, local, cpu, irqOn>>

Backspace ==
    /\ irqOn
    /\ e # w
    /\ e' = Dist(e, 1)
    /\ UNCHANGED <<buf, r, w, pstate, pc, local, cpu, irqOn>>

(* Room for a key.  In two places a reader has given up a slot that it still *)
(* needs: between the store of r and the load of the character, and while   *)
(* it may put an end of file back.  Unless RacyTyping, the last free slot    *)
(* is not typed into then; both races are hazards of lines 27 and 31.       *)
Racing(p) == pc[p] = "load" \/ (pc[p] = "got" /\ ch[p] = "eof" /\ left[p] < target[p])

Room ==
    /\ Dist(e, r) < INPUT_BUF
    /\ Dist(e, r) = INPUT_BUF - 1 /\ (\E p \in Readers : Racing(p)) => RacyTyping

Commits(c, end) == c \in Special \/ end = Plus(r, INPUT_BUF)

(* Flaw: a commit wakes nobody.                                             *)
StoreSilent(key) ==
    /\ irqOn
    /\ key \notin {"kill", "erase"}
    /\ Room
    /\ LET c == IF key = "cr" THEN "nl" ELSE key
           end == Plus(e, 1)
       IN  /\ buf' = [buf EXCEPT ![e % INPUT_BUF] = c]
           /\ e' = end
           /\ w' = IF Commits(c, end) THEN end ELSE w
    /\ UNCHANGED <<r, pstate, pc, local, cpu, irqOn>>

(* Any other key is stored when there is room, with \r turned into \n; a    *)
(* newline, an end of file or the last free place commits and wakes.        *)
Store(key) ==
    /\ irqOn
    /\ key \notin {"kill", "erase"}
    /\ Room
    /\ LET c == IF key = "cr" THEN "nl" ELSE key
           end == Plus(e, 1)
       IN  /\ buf' = [buf EXCEPT ![e % INPUT_BUF] = c]
           /\ e' = end
           /\ IF Commits(c, end)
              THEN /\ w' = end
                   /\ pstate' = [p \in Readers |->
                        IF pstate[p] = "SLEEPING" THEN "RUNNABLE" ELSE pstate[p]]
              ELSE UNCHANGED <<w, pstate>>
    /\ UNCHANGED <<r, pc, local, cpu, irqOn>>

Keyboard == KillLine \/ Backspace \/ \E key \in Keys : Store(key)

-----------------------------------------------------------------------------

ReaderStep(p) ==
    \/ Read(p) \/ Check(p) \/ SleepEnter(p) \/ SleepYield(p) \/ Join(p)
    \/ Take(p) \/ TakeLoad(p) \/ TakeStore(p)
    \/ GotEof(p) \/ GotLast(p) \/ GotMore(p)

Next == (\E p \in Readers : ReaderStep(p)) \/ Keyboard

Spec == Init /\ [][Next]_vars

(* The kernel's code runs on, and a program that reads the console reads it *)
(* again; nobody has to type.                                               *)
FairSpec == Spec /\ WF_vars(\E p \in Readers : ReaderStep(p))

-----------------------------------------------------------------------------
(* Properties.                                                              *)

(* A character that was loaded before r was stored is no longer unread.     *)
Bumping == \E p \in Readers : pc[p] = "bump"

(* The indices keep their order and span at most the buffer, across the     *)
(* wraparound of the unsigned counters and the put-back of an end of file.  *)
IndexOrder ==
    /\ Dist(w, r) <= Dist(e, r)
    /\ Dist(e, r) <= INPUT_BUF

(* The contents of the ring, as the abstract line discipline sees them.     *)
From == IF Bumping THEN Plus(r, 1) ELSE r
Ring(a, b) == [i \in 1 .. Dist(b, a) |-> At(Plus(a, i - 1))]
Hand(p) ==
    CASE pc[p] = "load" -> At(Dist(r, 1))
      [] pc[p] \in {"bump", "got"} -> ch[p]
      [] OTHER -> None

T == INSTANCE Tty WITH line <- Ring(From, w), edit <- Ring(w, e),
                       hand <- [p \in Readers |-> Hand(p)]

(* Readers receive the committed characters once each, in order, unchanged, *)
(* whatever the keyboard does meanwhile.                                    *)
ImplementsTty == T!TtySpec

(* No reader sleeps on while committed input waits and nobody else is there *)
(* to read it (console.c:23-24).                                            *)
NoLostWakeup ==
    cpu = None /\ (\A p \in Readers : pstate[p] # "RUNNABLE") => r = w

(* Committed input is eventually taken.                                     *)
InputTaken == \A i \in Index : (r = i /\ r # w) ~> (r # i)
=============================================================================
