--------------------------------- MODULE Tty ---------------------------------
(***************************************************************************)
(* What the console of src/kernel/console.c promises: a line discipline.   *)
(* Characters typed are edited in "edit" and, once committed, handed to    *)
(* readers from "line": each once, in the order typed, unchanged.          *)
(***************************************************************************)
EXTENDS Naturals, Sequences, SequencesExt

CONSTANTS INPUT_BUF, \* capacity of the buffer
          Readers,   \* processes that read the console
          Glyphs,    \* characters without a special meaning
          None       \* no character in hand

VARIABLES line,      \* committed, not yet read
          edit,      \* typed, still editable
          hand       \* the character a reader has taken but not yet delivered

ttyVars == <<line, edit, hand>>

Enders == {"nl", "eof"}
Stored == Glyphs \cup Enders

TtyInit ==
    /\ line = <<>>
    /\ edit = <<>>
    /\ hand = [p \in Readers |-> None]

Room == Len(line) + Len(edit) < INPUT_BUF

(* A character is appended to the edited text; a newline or end of file     *)
(* commits it, and so may a character that leaves at most one place free.   *)
Type(c) ==
    /\ Room
    /\ \/ /\ c \notin Enders
          /\ edit' = Append(edit, c)
          /\ line' = line
       \/ /\ c \in Enders \/ Len(line) + Len(edit) + 2 >= INPUT_BUF
          /\ line' = line \o Append(edit, c)
          /\ edit' = <<>>
    /\ UNCHANGED hand

(* Only text that was not committed can be taken back.                      *)
Erase == edit # <<>> /\ edit' = Front(edit) /\ UNCHANGED <<line, hand>>

Kill == edit' = <<>> /\ UNCHANGED <<line, hand>>

Take(p) ==
    /\ hand[p] = None /\ line # <<>>
    /\ hand' = [hand EXCEPT ![p] = Head(line)]
    /\ line' = Tail(line)
    /\ UNCHANGED edit

Deliver(p) ==
    /\ hand[p] # None
    /\ hand' = [hand EXCEPT ![p] = None]
    /\ UNCHANGED <<line, edit>>

(* An end of file met after other characters is left for the next read.     *)
PutBack(p) ==
    /\ hand[p] = "eof"
    /\ hand' = [hand EXCEPT ![p] = None]
    /\ line' = <<"eof">> \o line
    /\ UNCHANGED edit

TtyNext ==
    \/ \E c \in Stored : Type(c)
    \/ Erase \/ Kill
    \/ \E p \in Readers : Take(p) \/ Deliver(p) \/ PutBack(p)

TtySpec == TtyInit /\ [][TtyNext]_ttyVars
=============================================================================
