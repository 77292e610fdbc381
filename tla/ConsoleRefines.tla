--------------------------- MODULE ConsoleRefines ---------------------------
(* Console implements the line discipline Tty, for every size of the ring,  *)
(* width of the indices, reader, read and order of a compiled Take, as long *)
(* as no key is typed into a reader's race.                                 *)
EXTENDS ConsoleProofs

(* The text in buffer f from index a up to b, and how it changes.           *)
Text(f, a, b) == [i \in 1 .. Dist(b, a) |-> f[Plus(a, i - 1) % INPUT_BUF]]

(* The ring's text, as the refinement mapping of Console reads it.          *)
LEMMA RingIsText == /\ Ring(From, w) = Text(buf, From, w)
                    /\ Ring(w, e) = Text(buf, w, e)
                    /\ Ring(From, w)' = Text(buf', From', w')
                    /\ Ring(w, e)' = Text(buf', w', e')
    BY DEF Ring, Text, At

Buffers == [0 .. INPUT_BUF - 1 -> Stored \cup {None}]

(* A text is a sequence of characters, as long as the distance.             *)
LEMMA TextType ==
    ASSUME NEW f \in Buffers, NEW a \in Index, NEW b \in Index
    PROVE  /\ Text(f, a, b) \in Seq(Stored \cup {None})
           /\ Len(Text(f, a, b)) = Dist(b, a)
           /\ a = b <=> Text(f, a, b) = <<>>
           /\ \A i \in 1 .. Dist(b, a) : Text(f, a, b)[i] = f[Plus(a, i - 1) % INPUT_BUF]
<1>1. Dist(b, a) \in Nat /\ (Dist(b, a) = 0 <=> a = b)
    BY IndexFacts, Moves, BufAssumption DEF Index
<1>2. ASSUME NEW i \in 1 .. Dist(b, a)
      PROVE  f[Plus(a, i - 1) % INPUT_BUF] \in Stored \cup {None}
  <2>1. i - 1 \in 0 .. Dist(b, a)
      BY <1>1
  <2>2. Plus(a, i - 1) \in Index
      BY <2>1, Rest
  <2>3. QED
      BY <2>2, PlaceFacts DEF Buffers
<1>3. Text(f, a, b) \in Seq(Stored \cup {None}) /\ Len(Text(f, a, b)) = Dist(b, a)
    BY <1>1, <1>2 DEF Text
<1>4. a = b <=> Text(f, a, b) = <<>>
    BY <1>1, <1>3
<1>5. QED
    BY <1>3, <1>4 DEF Text

(* The same places, the same text.                                          *)
LEMMA TextSame ==
    ASSUME NEW f, NEW g, NEW a \in Index, NEW b \in Index,
           \A k \in 0 .. Dist(b, a) - 1 : f[Plus(a, k) % INPUT_BUF] = g[Plus(a, k) % INPUT_BUF]
    PROVE  Text(f, a, b) = Text(g, a, b)
<1>1. Dist(b, a) \in Nat
    BY IndexFacts, BufAssumption DEF Index
<1>2. ASSUME NEW i \in 1 .. Dist(b, a)
      PROVE  f[Plus(a, i - 1) % INPUT_BUF] = g[Plus(a, i - 1) % INPUT_BUF]
    BY <1>1
<1>3. QED
    BY <1>2 DEF Text

(* One character more at the end.                                           *)
LEMMA TextAppend ==
    ASSUME NEW f \in Buffers, NEW a \in Index, NEW b \in Index, Dist(b, a) + 1 < IdxMod
    PROVE  Text(f, a, Plus(b, 1)) = Append(Text(f, a, b), f[b % INPUT_BUF])
<1>1. Dist(b, a) \in Nat /\ Plus(b, 1) \in Index /\ Plus(a, Dist(b, a)) = b
      /\ Dist(Plus(b, 1), a) = Dist(b, a) + 1
    BY IndexFacts, OneIndex, Moves, Walks, BufAssumption DEF Index
<1>2. /\ Text(f, a, b) \in Seq(Stored \cup {None}) /\ Len(Text(f, a, b)) = Dist(b, a)
      /\ Text(f, a, Plus(b, 1)) \in Seq(Stored \cup {None})
      /\ Len(Text(f, a, Plus(b, 1))) = Dist(b, a) + 1
    BY <1>1, TextType
<1>3. ASSUME NEW i \in 1 .. Dist(b, a) + 1
      PROVE  Text(f, a, Plus(b, 1))[i] = Append(Text(f, a, b), f[b % INPUT_BUF])[i]
  <2>1. Text(f, a, Plus(b, 1))[i] = f[Plus(a, i - 1) % INPUT_BUF]
      BY <1>1 DEF Text
  <2>2. CASE i = Dist(b, a) + 1
      BY <1>1, <1>2, <2>1, <2>2
  <2>3. CASE i \in 1 .. Dist(b, a)
    <3>1. Text(f, a, b)[i] = f[Plus(a, i - 1) % INPUT_BUF]
        BY <2>3 DEF Text
    <3>2. QED
        BY <1>1, <1>2, <2>1, <2>3, <3>1
  <2>4. i = Dist(b, a) + 1 \/ i \in 1 .. Dist(b, a)
      BY <1>1
  <2>5. QED
      BY <2>2, <2>3, <2>4
<1>4. QED
    BY <1>2, <1>3

(* One character less at the front.                                         *)
LEMMA TextTail ==
    ASSUME NEW f \in Buffers, NEW a \in Index, NEW b \in Index, a # b
    PROVE  /\ Text(f, a, b) # <<>>
           /\ Head(Text(f, a, b)) = f[a % INPUT_BUF]
           /\ Text(f, Plus(a, 1), b) = Tail(Text(f, a, b))
           /\ Text(f, a, b) = <<f[a % INPUT_BUF]>> \o Text(f, Plus(a, 1), b)
<1> DEFINE s == Text(f, a, b)
<1> DEFINE t == Text(f, Plus(a, 1), b)
<1>1. /\ Dist(b, a) \in Nat /\ Dist(b, a) > 0 /\ Plus(a, 1) \in Index /\ Plus(a, 0) = a
      /\ Dist(b, Plus(a, 1)) = Dist(b, a) - 1
    BY IndexFacts, OneIndex, Moves, Nowhere, BufAssumption DEF Index
<1>2. /\ s \in Seq(Stored \cup {None}) /\ Len(s) = Dist(b, a)
      /\ t \in Seq(Stored \cup {None}) /\ Len(t) = Dist(b, a) - 1
    BY <1>1, TextType
<1>3. \A i \in 1 .. Dist(b, a) - 1 : t[i] = s[i + 1]
  <2> SUFFICES ASSUME NEW i \in 1 .. Dist(b, a) - 1 PROVE t[i] = s[i + 1]
      OBVIOUS
  <2>1. i - 1 \in 0 .. Dist(b, a) - 1 /\ 1 + (i - 1) = i /\ (i + 1) - 1 = i
        /\ i \in 1 .. Dist(b, Plus(a, 1)) /\ i + 1 \in 1 .. Dist(b, a)
      BY <1>1
  <2>2. Plus(Plus(a, 1), i - 1) = Plus(a, i)
      BY <2>1, NextPlaces
  <2>3. t[i] = f[Plus(Plus(a, 1), i - 1) % INPUT_BUF]
      BY <2>1 DEF Text
  <2>4. s[i + 1] = f[Plus(a, (i + 1) - 1) % INPUT_BUF]
      BY <2>1 DEF Text
  <2>5. QED
      BY <2>1, <2>2, <2>3, <2>4
<1>4. s[1] = f[a % INPUT_BUF]
  <2>1. 1 \in 1 .. Dist(b, a) /\ 1 - 1 = 0
      BY <1>1
  <2>2. s[1] = f[Plus(a, 1 - 1) % INPUT_BUF]
      BY <2>1, TextType
  <2>3. QED
      BY <1>1, <2>1, <2>2
<1> HIDE DEF s, t
<1>5. s # <<>> /\ Head(s) = f[a % INPUT_BUF]
    BY <1>1, <1>2, <1>4
<1>6. t = Tail(s)
  <2>1. Tail(s) \in Seq(Stored \cup {None}) /\ Len(Tail(s)) = Dist(b, a) - 1
      BY <1>1, <1>2
  <2>2. \A i \in 1 .. Dist(b, a) - 1 : Tail(s)[i] = s[i + 1]
      BY <1>1, <1>2
  <2>3. QED
      BY <1>2, <1>3, <2>1, <2>2
<1>7. s = <<f[a % INPUT_BUF]>> \o t
    BY <1>1, <1>2, <1>3, <1>4
<1>8. QED
    BY <1>5, <1>6, <1>7 DEF s, t

(* One character less at the end.                                           *)
LEMMA TextFront ==
    ASSUME NEW f \in Buffers, NEW a \in Index, NEW b \in Index, a # b
    PROVE  Text(f, a, Dist(b, 1)) = T!Front(Text(f, a, b))
<1>1. Dist(b, 1) \in Index /\ Plus(Dist(b, 1), 1) = b
    BY IndexFacts, OneIndex, Moves
<1>2. Dist(b, a) \in Nat /\ Dist(b, a) < IdxMod /\ Dist(Dist(b, 1), a) = Dist(b, a) - 1
  <2>1. Dist(b, a) \in Index
      BY IndexFacts
  <2>2. Dist(Dist(b, 1), a) = Dist(b, a) - 1
      BY Moves
  <2>3. QED
      BY <2>1, <2>2, BufAssumption DEF Index
<1>3. Dist(Dist(b, 1), a) + 1 < IdxMod
    BY <1>2
<1>4. Text(f, a, b) = Append(Text(f, a, Dist(b, 1)), f[Dist(b, 1) % INPUT_BUF])
    BY <1>1, <1>3, TextAppend
<1>5. Text(f, a, Dist(b, 1)) \in Seq(Stored \cup {None})
    BY <1>1, TextType
<1>6. f[Dist(b, 1) % INPUT_BUF] \in Stored \cup {None}
    BY <1>1, PlaceFacts DEF Buffers
<1> HIDE DEF Text
<1>7. ASSUME NEW s \in Seq(Stored \cup {None}), NEW c \in Stored \cup {None}
      PROVE  SubSeq(Append(s, c), 1, Len(Append(s, c)) - 1) = s
    OBVIOUS
<1>8. QED
    BY <1>4, <1>5, <1>6, <1>7 DEF T!Front

(* Two texts that meet.                                                     *)
LEMMA TextConcat ==
    ASSUME NEW f \in Buffers, NEW a \in Index, NEW b \in Index, NEW c \in Index,
           Dist(b, a) <= Dist(c, a)
    PROVE  Text(f, a, b) \o Text(f, b, c) = Text(f, a, c)
<1>1. /\ Dist(b, a) \in Nat /\ Dist(c, b) \in Nat /\ Dist(c, a) \in Nat
      /\ Dist(c, a) = Dist(b, a) + Dist(c, b)
  <2>1. Dist(c, b) = Dist(c, a) - Dist(b, a)
      BY Between
  <2>2. Dist(b, a) \in Nat /\ Dist(c, b) \in Nat /\ Dist(c, a) \in Nat
      BY IndexFacts, BufAssumption DEF Index
  <2>3. QED
      BY <2>1, <2>2
<1> DEFINE s == Text(f, a, b)
<1> DEFINE t == Text(f, b, c)
<1> DEFINE u == Text(f, a, c)
<1>2. /\ s \in Seq(Stored \cup {None}) /\ Len(s) = Dist(b, a)
      /\ t \in Seq(Stored \cup {None}) /\ Len(t) = Dist(c, b)
      /\ u \in Seq(Stored \cup {None}) /\ Len(u) = Dist(c, a)
    BY TextType
<1>3. \A i \in 1 .. Dist(b, a) : u[i] = s[i]
    BY <1>1 DEF Text
<1>4. ASSUME NEW i \in 1 .. Dist(c, b) PROVE u[Dist(b, a) + i] = t[i]
  <2>1. i - 1 \in 0 .. Dist(c, b) /\ Dist(b, a) + i \in 1 .. Dist(c, a)
        /\ (Dist(b, a) + i) - 1 = Dist(b, a) + (i - 1)
      BY <1>1
  <2>2. Plus(b, i - 1) = Plus(a, Dist(b, a) + (i - 1))
      BY <2>1, Between
  <2>3. t[i] = f[Plus(b, i - 1) % INPUT_BUF]
      BY <2>1 DEF Text
  <2>4. u[Dist(b, a) + i] = f[Plus(a, (Dist(b, a) + i) - 1) % INPUT_BUF]
      BY <2>1 DEF Text
  <2>5. QED
      BY <2>1, <2>2, <2>3, <2>4
<1> HIDE DEF s, t, u
<1>5. s \o t \in Seq(Stored \cup {None}) /\ Len(s \o t) = Dist(c, a)
    BY <1>1, <1>2
<1>6. ASSUME NEW i \in 1 .. Dist(c, a) PROVE (s \o t)[i] = u[i]
  <2>1. CASE i <= Dist(b, a)
      BY <1>1, <1>2, <1>3, <2>1
  <2>2. CASE i > Dist(b, a)
    <3>1. i - Dist(b, a) \in 1 .. Dist(c, b) /\ Dist(b, a) + (i - Dist(b, a)) = i
        BY <1>1, <2>2
    <3>2. u[i] = t[i - Dist(b, a)]
        BY <1>4, <3>1
    <3>3. (s \o t)[i] = t[i - Dist(b, a)]
        BY <1>1, <1>2, <2>2, <3>1
    <3>4. QED
        BY <3>2, <3>3
  <2>3. i <= Dist(b, a) \/ i > Dist(b, a)
      BY <1>1
  <2>4. QED
      BY <2>1, <2>2, <2>3
<1>7. QED
    BY <1>2, <1>5, <1>6 DEF s, t, u

(* The first character of the line, while one is taken, is before From.     *)
LEMMA FromFacts ==
    ASSUME OInv
    PROVE  /\ From \in Index
           /\ Dist(w, From) <= Dist(e, From)
           /\ Dist(e, From) \in Dist(e, r) - 1 .. Dist(e, r)
           /\ Dist(e, From) = Dist(w, From) + Dist(e, w)
           /\ Dist(w, From) \in Nat /\ Dist(e, w) \in Nat /\ Dist(e, r) \in Nat
<1>1. /\ r \in Index /\ w \in Index /\ e \in Index /\ Plus(r, 1) \in Index
      /\ Dist(w, r) <= Dist(e, r)
      /\ Dist(w, r) \in Nat /\ Dist(e, w) \in Nat /\ Dist(e, r) \in Nat
    BY Distances, Typed DEF OInv, TypeOK, Spanned
<1>2. Bumping => r # w /\ r # e
    BY Unread DEF Bumping, OInv, Spanned
<1>3. /\ From \in Index /\ Dist(w, From) \in Nat
      /\ Dist(w, From) <= Dist(e, From)
      /\ Dist(e, From) \in Dist(e, r) - 1 .. Dist(e, r)
  <2>1. CASE Bumping
    <3>1. From = Plus(r, 1)
        BY <2>1 DEF From
    <3>2. Dist(w, From) = Dist(w, r) - 1 /\ Dist(e, From) = Dist(e, r) - 1
        BY <1>1, <1>2, <2>1, <3>1, Moves
    <3>3. Dist(w, r) # 0
        BY <1>1, <1>2, <2>1, Moves
    <3>4. QED
        BY <1>1, <3>1, <3>2, <3>3
  <2>2. CASE ~Bumping
      BY <1>1, <2>2 DEF From
  <2>3. QED
      BY <2>1, <2>2
<1>4. Dist(e, w) = Dist(e, From) - Dist(w, From)
    BY <1>1, <1>3, Between
<1>5. QED
    BY <1>1, <1>3, <1>4

(* A step that moves nothing and takes nothing.                             *)
LEMMA Quiet ==
    ASSUME buf' = buf, w' = w, e' = e, From' = From, \A q \in Readers : Hand(q)' = Hand(q)
    PROVE  UNCHANGED T!ttyVars
<1>1. [q \in Readers |-> Hand(q)]' = [q \in Readers |-> Hand(q)]
    OBVIOUS
<1>2. Ring(From, w)' = Ring(From, w) /\ Ring(w, e)' = Ring(w, e)
    BY RingIsText
<1>3. QED
    BY <1>1, <1>2 DEF T!ttyVars

(* While p has the CPU nobody else holds a character, and nobody else is    *)
(* between its two steps of a Take.                                         *)
LEMMA OthersIdle ==
    ASSUME OInv, NEW p \in Readers, cpu = p,
           NEW where, pc' = [pc EXCEPT ![p] = where]
    PROVE  /\ \A q \in Readers : q # p => Hand(q) = None /\ Hand(q)' = None
           /\ Bumping <=> pc[p] = "bump"
           /\ Bumping' <=> where = "bump"
<1>1. \A q \in Readers : q # p => pc[q] \in {"user", "asleep"}
    BY Alone
<1>2. \A q \in Readers : q # p => pc'[q] \in {"user", "asleep"}
    BY <1>1 DEF OInv, TypeOK
<1>3. pc'[p] = where
    BY DEF OInv, TypeOK
<1>4. QED
    BY <1>1, <1>2, <1>3 DEF Hand, Bumping

(* Both orders of a compiled Take take the first character of the line.     *)
LEMMA TakeTakes ==
    ASSUME CInv, NEW p \in Readers, Take(p)
    PROVE  T!Take(p)
<1>1. /\ cpu = p /\ pc[p] = "take" /\ r # w /\ OInv
      /\ r \in Index /\ w \in Index /\ e \in Index /\ buf \in Buffers
      /\ buf' = buf /\ w' = w /\ e' = e
    BY DEF Take, Here, CInv, OInv, TypeOK, Spanned, Buffers
<1>2. From = r /\ From' = Plus(r, 1) /\ Hand(p) = None /\ Hand(p)' = At(r)
      /\ \A q \in Readers : q # p => Hand(q)' = Hand(q)
  <2>1. CASE r' = r /\ pc' = [pc EXCEPT ![p] = "bump"] /\ ch' = [ch EXCEPT ![p] = At(r)]
    <3>1. ~Bumping /\ Bumping' /\ \A q \in Readers : q # p => Hand(q)' = Hand(q)
        BY <1>1, <2>1, OthersIdle
    <3>2. Hand(p) = None /\ Hand(p)' = At(r)
        BY <1>1, <2>1 DEF Hand, OInv, TypeOK
    <3>3. QED
        BY <2>1, <3>1, <3>2 DEF From
  <2>2. CASE r' = Plus(r, 1) /\ pc' = [pc EXCEPT ![p] = "load"]
    <3>1. /\ \A q \in Readers : q # p => Hand(q) = None /\ Hand(q)' = None
          /\ Bumping <=> pc[p] = "bump"
          /\ Bumping' <=> "load" = "bump"
        BY <1>1, <2>2, OthersIdle
    <3>2. Hand(p) = None /\ Hand(p)' = At(r)
      <4>1. Dist(r', 1) = r
          BY <1>1, <2>2, Moves
      <4>2. QED
          BY <1>1, <2>2, <4>1 DEF Hand, At, OInv, TypeOK
    <3>3. From = r /\ From' = Plus(r, 1)
        BY <1>1, <2>2, <3>1 DEF From
    <3>4. QED
        BY <3>1, <3>2, <3>3
  <2>3. QED
      BY <2>1, <2>2 DEF Take, Goto
<1>3. /\ Ring(From, w) # <<>> /\ Head(Ring(From, w)) = At(r)
      /\ Ring(From, w)' = Tail(Ring(From, w))
      /\ Ring(w, e)' = Ring(w, e)
    BY <1>1, <1>2, RingIsText, TextTail DEF At
<1>4. [q \in Readers |-> Hand(q)]' = [[q \in Readers |-> Hand(q)] EXCEPT ![p] = At(r)]
    BY <1>2
<1>5. QED
    BY <1>2, <1>3, <1>4 DEF T!Take

(* The character in hand is delivered, and the line stays.                  *)
LEMMA GotDelivers ==
    ASSUME CInv, NEW p \in Readers, cpu = p, pc[p] = "got",
           buf' = buf, r' = r, w' = w, e' = e,
           NEW where \in {"user", "check"}, pc' = [pc EXCEPT ![p] = where]
    PROVE  T!Deliver(p)
<1>1. OInv /\ Hand(p) # None
    BY NoneAssumption DEF CInv, Contents, Hand, Stored, Special
<1>2. /\ \A q \in Readers : q # p => Hand(q)' = Hand(q)
      /\ From' = From
  <2>1. ~Bumping /\ ~Bumping' /\ \A q \in Readers : q # p => Hand(q)' = Hand(q)
      BY <1>1, OthersIdle
  <2>2. QED
      BY <2>1 DEF From
<1>3. Hand(p)' = None
    BY <1>1 DEF Hand, OInv, TypeOK
<1>4. Ring(From, w)' = Ring(From, w) /\ Ring(w, e)' = Ring(w, e)
    BY <1>2, RingIsText
<1>5. [q \in Readers |-> Hand(q)]' = [[q \in Readers |-> Hand(q)] EXCEPT ![p] = None]
    BY <1>2, <1>3
<1>6. QED
    BY <1>1, <1>4, <1>5 DEF T!Deliver

(* An end of file that is put back is the next character again.             *)
LEMMA EofReturns ==
    ASSUME CInv, NEW p \in Readers, GotEof(p), left[p] < target[p]
    PROVE  T!PutBack(p)
<1>1. /\ cpu = p /\ pc[p] = "got" /\ ch[p] = "eof" /\ r' = Dist(r, 1)
      /\ buf' = buf /\ w' = w /\ e' = e /\ pc' = [pc EXCEPT ![p] = "user"]
      /\ Racing(p) /\ At(Dist(r, 1)) = "eof" /\ OInv
    BY DEF GotEof, Here, ReturnToUser, CInv, Contents, Racing
<1>2. /\ r \in Index /\ w \in Index /\ e \in Index /\ buf \in Buffers /\ Dist(r, 1) \in Index
    BY <1>1, Typed DEF OInv, TypeOK, Buffers
<1>3. From = r /\ From' = Dist(r, 1) /\ \A q \in Readers : q # p => Hand(q)' = Hand(q)
  <2>1. /\ \A q \in Readers : q # p => Hand(q) = None /\ Hand(q)' = None
        /\ Bumping <=> pc[p] = "bump"
        /\ Bumping' <=> "user" = "bump"
      BY <1>1, OthersIdle
  <2>2. QED
      BY <1>1, <2>1 DEF From
<1>4. Hand(p) = "eof" /\ Hand(p)' = None
    BY <1>1 DEF Hand, OInv, TypeOK
<1>5. Dist(r, 1) # w /\ Plus(Dist(r, 1), 1) = r
  <2>1. /\ Dist(w, r) \in Nat /\ Dist(e, r) \in Nat /\ Cap \in Nat /\ Cap < IdxMod
        /\ Dist(w, r) <= Dist(e, r) /\ Dist(e, r) < Cap
      BY <1>1, Distances DEF OInv, Spanned
  <2>2. Dist(w, r) + 1 < IdxMod
      BY <2>1, BufAssumption
  <2>3. Dist(w, Dist(r, 1)) = Dist(w, r) + 1
      BY <1>2, <2>2, Moves
  <2>4. Dist(w, Dist(r, 1)) # 0
      BY <2>1, <2>3
  <2>5. QED
      BY <1>2, <2>4, Moves
<1>6. /\ Ring(From, w)' = <<"eof">> \o Ring(From, w)
      /\ Ring(w, e)' = Ring(w, e)
    BY <1>1, <1>2, <1>3, <1>5, RingIsText, TextTail DEF At
<1>7. [q \in Readers |-> Hand(q)]' = [[q \in Readers |-> Hand(q)] EXCEPT ![p] = None]
    BY <1>3, <1>4
<1>8. QED
    BY <1>4, <1>6, <1>7 DEF T!PutBack

(* Backspace takes back the last character that was not committed.          *)
LEMMA BackspaceErases ==
    ASSUME CInv, Backspace
    PROVE  T!Erase
<1>1. /\ e # w /\ e' = Dist(e, 1) /\ buf' = buf /\ r' = r /\ w' = w /\ pc' = pc /\ ch' = ch
      /\ w \in Index /\ e \in Index /\ buf \in Buffers
    BY DEF Backspace, local, CInv, OInv, TypeOK, Buffers
<1>2. From' = From /\ \A q \in Readers : Hand(q)' = Hand(q)
    BY <1>1 DEF From, Bumping, Hand, At
<1>3. Ring(w, e) # <<>> /\ Ring(w, e)' = T!Front(Ring(w, e)) /\ Ring(From, w)' = Ring(From, w)
    BY <1>1, <1>2, RingIsText, TextFront, TextTail
<1>4. [q \in Readers |-> Hand(q)]' = [q \in Readers |-> Hand(q)]
    BY <1>2
<1>5. QED
    BY <1>3, <1>4 DEF T!Erase

(* The edited text holds no newline, so that C-U erases all of it.          *)
LEMMA KillErasesAll ==
    ASSUME CInv, KillLine
    PROVE  T!Kill
<1>1. /\ buf' = buf /\ r' = r /\ w' = w /\ pc' = pc /\ ch' = ch
      /\ w \in Index /\ e \in Index /\ buf \in Buffers /\ Dist(e, w) \in Nat
    BY Distances DEF KillLine, local, CInv, OInv, TypeOK, Buffers
<1>2. PICK k \in 0 .. Dist(e, w) : /\ k = Dist(e, w) \/ At(Dist(e, k + 1)) = "nl"
                                   /\ e' = Dist(e, k)
    BY DEF KillLine
<1>3. k = Dist(e, w)
  <2> SUFFICES ASSUME k < Dist(e, w), At(Dist(e, k + 1)) = "nl" PROVE FALSE
      BY <1>1, <1>2
  <2>1. k + 1 \in 0 .. Dist(e, w) /\ Dist(e, w) - (k + 1) \in 0 .. Dist(e, w) - 1
      BY <1>1
  <2>2. Dist(e, k + 1) = Plus(w, Dist(e, w) - (k + 1))
      BY <1>1, <2>1, Walks
  <2>3. QED
      BY <2>1, <2>2 DEF CInv, Contents, Special
<1>4. e' = w
  <2>1. Dist(e', w) = Dist(e, w) - k /\ e' \in Index
      BY <1>1, <1>2, Walks, IndexFacts
  <2>2. QED
      BY <1>1, <1>3, <2>1, Moves
<1>5. From' = From /\ \A q \in Readers : Hand(q)' = Hand(q)
    BY <1>1 DEF From, Bumping, Hand, At
<1>6. Ring(w, e)' = <<>> /\ Ring(From, w)' = Ring(From, w)
    BY <1>1, <1>4, <1>5, RingIsText, TextType
<1>7. [q \in Readers |-> Hand(q)]' = [q \in Readers |-> Hand(q)]
    BY <1>5
<1>8. QED
    BY <1>6, <1>7 DEF T!Kill

(* A key is appended to the edited text, which it commits or does not; what *)
(* was there before, and what a reader holds, stays.                        *)
LEMMA StoreTypes ==
    ASSUME CInv, RacyTyping = FALSE, NEW key \in Keys, Store(key)
    PROVE  \E c \in T!Stored : T!Type(c)
<1>1. PICK c \in Stored :
          /\ buf' = [buf EXCEPT ![e % INPUT_BUF] = c]
          /\ e' = Plus(e, 1) /\ r' = r
          /\ pc' = pc /\ ch' = ch
          /\ \/ Commits(c, e') /\ w' = e'
             \/ ~Commits(c, e') /\ w' = w
    BY StoreEffect DEF CInv
<1>2. /\ OInv /\ TypeOK
      /\ r \in Index /\ w \in Index /\ e \in Index /\ buf \in Buffers
      /\ e' \in Index /\ buf' \in Buffers /\ e % INPUT_BUF \in 0 .. INPUT_BUF - 1
  <2>1. /\ OInv /\ TypeOK
        /\ r \in Index /\ w \in Index /\ e \in Index /\ buf \in Buffers
      BY DEF CInv, OInv, TypeOK, Buffers
  <2>2. e' \in Index /\ e % INPUT_BUF \in 0 .. INPUT_BUF - 1
      BY <1>1, <2>1, Typed
  <2>3. buf' \in Buffers
      BY <1>1, <2>1, <2>2 DEF Buffers
  <2>4. QED
      BY <2>1, <2>2, <2>3
<1>3. /\ From \in Index
      /\ Dist(w, From) <= Dist(e, From)
      /\ Dist(e, From) \in Dist(e, r) - 1 .. Dist(e, r)
      /\ Dist(e, From) = Dist(w, From) + Dist(e, w)
      /\ Dist(w, From) \in Nat /\ Dist(e, w) \in Nat /\ Dist(e, r) \in Nat
      /\ Dist(e, r) < INPUT_BUF
  <2>1. Dist(e, r) < INPUT_BUF
      BY DEF Store, Room
  <2>2. QED
      BY <1>2, <2>1, FromFacts
<1>4. Dist(e, w) + 1 < IdxMod /\ Dist(e, From) + 1 < IdxMod /\ Dist(e, From) < INPUT_BUF
    BY <1>3, BufAssumption
<1>5. From' = From
    BY <1>1 DEF From, Bumping
<1>6. ASSUME NEW i \in Index, NEW k \in 0 .. Dist(e, i) - 1, Dist(e, i) < INPUT_BUF
      PROVE  buf'[Plus(i, k) % INPUT_BUF] = buf[Plus(i, k) % INPUT_BUF]
  <2>1. Dist(e, i) \in Nat /\ k \in 0 .. Dist(e, i)
    <3>1. Dist(e, i) \in Index
        BY <1>2, IndexFacts
    <3>2. QED
        BY <3>1, BufAssumption DEF Index
  <2>2. Plus(i, k) \in Index /\ Dist(e, Plus(i, k)) = Dist(e, i) - k
      BY <1>2, <2>1, Rest
  <2>3. Dist(e, Plus(i, k)) \in 1 .. INPUT_BUF - 1
      BY <1>6, <2>1, <2>2, BufAssumption
  <2>4. QED
      BY <1>2, <2>2, <2>3, StoreKeeps
<1>7. Text(buf', From, w) = Text(buf, From, w)
  <2>1. \A k \in 0 .. Dist(w, From) - 1 : k \in 0 .. Dist(e, From) - 1
      BY <1>3
  <2>2. \A k \in 0 .. Dist(w, From) - 1 :
            buf'[Plus(From, k) % INPUT_BUF] = buf[Plus(From, k) % INPUT_BUF]
      BY <1>3, <1>4, <1>6, <2>1
  <2>3. QED
      BY <1>2, <1>3, <2>2, TextSame
<1>8. Text(buf', w, e) = Text(buf, w, e)
  <2>1. Dist(e, w) < INPUT_BUF
      BY <1>3, <1>4, BufAssumption
  <2>2. \A k \in 0 .. Dist(e, w) - 1 :
            buf'[Plus(w, k) % INPUT_BUF] = buf[Plus(w, k) % INPUT_BUF]
      BY <1>2, <1>6, <2>1
  <2>3. QED
      BY <1>2, <2>2, TextSame
<1>9. buf'[e % INPUT_BUF] = c
    BY <1>1, <1>2 DEF TypeOK
<1>10. \A q \in Readers : Hand(q)' = Hand(q)
  <2>1. ASSUME NEW q \in Readers, pc[q] = "load"
        PROVE  buf'[Dist(r, 1) % INPUT_BUF] = buf[Dist(r, 1) % INPUT_BUF]
    <3>1. Dist(e, r) < INPUT_BUF - 1
        BY <1>3, <2>1, BufAssumption DEF Store, Room, Racing
    <3>2. Dist(e, r) + 1 < IdxMod
        BY <1>3, BufAssumption
    <3>3. Dist(e, Dist(r, 1)) = Dist(e, r) + 1 /\ Dist(r, 1) \in Index
        BY <1>2, <3>2, Moves, Typed
    <3>4. Dist(e, Dist(r, 1)) \in 1 .. INPUT_BUF - 1
        BY <1>3, <3>1, <3>3, BufAssumption
    <3>5. QED
        BY <1>2, <3>3, <3>4, StoreKeeps
  <2>2. QED
      BY <1>1, <2>1 DEF Hand, At
<1>11. [q \in Readers |-> Hand(q)]' = [q \in Readers |-> Hand(q)]
    BY <1>10
<1>12. T!Room
  <2>1. Len(Ring(From, w)) = Dist(w, From) /\ Len(Ring(w, e)) = Dist(e, w)
      BY <1>2, <1>3, RingIsText, TextType
  <2>2. QED
      BY <1>3, <1>4, <2>1 DEF T!Room
<1>13. Text(buf', w, e') = Append(Text(buf, w, e), c)
  <2>1. Text(buf', w, Plus(e, 1)) = Append(Text(buf', w, e), buf'[e % INPUT_BUF])
      BY <1>2, <1>4, TextAppend
  <2>2. QED
      BY <1>1, <1>8, <1>9, <2>1
<1>14. CASE ~Commits(c, e') /\ w' = w
  <2>1. Ring(w, e)' = Append(Ring(w, e), c) /\ Ring(From, w)' = Ring(From, w)
      BY <1>5, <1>7, <1>13, <1>14, RingIsText
  <2>2. c \notin T!Enders /\ c \in T!Stored
      BY <1>14 DEF Commits, T!Enders, T!Stored, Stored, Special
  <2>3. T!Type(c)
      BY <1>11, <1>12, <2>1, <2>2 DEF T!Type
  <2>4. QED
      BY <2>2, <2>3
<1>15. CASE Commits(c, e') /\ w' = e'
  <2>1. Ring(w, e)' = <<>>
      BY <1>2, <1>15, RingIsText, TextType
  <2>2. Ring(From, w)' = Ring(From, w) \o Append(Ring(w, e), c)
    <3>1. Text(buf', From, e') = Append(Text(buf', From, e), c)
      <4>1. Text(buf', From, Plus(e, 1)) = Append(Text(buf', From, e), buf'[e % INPUT_BUF])
          BY <1>2, <1>3, <1>4, TextAppend
      <4>2. QED
          BY <1>1, <1>9, <4>1
    <3>2. Text(buf', From, e) = Text(buf, From, w) \o Text(buf, w, e)
      <4>1. Text(buf', From, w) \o Text(buf', w, e) = Text(buf', From, e)
          BY <1>2, <1>3, TextConcat
      <4>2. QED
          BY <1>7, <1>8, <4>1
    <3>3. /\ Text(buf, From, w) \in Seq(Stored \cup {None})
          /\ Text(buf, w, e) \in Seq(Stored \cup {None})
        BY <1>2, <1>3, TextType
    <3> HIDE DEF Text
    <3>4. \A s, t \in Seq(Stored \cup {None}) : \A x \in Stored :
              Append(s \o t, x) = s \o Append(t, x)
        OBVIOUS
    <3>5. QED
        BY <1>1, <1>5, <1>15, <3>1, <3>2, <3>3, <3>4, RingIsText
  <2>3. c \in T!Enders \/ Len(Ring(From, w)) + Len(Ring(w, e)) + 2 >= INPUT_BUF
    <3>1. CASE c \in Special
        BY <3>1 DEF Special, T!Enders
    <3>2. CASE e' = Plus(r, INPUT_BUF)
      <4>1. Dist(e', r) = INPUT_BUF
        <5>1. INPUT_BUF \in Index
            BY BufAssumption DEF Index
        <5>2. /\ Plus(r, INPUT_BUF) \in Index
              /\ Plus(r, INPUT_BUF) = IF r + INPUT_BUF < IdxMod THEN r + INPUT_BUF
                                      ELSE r + INPUT_BUF - IdxMod
            BY <1>2, <5>1, IndexFacts
        <5>3. Dist(e', r) = IF r <= e' THEN e' - r ELSE e' - r + IdxMod
            BY <1>2, IndexFacts
        <5>4. QED
            BY <1>2, <3>2, <5>1, <5>2, <5>3, BufAssumption DEF Index
      <4>2. Dist(e', r) = Dist(e, r) + 1
          BY <1>1, <1>2, StoreSpan
      <4>3. Len(Ring(From, w)) = Dist(w, From) /\ Len(Ring(w, e)) = Dist(e, w)
          BY <1>2, <1>3, RingIsText, TextType
      <4>4. QED
          BY <1>3, <4>1, <4>2, <4>3, BufAssumption
    <3>3. QED
        BY <1>15, <3>1, <3>2 DEF Commits
  <2>4. c \in T!Stored
      BY DEF T!Enders, T!Stored, Stored, Special
  <2>5. T!Type(c)
      BY <1>11, <1>12, <2>1, <2>2, <2>3 DEF T!Type
  <2>6. QED
      BY <2>4, <2>5
<1>16. QED
    BY <1>1, <1>14, <1>15

(* Every step of the console is a step of the line discipline, or none.     *)
LEMMA StepRefines ==
    CInv /\ RacyTyping = FALSE /\ [Next]_vars => [T!TtyNext]_(T!ttyVars)
<1> SUFFICES ASSUME CInv, RacyTyping = FALSE, [Next]_vars
             PROVE  T!TtyNext \/ UNCHANGED T!ttyVars
    OBVIOUS
<1> USE DEF Here, Goto, input, local
<1>0. OInv /\ TypeOK /\ pc \in [Readers -> {"user", "check", "enter", "doze", "asleep",
                           "take", "load", "bump", "got"}]
    BY DEF CInv, OInv, TypeOK
<1>1. ASSUME NEW p \in Readers, Read(p) PROVE UNCHANGED T!ttyVars
  <2>1. From' = From /\ \A q \in Readers : Hand(q)' = Hand(q)
      BY <1>0, <1>1 DEF Read, From, Bumping, Hand, At
  <2>2. QED
      BY <1>1, <2>1, Quiet DEF Read
<1>2. ASSUME NEW p \in Readers, Check(p) PROVE UNCHANGED T!ttyVars
  <2>1. From' = From /\ \A q \in Readers : Hand(q)' = Hand(q)
      BY <1>0, <1>2 DEF Check, From, Bumping, Hand, At
  <2>2. QED
      BY <1>2, <2>1, Quiet DEF Check
<1>3. ASSUME NEW p \in Readers, SleepEnter(p) PROVE UNCHANGED T!ttyVars
  <2>1. From' = From /\ \A q \in Readers : Hand(q)' = Hand(q)
      BY <1>0, <1>3 DEF SleepEnter, From, Bumping, Hand, At
  <2>2. QED
      BY <1>3, <2>1, Quiet DEF SleepEnter
<1>4. ASSUME NEW p \in Readers, SleepYield(p) PROVE UNCHANGED T!ttyVars
  <2>1. From' = From /\ \A q \in Readers : Hand(q)' = Hand(q)
      BY <1>0, <1>4 DEF SleepYield, From, Bumping, Hand, At
  <2>2. QED
      BY <1>4, <2>1, Quiet DEF SleepYield
<1>5. ASSUME NEW p \in Readers, Join(p) PROVE UNCHANGED T!ttyVars
  <2>1. From' = From /\ \A q \in Readers : Hand(q)' = Hand(q)
      BY <1>0, <1>5 DEF Join, From, Bumping, Hand, At
  <2>2. QED
      BY <1>5, <2>1, Quiet DEF Join
<1>6. ASSUME NEW p \in Readers, Take(p) PROVE T!TtyNext
    BY <1>6, TakeTakes DEF T!TtyNext
<1>7. ASSUME NEW p \in Readers, TakeLoad(p) PROVE UNCHANGED T!ttyVars
  <2>1. /\ pc[p] = "load" /\ pc' = [pc EXCEPT ![p] = "got"] /\ ch' = [ch EXCEPT ![p] = At(Dist(r, 1))]
        /\ buf' = buf /\ r' = r /\ w' = w /\ e' = e
      BY <1>7 DEF TakeLoad
  <2>2. From' = From
      BY <1>0, <2>1 DEF From, Bumping
  <2>3. \A q \in Readers : Hand(q)' = Hand(q)
      BY <1>0, <2>1 DEF Hand, At, TypeOK
  <2>4. QED
      BY <2>1, <2>2, <2>3, Quiet
<1>8. ASSUME NEW p \in Readers, TakeStore(p) PROVE UNCHANGED T!ttyVars
  <2>1. /\ cpu = p /\ pc[p] = "bump" /\ pc' = [pc EXCEPT ![p] = "got"] /\ ch' = ch
        /\ buf' = buf /\ r' = Plus(r, 1) /\ w' = w /\ e' = e
      BY <1>8 DEF TakeStore
  <2>2. /\ \A q \in Readers : q # p => Hand(q) = None /\ Hand(q)' = None
        /\ Bumping <=> pc[p] = "bump"
        /\ Bumping' <=> "got" = "bump"
      BY <1>0, <2>1, OthersIdle
  <2>3. From' = From
      BY <2>1, <2>2 DEF From
  <2>4. Hand(p)' = Hand(p)
      BY <1>0, <2>1 DEF Hand
  <2>5. QED
      BY <2>1, <2>2, <2>3, <2>4, Quiet
<1>9. ASSUME NEW p \in Readers, GotEof(p) PROVE T!TtyNext
  <2>1. CASE left[p] < target[p]
      BY <1>9, <2>1, EofReturns DEF T!TtyNext
  <2>2. CASE ~(left[p] < target[p])
    <3>1. /\ cpu = p /\ pc[p] = "got" /\ pc' = [pc EXCEPT ![p] = "user"]
          /\ buf' = buf /\ r' = r /\ w' = w /\ e' = e
        BY <1>9, <2>2 DEF GotEof, ReturnToUser
    <3>2. T!Deliver(p)
        BY <3>1, GotDelivers
    <3>3. QED
        BY <3>2 DEF T!TtyNext
  <2>3. QED
      BY <2>1, <2>2
<1>10. ASSUME NEW p \in Readers, GotLast(p) PROVE T!TtyNext
  <2>1. /\ cpu = p /\ pc[p] = "got" /\ pc' = [pc EXCEPT ![p] = "user"]
        /\ buf' = buf /\ r' = r /\ w' = w /\ e' = e
      BY <1>10 DEF GotLast, ReturnToUser
  <2>2. T!Deliver(p)
      BY <2>1, GotDelivers
  <2>3. QED
      BY <2>2 DEF T!TtyNext
<1>11. ASSUME NEW p \in Readers, GotMore(p) PROVE T!TtyNext
  <2>1. /\ cpu = p /\ pc[p] = "got" /\ pc' = [pc EXCEPT ![p] = "check"]
        /\ buf' = buf /\ r' = r /\ w' = w /\ e' = e
      BY <1>11 DEF GotMore
  <2>2. T!Deliver(p)
      BY <2>1, GotDelivers
  <2>3. QED
      BY <2>2 DEF T!TtyNext
<1>12. CASE KillLine
    BY <1>12, KillErasesAll DEF T!TtyNext
<1>13. CASE Backspace
    BY <1>13, BackspaceErases DEF T!TtyNext
<1>14. ASSUME NEW key \in Keys, Store(key) PROVE T!TtyNext
    BY <1>14, StoreTypes DEF T!TtyNext
<1>15. CASE UNCHANGED vars
  <2>1. From' = From /\ \A q \in Readers : Hand(q)' = Hand(q)
      BY <1>15 DEF vars, From, Bumping, Hand, At
  <2>2. QED
      BY <1>15, <2>1, Quiet DEF vars
<1>16. QED
    BY <1>1, <1>2, <1>3, <1>4, <1>5, <1>6, <1>7, <1>8,
       <1>9, <1>10, <1>11, <1>12, <1>13, <1>14, <1>15 DEF Next, ReaderStep, Keyboard

(* At first nothing was typed, and no reader holds a character.             *)
LEMMA InitRefines == Init => CInv /\ T!TtyInit
<1> SUFFICES ASSUME Init PROVE CInv /\ T!TtyInit
    OBVIOUS
<1>1. OInv
    BY OrderInit
<1>2. Dist(e, r) = 0 /\ Dist(e, w) = 0 /\ From = r /\ r \in Index /\ w \in Index /\ r = w /\ e = w
      /\ buf \in Buffers
  <2>1. r \in Index /\ w \in Index /\ e \in Index /\ buf \in Buffers
      BY <1>1 DEF OInv, TypeOK, Buffers
  <2>2. QED
      BY <2>1, Moves DEF Init, From, Bumping
<1>3. Contents
    BY <1>2 DEF Contents, Init
<1>4. Ring(From, w) = <<>> /\ Ring(w, e) = <<>>
    BY <1>2, RingIsText, TextType
<1>5. [q \in Readers |-> Hand(q)] = [q \in Readers |-> None]
    BY DEF Init, Hand
<1>6. QED
    BY <1>1, <1>3, <1>4, <1>5 DEF CInv, T!TtyInit

(* Without a key typed into a reader's race, the console is the line        *)
(* discipline: readers receive the committed characters once each, in the   *)
(* order typed, unchanged, whatever is typed, erased, put back or wrapped   *)
(* around meanwhile (console.c:23-31, :60-88).                              *)
THEOREM LineDiscipline ==
    ASSUME RacyTyping = FALSE
    PROVE  Spec => ImplementsTty
<1>1. CInv /\ [Next]_vars => CInv'
    BY OrderStep, ContentsStep DEF CInv
<1>2. CInv /\ [Next]_vars => [T!TtyNext]_(T!ttyVars)
    BY StepRefines
<1>3. QED
    BY <1>1, <1>2, InitRefines, PTL DEF Spec, ImplementsTty, T!TtySpec
=============================================================================
