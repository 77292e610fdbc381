---------------------------- MODULE ConsoleProofs ----------------------------
(* Proofs about Console, for every size of the ring, every width of its     *)
(* indices, any readers and reads, and both orders of a compiled Take.      *)
EXTENDS Console, Integers, TLAPS

(* Unsigned arithmetic without the remainder.                               *)
LEMMA IndexFacts ==
    ASSUME NEW a \in Index, NEW k \in Index
    PROVE  /\ Plus(a, k) = IF a + k < IdxMod THEN a + k ELSE a + k - IdxMod
           /\ Dist(a, k) = IF k <= a THEN a - k ELSE a - k + IdxMod
           /\ Plus(a, k) \in Index /\ Dist(a, k) \in Index
<1> USE BufAssumption DEF Index, Plus, Dist
<1>1. ASSUME NEW n \in Nat, n < IdxMod PROVE n % IdxMod = n /\ (n + IdxMod) % IdxMod = n
    BY <1>1
<1>2. Plus(a, k) = IF a + k < IdxMod THEN a + k ELSE a + k - IdxMod
  <2>1. CASE a + k < IdxMod
    BY <1>1, <2>1
  <2>2. CASE a + k >= IdxMod
    BY <1>1, <2>2
  <2>3. QED
    BY <2>1, <2>2
<1>3. Dist(a, k) = IF k <= a THEN a - k ELSE a - k + IdxMod
  <2>1. CASE k <= a
    BY <1>1, <2>1
  <2>2. CASE k > a
    BY <1>1, <2>2
  <2>3. QED
    BY <2>1, <2>2
<1>4. QED
    BY <1>2, <1>3

(* No multiple of a number is smaller than it, except 0.                    *)
LEMMA NoMultiple ==
    ASSUME NEW m \in Int, NEW b \in Nat
    PROVE  b * m \notin 1 .. b - 1
<1>1. CASE m <= 0
    BY <1>1
<1>2. CASE m >= 1
  <2>1. b * m = b * (m - 1) + b
    OBVIOUS
  <2>2. b * (m - 1) >= 0
    BY <1>2
  <2>3. QED
    BY <2>1, <2>2
<1>3. QED
    BY <1>1, <1>2

(* Quotient and remainder.                                                  *)
LEMMA Division ==
    ASSUME NEW n \in Nat, NEW d \in Nat, d > 0
    PROVE  /\ n = d * (n \div d) + (n % d)
           /\ n \div d \in Nat
           /\ n % d \in 0 .. d - 1
<1>1. n = d * (n \div d) + (n % d)
    OBVIOUS
<1>2. n \div d \in Nat
    OBVIOUS
<1>3. n % d \in 0 .. d - 1
    OBVIOUS
<1>4. QED
    BY <1>1, <1>2, <1>3

(* A remainder is the only one in its range.                                *)
LEMMA Remainder ==
    ASSUME NEW d \in Nat, d > 0, NEW q \in Nat, NEW x \in 0 .. d - 1
    PROVE  (d * q + x) % d = x
<1> DEFINE n == d * q + x
<1>1. n \in Nat
    OBVIOUS
<1>2. n = d * (n \div d) + (n % d) /\ n \div d \in Nat /\ n % d \in 0 .. d - 1
    BY <1>1, Division
<1> DEFINE f == n \div d
<1> DEFINE y == n % d
<1>3. /\ f \in Nat /\ y \in 0 .. d - 1
      /\ d * q + x = d * f + y
    BY <1>2
<1> HIDE DEF f, y
<1>4. d * (q - f) = y - x /\ d * (f - q) = x - y
  <2>1. d * (q - f) = d * q - d * f /\ d * (f - q) = d * f - d * q
      BY <1>3
  <2>2. d * q \in Nat /\ d * f \in Nat
      BY <1>3
  <2>3. QED
      BY <1>3, <2>1, <2>2
<1>5. y - x \notin 1 .. d - 1
    BY <1>3, <1>4, NoMultiple
<1>6. x - y \notin 1 .. d - 1
    BY <1>3, <1>4, NoMultiple
<1>7. QED
    BY <1>3, <1>5, <1>6 DEF y

(* An index modulo IdxMod leads to the same place as the sum it stands for. *)
LEMMA ModWrap ==
    ASSUME NEW n \in Nat
    PROVE  (n % IdxMod) % INPUT_BUF = n % INPUT_BUF
<1> DEFINE B == INPUT_BUF
<1> DEFINE rest == n % IdxMod
<1>1. B \in Nat /\ B > 0 /\ IdxMod \in Nat /\ IdxMod > 0 /\ IdxMod % B = 0
    BY BufAssumption
<1>2. PICK j \in Nat : IdxMod = B * j
  <2>1. IdxMod = B * (IdxMod \div B) + (IdxMod % B) /\ IdxMod \div B \in Nat
      BY <1>1, Division
  <2>2. QED
      BY <1>1, <2>1
<1>3. PICK k \in Nat : n = IdxMod * k + rest
  <2>1. n = IdxMod * (n \div IdxMod) + (n % IdxMod) /\ n \div IdxMod \in Nat
      BY <1>1, Division
  <2>2. QED
      BY <2>1
<1>4. rest \in Nat
    BY <1>1, Division
<1> HIDE DEF rest
<1>5. PICK l \in Nat : rest = B * l + (rest % B)
  <2>1. rest = B * (rest \div B) + (rest % B) /\ rest \div B \in Nat
      BY <1>1, <1>4, Division
  <2>2. QED
      BY <2>1
<1>6. rest % B \in 0 .. B - 1
    BY <1>1, <1>4, Division
<1>7. n = B * (j * k + l) + (rest % B) /\ j * k + l \in Nat
  <2>1. IdxMod * k = B * (j * k) /\ j * k \in Nat
      BY <1>1, <1>2
  <2>2. B * (j * k + l) = B * (j * k) + B * l
      BY <1>1, <2>1
  <2>3. B * (j * k) \in Nat /\ B * l \in Nat
      BY <1>1, <2>1
  <2>4. n = B * (j * k) + (B * l + (rest % B))
      BY <1>3, <1>5, <2>1
  <2>5. n = B * (j * k + l) + (rest % B)
      BY <1>6, <2>2, <2>3, <2>4
  <2>6. QED
      BY <2>1, <2>5
<1>8. n % B = rest % B
    BY <1>1, <1>6, <1>7, Remainder
<1>9. QED
    BY <1>8 DEF rest

(* Two places less than the ring apart are not the same place.              *)
LEMMA Apart ==
    ASSUME NEW i \in Index, NEW k \in 1 .. INPUT_BUF - 1
    PROVE  Plus(i, k) % INPUT_BUF # i % INPUT_BUF
<1> DEFINE B == INPUT_BUF
<1>1. B \in Nat /\ B > 0 /\ i \in Nat /\ k \in Nat
    BY BufAssumption DEF Index
<1>2. Plus(i, k) % B = (i + k) % B
    BY <1>1, ModWrap DEF Plus
<1>3. /\ i = B * (i \div B) + (i % B)
      /\ i \div B \in Nat /\ i % B \in Nat
    BY <1>1, Division
<1>4. /\ i + k = B * ((i + k) \div B) + ((i + k) % B)
      /\ (i + k) \div B \in Nat
    BY <1>1, Division
<1>5. SUFFICES ASSUME (i + k) % B = i % B PROVE FALSE
    BY <1>2
<1> DEFINE m == ((i + k) \div B) - (i \div B)
<1>6. m \in Int /\ B * m = k
  <2>1. m \in Int
    BY <1>3, <1>4
  <2>2. \A x, y \in Nat : B * (x - y) = B * x - B * y
    BY <1>1
  <2>3. B * m = B * ((i + k) \div B) - B * (i \div B)
    BY <2>2, <1>3, <1>4
  <2> HIDE DEF m
  <2>4. QED
    BY <1>1, <1>3, <1>4, <1>5, <2>1, <2>3
<1> HIDE DEF m
<1>7. QED
    BY <1>6, <1>1, NoMultiple

(* 1 is an index, so that every index has a next and a previous one.        *)
LEMMA OneIndex == 1 \in Index
    BY BufAssumption DEF Index

(* Every index has its place in the buffer.                                 *)
LEMMA PlaceFacts == \A i \in Index : i % INPUT_BUF \in 0 .. INPUT_BUF - 1
    BY BufAssumption, Division DEF Index

(* How distances change when one index moves by one: a is taken from, or    *)
(* put back to; b is stored at, or erased at.                               *)
LEMMA Moves ==
    ASSUME NEW a \in Index, NEW b \in Index
    PROVE  /\ Dist(b, a) = 0 <=> a = b
           /\ a # b => Dist(b, Plus(a, 1)) = Dist(b, a) - 1
           /\ a # b => Dist(Dist(b, 1), a) = Dist(b, a) - 1
           /\ Dist(b, a) + 1 < IdxMod => Dist(Plus(b, 1), a) = Dist(b, a) + 1
           /\ Dist(b, a) + 1 < IdxMod => Dist(b, Dist(a, 1)) = Dist(b, a) + 1
           /\ Plus(Dist(a, 1), 1) = a /\ Dist(Plus(a, 1), 1) = a
<1>1. /\ Dist(b, a) \in Index
        /\ Dist(b, a) = IF a <= b THEN b - a ELSE b - a + IdxMod
    BY IndexFacts
<1>2. /\ Plus(a, 1) \in Index /\ Plus(a, 1) = IF a + 1 < IdxMod THEN a + 1 ELSE 0
      /\ Plus(b, 1) \in Index /\ Plus(b, 1) = IF b + 1 < IdxMod THEN b + 1 ELSE 0
      /\ Dist(a, 1) \in Index /\ Dist(a, 1) = IF 1 <= a THEN a - 1 ELSE IdxMod - 1
      /\ Dist(b, 1) \in Index /\ Dist(b, 1) = IF 1 <= b THEN b - 1 ELSE IdxMod - 1
  <2>1. /\ Plus(a, 1) \in Index
        /\ Plus(a, 1) = IF a + 1 < IdxMod THEN a + 1 ELSE a + 1 - IdxMod
      BY IndexFacts, OneIndex
  <2>2. /\ Plus(b, 1) \in Index
        /\ Plus(b, 1) = IF b + 1 < IdxMod THEN b + 1 ELSE b + 1 - IdxMod
      BY IndexFacts, OneIndex
  <2>3. /\ Dist(a, 1) \in Index
        /\ Dist(a, 1) = IF 1 <= a THEN a - 1 ELSE a - 1 + IdxMod
      BY IndexFacts, OneIndex
  <2>4. /\ Dist(b, 1) \in Index
        /\ Dist(b, 1) = IF 1 <= b THEN b - 1 ELSE b - 1 + IdxMod
      BY IndexFacts, OneIndex
  <2>5. QED
      BY <2>1, <2>2, <2>3, <2>4, BufAssumption DEF Index
<1>3. Dist(b, a) = 0 <=> a = b
    BY <1>1, BufAssumption DEF Index
<1>4. a # b => Dist(b, Plus(a, 1)) = Dist(b, a) - 1
  <2>1. /\ Dist(b, Plus(a, 1)) \in Index
        /\ Dist(b, Plus(a, 1)) = IF Plus(a, 1) <= b THEN b - Plus(a, 1) ELSE b - Plus(a, 1) + IdxMod
      BY <1>2, IndexFacts
  <2>2. QED
      BY <1>1, <1>2, <2>1, BufAssumption DEF Index
<1>5. a # b => Dist(Dist(b, 1), a) = Dist(b, a) - 1
  <2>1. /\ Dist(Dist(b, 1), a) \in Index
        /\ Dist(Dist(b, 1), a) = IF a <= Dist(b, 1) THEN Dist(b, 1) - a ELSE Dist(b, 1) - a + IdxMod
      BY <1>2, IndexFacts
  <2>2. QED
      BY <1>1, <1>2, <2>1, BufAssumption DEF Index
<1>6. Dist(b, a) + 1 < IdxMod => Dist(Plus(b, 1), a) = Dist(b, a) + 1
  <2>1. /\ Dist(Plus(b, 1), a) \in Index
        /\ Dist(Plus(b, 1), a) = IF a <= Plus(b, 1) THEN Plus(b, 1) - a ELSE Plus(b, 1) - a + IdxMod
      BY <1>2, IndexFacts
  <2>2. QED
      BY <1>1, <1>2, <2>1, BufAssumption DEF Index
<1>7. Dist(b, a) + 1 < IdxMod => Dist(b, Dist(a, 1)) = Dist(b, a) + 1
  <2>1. /\ Dist(b, Dist(a, 1)) \in Index
        /\ Dist(b, Dist(a, 1)) = IF Dist(a, 1) <= b THEN b - Dist(a, 1) ELSE b - Dist(a, 1) + IdxMod
      BY <1>2, IndexFacts
  <2>2. QED
      BY <1>1, <1>2, <2>1, BufAssumption DEF Index
<1>8. Plus(Dist(a, 1), 1) = a /\ Dist(Plus(a, 1), 1) = a
  <2>1. /\ Plus(Dist(a, 1), 1) \in Index
        /\ Plus(Dist(a, 1), 1) = IF Dist(a, 1) + 1 < IdxMod THEN Dist(a, 1) + 1 ELSE Dist(a, 1) + 1 - IdxMod
      BY <1>2, IndexFacts, OneIndex
  <2>2. /\ Dist(Plus(a, 1), 1) \in Index
        /\ Dist(Plus(a, 1), 1) = IF 1 <= Plus(a, 1) THEN Plus(a, 1) - 1 ELSE Plus(a, 1) - 1 + IdxMod
      BY <1>2, IndexFacts, OneIndex
  <2>3. QED
      BY <1>2, <2>1, <2>2, BufAssumption DEF Index
<1>9. QED
    BY <1>3, <1>4, <1>5, <1>6, <1>7, <1>8

(* Counting k places on from a, or back from b.                             *)
LEMMA Walks ==
    ASSUME NEW a \in Index, NEW b \in Index, NEW k \in 0 .. Dist(b, a)
    PROVE  /\ k \in Index
           /\ Dist(Dist(b, k), a) = Dist(b, a) - k
           /\ Plus(a, Dist(b, a)) = b
           /\ Dist(b, k) = Plus(a, Dist(b, a) - k)
           /\ Dist(Plus(a, k), a) = k
<1>1. /\ Dist(b, a) \in Index
        /\ Dist(b, a) = IF a <= b THEN b - a ELSE b - a + IdxMod
    BY IndexFacts
<1>2. k \in Index /\ Dist(b, a) - k \in Index
    BY <1>1, BufAssumption DEF Index
<1>3. /\ Dist(b, k) \in Index
        /\ Dist(b, k) = IF k <= b THEN b - k ELSE b - k + IdxMod
    BY <1>2, IndexFacts
<1>4. /\ Plus(a, k) \in Index
        /\ Plus(a, k) = IF a + k < IdxMod THEN a + k ELSE a + k - IdxMod
    BY <1>2, IndexFacts
<1>5. Dist(Dist(b, k), a) = Dist(b, a) - k
  <2>1. /\ Dist(Dist(b, k), a) \in Index
        /\ Dist(Dist(b, k), a) = IF a <= Dist(b, k) THEN Dist(b, k) - a ELSE Dist(b, k) - a + IdxMod
      BY <1>3, IndexFacts
  <2>2. QED
      BY <1>1, <1>2, <1>3, <2>1, BufAssumption DEF Index
<1>6. Plus(a, Dist(b, a)) = b
  <2>1. /\ Plus(a, Dist(b, a)) \in Index
        /\ Plus(a, Dist(b, a)) = IF a + Dist(b, a) < IdxMod THEN a + Dist(b, a) ELSE a + Dist(b, a) - IdxMod
      BY <1>1, IndexFacts
  <2>2. QED
      BY <1>1, <2>1, BufAssumption DEF Index
<1>7. Dist(b, k) = Plus(a, Dist(b, a) - k)
  <2> DEFINE m == Dist(b, a) - k
  <2>1. /\ Plus(a, m) \in Index
        /\ Plus(a, m) = IF a + m < IdxMod THEN a + m ELSE a + m - IdxMod
      BY <1>2, IndexFacts
  <2>2. QED
      BY <1>1, <1>2, <1>3, <2>1, BufAssumption DEF Index
<1>8. Dist(Plus(a, k), a) = k
  <2>1. /\ Dist(Plus(a, k), a) \in Index
        /\ Dist(Plus(a, k), a) = IF a <= Plus(a, k) THEN Plus(a, k) - a ELSE Plus(a, k) - a + IdxMod
      BY <1>4, IndexFacts
  <2>2. QED
      BY <1>2, <1>4, <2>1, BufAssumption DEF Index
<1>9. QED
    BY <1>2, <1>5, <1>6, <1>7, <1>8

(* Distances over an index between the two.                                 *)
LEMMA Between ==
    ASSUME NEW a \in Index, NEW b \in Index, NEW c \in Index, Dist(b, a) <= Dist(c, a)
    PROVE  /\ Dist(c, b) = Dist(c, a) - Dist(b, a)
           /\ \A k \in 0 .. Dist(c, b) : /\ k \in Index /\ Dist(b, a) + k \in Index
                                         /\ Plus(b, k) = Plus(a, Dist(b, a) + k)
<1>1. /\ Dist(b, a) \in Index
        /\ Dist(b, a) = IF a <= b THEN b - a ELSE b - a + IdxMod
    BY IndexFacts
<1>2. /\ Dist(c, a) \in Index
        /\ Dist(c, a) = IF a <= c THEN c - a ELSE c - a + IdxMod
    BY IndexFacts
<1>3. /\ Dist(c, b) \in Index
        /\ Dist(c, b) = IF b <= c THEN c - b ELSE c - b + IdxMod
    BY IndexFacts
<1>4. Dist(c, b) = Dist(c, a) - Dist(b, a)
    BY <1>1, <1>2, <1>3, BufAssumption DEF Index
<1>5. ASSUME NEW k \in 0 .. Dist(c, b)
      PROVE  /\ k \in Index /\ Dist(b, a) + k \in Index
             /\ Plus(b, k) = Plus(a, Dist(b, a) + k)
  <2> DEFINE m == Dist(b, a) + k
  <2>1. k \in Index /\ m \in Index
      BY <1>1, <1>2, <1>3, <1>4, BufAssumption DEF Index
  <2>2. /\ Plus(b, k) \in Index
        /\ Plus(b, k) = IF b + k < IdxMod THEN b + k ELSE b + k - IdxMod
      BY <2>1, IndexFacts
  <2>3. /\ Plus(a, m) \in Index
        /\ Plus(a, m) = IF a + m < IdxMod THEN a + m ELSE a + m - IdxMod
      BY <2>1, IndexFacts
  <2>4. QED
      BY <1>1, <2>1, <2>2, <2>3, BufAssumption DEF Index
<1>6. QED
    BY <1>4, <1>5

(* What is left to walk after k places.                                     *)
LEMMA Rest ==
    ASSUME NEW a \in Index, NEW b \in Index, NEW k \in 0 .. Dist(b, a)
    PROVE  Plus(a, k) \in Index /\ Dist(b, Plus(a, k)) = Dist(b, a) - k
<1>1. Dist(b, a) \in Nat /\ k \in Index /\ Dist(Plus(a, k), a) = k
    BY Walks, IndexFacts, BufAssumption DEF Index
<1>2. Plus(a, k) \in Index
    BY <1>1, IndexFacts
<1>3. Dist(Plus(a, k), a) <= Dist(b, a)
    BY <1>1
<1>4. Dist(b, Plus(a, k)) = Dist(b, a) - Dist(Plus(a, k), a)
    BY <1>2, <1>3, Between
<1>5. QED
    BY <1>1, <1>2, <1>4

(* Going nowhere.                                                           *)
LEMMA Nowhere ==
    ASSUME NEW a \in Index
    PROVE  Plus(a, 0) = a
<1>1. 0 \in Index
    BY BufAssumption DEF Index
<1>2. Plus(a, 0) = IF a + 0 < IdxMod THEN a + 0 ELSE a + 0 - IdxMod
    BY <1>1, IndexFacts
<1>3. QED
    BY <1>2, BufAssumption DEF Index

(* The places after a are those from the next index on.                     *)
LEMMA NextPlaces ==
    ASSUME NEW a \in Index, NEW b \in Index, a # b
    PROVE  \A k \in 0 .. Dist(b, a) - 1 : Plus(Plus(a, 1), k) = Plus(a, 1 + k)
<1>1. Dist(b, a) \in Nat /\ Dist(b, a) # 0 /\ 1 \in 0 .. Dist(b, a)
    BY Moves, IndexFacts, BufAssumption DEF Index
<1>2. Plus(a, 1) \in Index /\ Dist(Plus(a, 1), a) = 1
    BY <1>1, Walks, OneIndex, IndexFacts
<1>3. Dist(b, Plus(a, 1)) = Dist(b, a) - 1
    BY Moves
<1>4. \A k \in 0 .. Dist(b, Plus(a, 1)) : Plus(Plus(a, 1), k) = Plus(a, 1 + k)
    BY <1>1, <1>2, Between
<1>5. QED
    BY <1>1, <1>3, <1>4

(* Who has the CPU, and who gave it up.                                     *)
Turn(p) ==
    /\ pc[p] \in {"check", "enter", "doze", "take", "load", "bump", "got"} => cpu = p
    /\ pc[p] = "asleep" => cpu # p
    /\ pc[p] \in {"doze", "asleep"} => pstate[p] # "RUNNING"
    /\ cpu = p /\ pc[p] # "doze" => pstate[p] = "RUNNING"
    /\ pstate[p] = "RUNNING" => cpu = p
    /\ pstate[p] = "SLEEPING" => pc[p] \in {"doze", "asleep"}

(* The span of the ring: one place more than there is when a key may take   *)
(* the place that an end of file is put back to.                            *)
Cap == IF RacyTyping THEN INPUT_BUF + 1 ELSE INPUT_BUF

Spanned ==
    /\ Dist(w, r) <= Dist(e, r)
    /\ Dist(e, r) <= Cap
    /\ \A p \in Readers :
        /\ Racing(p) => Dist(e, r) < Cap
        /\ pc[p] \in {"take", "bump"} => r # w

OInv ==
    /\ TypeOK
    /\ \A p \in Readers : Turn(p)
    /\ Spanned

(* What the places of the ring hold.                                        *)
Contents ==
    /\ \A k \in 0 .. Dist(e, r) - 1 : At(Plus(r, k)) \in Stored
    /\ \A k \in 0 .. Dist(e, w) - 1 : At(Plus(w, k)) \notin Special
    /\ \A p \in Readers :
        /\ pc[p] = "load" => At(Dist(r, 1)) \in Stored
        /\ pc[p] = "bump" => ch[p] = At(r)
        /\ pc[p] = "got" => ch[p] \in Stored
        /\ pc[p] = "got" /\ Racing(p) => At(Dist(r, 1)) = "eof"

CInv == OInv /\ Contents

(* The text in buffer b from index i up to f ends a read of n characters.   *)
Enough(b, f, i, n) ==
    \/ n <= Dist(f, i)
    \/ \E k \in 0 .. Dist(f, i) - 1 : b[Plus(i, k) % INPUT_BUF] \in Special

(* A reader sleeps only on an empty line, and once interrupts are on it has *)
(* all it asked for.                                                        *)
Served(p) ==
    /\ pc[p] # "user" => left[p] \in 1 .. INPUT_BUF
    /\ pc[p] = "enter" => r = w /\ ~irqOn
    /\ pstate[p] = "SLEEPING" => r = w
    /\ pc[p] \in {"doze", "asleep"} => irqOn
    /\ irqOn =>
        /\ pc[p] \in {"doze", "asleep"} /\ pstate[p] = "RUNNABLE" => Enough(buf, w, r, left[p])
        /\ pc[p] \in {"check", "take"} => Enough(buf, w, r, left[p])
        /\ pc[p] = "load" => At(Dist(r, 1)) \in Special \/ Enough(buf, w, r, left[p] - 1)
        /\ pc[p] = "bump" => ch[p] \in Special \/ Enough(buf, w, Plus(r, 1), left[p] - 1)
        /\ pc[p] = "got" => ch[p] \in Special \/ Enough(buf, w, r, left[p] - 1)

WInv == OInv /\ \A p \in Readers : Served(p)

(* What the argument needs: a system call masks interrupts, as on ARM, one  *)
(* process reads the console, and no read is longer than the ring.          *)
OneMaskedReader ==
    /\ SyscallMasksIrq
    /\ Readers # {} /\ \A p, q \in Readers : p = q
    /\ Counts \subseteq 1 .. INPUT_BUF

(* What a stored key does, whichever key it is.                             *)
LEMMA StoreEffect ==
    ASSUME NEW key \in Keys, Store(key)
    PROVE  \E c \in Stored :
        /\ buf' = [buf EXCEPT ![e % INPUT_BUF] = c]
        /\ e' = Plus(e, 1) /\ r' = r
        /\ pc' = pc /\ left' = left /\ target' = target /\ ch' = ch
        /\ cpu' = cpu /\ irqOn' = irqOn
        /\ \/ /\ Commits(c, e') /\ w' = e'
              /\ pstate' = [p \in Readers |->
                       IF pstate[p] = "SLEEPING" THEN "RUNNABLE" ELSE pstate[p]]
           \/ ~Commits(c, e') /\ w' = w /\ pstate' = pstate
<1> DEFINE c == IF key = "cr" THEN "nl" ELSE key
<1>1. c \in Stored
    BY DEF Store, Keys, Stored, Special
<1>2. /\ buf' = [buf EXCEPT ![e % INPUT_BUF] = c]
      /\ e' = Plus(e, 1)
      /\ UNCHANGED <<r, pc, local, cpu, irqOn>>
      /\ IF Commits(c, Plus(e, 1))
              THEN /\ w' = Plus(e, 1)
                   /\ pstate' = [p \in Readers |->
                        IF pstate[p] = "SLEEPING" THEN "RUNNABLE" ELSE pstate[p]]
              ELSE UNCHANGED <<w, pstate>>
    BY DEF Store
<1> HIDE DEF c
<1>3. /\ r' = r /\ pc' = pc /\ left' = left /\ target' = target /\ ch' = ch
      /\ cpu' = cpu /\ irqOn' = irqOn
    BY <1>2 DEF local
<1>4. CASE Commits(c, Plus(e, 1))
    BY <1>1, <1>2, <1>3, <1>4
<1>5. CASE ~Commits(c, Plus(e, 1))
    BY <1>1, <1>2, <1>3, <1>5
<1>6. QED
    BY <1>4, <1>5

(* Indices have neighbours, and every place holds a character or nothing.   *)
LEMMA Typed ==
    TypeOK => \A i \in Index : /\ Plus(i, 1) \in Index /\ Dist(i, 1) \in Index
                               /\ i % INPUT_BUF \in 0 .. INPUT_BUF - 1
                               /\ At(i) \in Stored \cup {None}
    BY IndexFacts, OneIndex, PlaceFacts DEF TypeOK, At

(* Every step preserves the types.                                          *)
LEMMA TypeStep == TypeOK /\ [Next]_vars => TypeOK'
<1> SUFFICES ASSUME TypeOK, [Next]_vars PROVE TypeOK'
    OBVIOUS
<1> USE BufAssumption, NoneAssumption
<1> USE DEF TypeOK, input, local, Keys
<1>1. ASSUME NEW p \in Readers, Read(p) PROVE TypeOK'
  <2>1. irqOn' \in BOOLEAN
      BY Zenon, <1>1 DEF Read
  <2>2. PICK n \in Counts : /\ left' = [left EXCEPT ![p] = n]
                            /\ target' = [target EXCEPT ![p] = n]
      BY <1>1 DEF Read
  <2>3. QED
      BY <1>1, <2>1, <2>2, CountAssumption DEF Read, Goto
<1>2. ASSUME NEW p \in Readers, Check(p) PROVE TypeOK'
    BY <1>2, Typed DEF Check, Here, Goto
<1>3. ASSUME NEW p \in Readers, SleepEnter(p) PROVE TypeOK'
    BY <1>3, Typed DEF SleepEnter, Here, Goto
<1>4. ASSUME NEW p \in Readers, SleepYield(p) PROVE TypeOK'
    BY <1>4, Typed DEF SleepYield, Here, Goto
<1>5. ASSUME NEW p \in Readers, Join(p) PROVE TypeOK'
    BY <1>5, Typed DEF Join, Here, Goto
<1>6. ASSUME NEW p \in Readers, Take(p) PROVE TypeOK'
  <2>1. Plus(r, 1) \in Index /\ At(r) \in Stored \cup {None}
      BY Typed
  <2>2. r' \in Index /\ ch' \in [Readers -> Stored \cup {None}]
      BY <1>6, <2>1 DEF Take
  <2>3. QED
      BY <1>6, <2>2 DEF Take, Goto
<1>7. ASSUME NEW p \in Readers, TakeLoad(p) PROVE TypeOK'
  <2>1. At(Dist(r, 1)) \in Stored \cup {None}
      BY Typed
  <2>2. QED
      BY <1>7, <2>1 DEF TakeLoad, Goto
<1>8. ASSUME NEW p \in Readers, TakeStore(p) PROVE TypeOK'
    BY <1>8, Typed DEF TakeStore, Here, Goto
<1>9. ASSUME NEW p \in Readers, GotEof(p) PROVE TypeOK'
    BY <1>9, Typed DEF GotEof, ReturnToUser, Here
<1>10. ASSUME NEW p \in Readers, GotLast(p) PROVE TypeOK'
    BY <1>10, Typed DEF GotLast, ReturnToUser, Here
<1>11. ASSUME NEW p \in Readers, GotMore(p) PROVE TypeOK'
    BY <1>11, Typed DEF GotMore, Here, Goto
<1>12. CASE KillLine
  <2>1. e' \in Index
      BY <1>12, Walks, IndexFacts DEF KillLine
  <2>2. QED
      BY <1>12, <2>1 DEF KillLine
<1>13. CASE Backspace
    BY <1>13, Typed DEF Backspace
<1>14. ASSUME NEW key \in Keys, Store(key) PROVE TypeOK'
  <2> DEFINE c == IF key = "cr" THEN "nl" ELSE key
  <2>1. c \in Stored
      BY <1>14 DEF Store, Stored, Special
  <2>2. /\ buf' = [buf EXCEPT ![e % INPUT_BUF] = c]
        /\ e' = Plus(e, 1) /\ w' \in {w, Plus(e, 1)}
        /\ r' = r /\ pc' = pc /\ left' = left /\ target' = target /\ ch' = ch
        /\ cpu' = cpu /\ irqOn' = irqOn
      BY <1>14 DEF Store
  <2>3. pstate' \in [Readers -> {"RUNNING", "RUNNABLE", "SLEEPING"}]
      BY <1>14 DEF Store
  <2>4. QED
      BY <2>1, <2>2, <2>3, Typed
<1>15. CASE UNCHANGED vars
    BY <1>15, Typed DEF vars
<1>16. QED
    BY <1>1, <1>2, <1>3, <1>4, <1>5, <1>6, <1>7, <1>8,
       <1>9, <1>10, <1>11, <1>12, <1>13, <1>14, <1>15 DEF Next, ReaderStep, Keyboard

(* The CPU changes hands in sleep() and in the scheduler only.              *)
LEMMA TurnStep == OInv /\ [Next]_vars => (\A q \in Readers : Turn(q))'
<1> SUFFICES ASSUME OInv, [Next]_vars PROVE (\A q \in Readers : Turn(q))'
    OBVIOUS
<1> USE BufAssumption, NoneAssumption
<1> USE DEF OInv, TypeOK, Turn, input, local
<1>1. ASSUME NEW p \in Readers, Read(p) PROVE (\A q \in Readers : Turn(q))'
    BY <1>1 DEF Read, Here, Goto
<1>2. ASSUME NEW p \in Readers, Check(p) PROVE (\A q \in Readers : Turn(q))'
    BY <1>2 DEF Check, Here, Goto
<1>3. ASSUME NEW p \in Readers, SleepEnter(p) PROVE (\A q \in Readers : Turn(q))'
    BY <1>3 DEF SleepEnter, Here, Goto
<1>4. ASSUME NEW p \in Readers, SleepYield(p) PROVE (\A q \in Readers : Turn(q))'
    BY <1>4 DEF SleepYield, Here, Goto
<1>5. ASSUME NEW p \in Readers, Join(p) PROVE (\A q \in Readers : Turn(q))'
    BY <1>5 DEF Join, Here, Goto
<1>6. ASSUME NEW p \in Readers, Take(p) PROVE (\A q \in Readers : Turn(q))'
    BY <1>6 DEF Take, Here, Goto
<1>7. ASSUME NEW p \in Readers, TakeLoad(p) PROVE (\A q \in Readers : Turn(q))'
    BY <1>7 DEF TakeLoad, Here, Goto
<1>8. ASSUME NEW p \in Readers, TakeStore(p) PROVE (\A q \in Readers : Turn(q))'
    BY <1>8 DEF TakeStore, Here, Goto
<1>9. ASSUME NEW p \in Readers, GotEof(p) PROVE (\A q \in Readers : Turn(q))'
    BY <1>9 DEF GotEof, ReturnToUser, Here
<1>10. ASSUME NEW p \in Readers, GotLast(p) PROVE (\A q \in Readers : Turn(q))'
    BY <1>10 DEF GotLast, ReturnToUser, Here
<1>11. ASSUME NEW p \in Readers, GotMore(p) PROVE (\A q \in Readers : Turn(q))'
    BY <1>11 DEF GotMore, Here, Goto
<1>12. CASE KillLine
    BY <1>12 DEF KillLine
<1>13. CASE Backspace
    BY <1>13 DEF Backspace
<1>14. ASSUME NEW key \in Keys, Store(key) PROVE (\A q \in Readers : Turn(q))'
    BY <1>14 DEF Store
<1>15. CASE UNCHANGED vars
    BY <1>15 DEF vars
<1>16. QED
    BY <1>1, <1>2, <1>3, <1>4, <1>5, <1>6, <1>7, <1>8,
       <1>9, <1>10, <1>11, <1>12, <1>13, <1>14, <1>15 DEF Next, ReaderStep, Keyboard

(* The distances are numbers, and the span does not reach round the index.  *)
LEMMA Distances ==
    TypeOK => /\ Dist(w, r) \in Nat /\ Dist(e, r) \in Nat /\ Dist(e, w) \in Nat
              /\ Cap \in Nat /\ Cap < IdxMod /\ INPUT_BUF <= Cap
<1> SUFFICES ASSUME TypeOK PROVE /\ Dist(w, r) \in Index /\ Dist(e, r) \in Index
                                 /\ Dist(e, w) \in Index
                                 /\ Cap \in Nat /\ Cap < IdxMod /\ INPUT_BUF <= Cap
    BY BufAssumption DEF Index
<1>1. /\ Dist(w, r) \in Index /\ Dist(e, r) \in Index /\ Dist(e, w) \in Index
    BY IndexFacts DEF TypeOK
<1>2. QED
    BY <1>1, BufAssumption DEF Cap

(* In console_read is only who has the CPU.                                 *)
LEMMA Alone ==
    ASSUME OInv, NEW p \in Readers, cpu = p, NEW q \in Readers, q # p
    PROVE  pc[q] \in {"user", "asleep"} /\ ~Racing(q)
    BY DEF OInv, TypeOK, Turn, Racing

(* While an unread line waits, the buffer is not empty.                     *)
LEMMA Unread ==
    OInv /\ r # w => r # e /\ Dist(w, r) > 0
    BY Moves, Distances DEF OInv, TypeOK, Spanned

(* A key that is stored finds room, and lengthens text and edited text.     *)
LEMMA StoreSpan ==
    ASSUME OInv, NEW key \in Keys, Store(key)
    PROVE  /\ Dist(e, r) \in Nat /\ Dist(e, w) \in Nat /\ Dist(w, r) \in Nat
           /\ Dist(e, r) < INPUT_BUF /\ Dist(e, w) = Dist(e, r) - Dist(w, r)
           /\ Dist(Plus(e, 1), r) = Dist(e, r) + 1
           /\ Dist(Plus(e, 1), w) = Dist(e, w) + 1
<1>1. TypeOK /\ Dist(w, r) <= Dist(e, r) /\ Dist(e, r) < INPUT_BUF
    BY DEF OInv, Spanned, Store, Room
<1>2. Dist(e, r) \in Nat /\ Dist(e, w) \in Nat /\ Dist(w, r) \in Nat
    BY <1>1, Distances
<1>3. r \in Index /\ w \in Index /\ e \in Index
    BY <1>1 DEF TypeOK
<1>4. Dist(e, w) = Dist(e, r) - Dist(w, r)
    BY <1>1, <1>3, Between
<1>5. Dist(e, r) + 1 < IdxMod /\ Dist(e, w) + 1 < IdxMod
    BY <1>1, <1>2, <1>4, BufAssumption
<1>6. QED
    BY <1>1, <1>2, <1>3, <1>4, <1>5, Moves

(* The reader takes and puts back, the keyboard stores and erases, each    *)
(* within the other's bounds.                                               *)
LEMMA SpanStep == OInv /\ [Next]_vars => Spanned'
<1> SUFFICES ASSUME OInv, [Next]_vars PROVE Spanned'
    OBVIOUS
<1> USE BufAssumption, NoneAssumption
<1> USE DEF OInv, TypeOK, Turn, Spanned, Racing, input, local
<1>1. ASSUME NEW p \in Readers, Read(p) PROVE Spanned'
    BY <1>1 DEF Read, Here, Goto
<1>2. ASSUME NEW p \in Readers, Check(p) PROVE Spanned'
    BY <1>2 DEF Check, Here, Goto
<1>3. ASSUME NEW p \in Readers, SleepEnter(p) PROVE Spanned'
    BY <1>3 DEF SleepEnter, Here, Goto
<1>4. ASSUME NEW p \in Readers, SleepYield(p) PROVE Spanned'
    BY <1>4 DEF SleepYield, Here, Goto
<1>5. ASSUME NEW p \in Readers, Join(p) PROVE Spanned'
    BY <1>5 DEF Join, Here, Goto
<1>6. ASSUME NEW p \in Readers, Take(p) PROVE Spanned'
  <2>1. r # w /\ r # e /\ Dist(w, r) > 0
      BY <1>6, Unread DEF Take, Here
  <2>2. \A q \in Readers : q # p => pc'[q] \in {"user", "asleep"}
      BY <1>6, Alone DEF Take, Here, Goto
  <2>3. CASE r' = r /\ pc' = [pc EXCEPT ![p] = "bump"]
      BY <1>6, <2>1, <2>2, <2>3 DEF Take
  <2>4. CASE r' = Plus(r, 1) /\ pc' = [pc EXCEPT ![p] = "load"]
    <3>1. Dist(w, r') = Dist(w, r) - 1 /\ Dist(e, r') = Dist(e, r) - 1
        BY <2>1, <2>4, Moves
    <3>2. w' = w /\ e' = e
        BY <1>6 DEF Take
    <3>3. /\ Dist(w', r') <= Dist(e', r')
          /\ Dist(e', r') < Cap /\ Dist(e', r') <= Cap
        BY <3>1, <3>2, Distances
    <3>4. \A q \in Readers : pc'[q] \notin {"take", "bump"}
        BY <2>2, <2>4
    <3>5. QED
        BY <3>3, <3>4
  <2>5. QED
      BY <1>6, <2>3, <2>4 DEF Take, Goto
<1>7. ASSUME NEW p \in Readers, TakeLoad(p) PROVE Spanned'
    BY <1>7 DEF TakeLoad, Here, Goto
<1>8. ASSUME NEW p \in Readers, TakeStore(p) PROVE Spanned'
  <2>1. r # w /\ r # e /\ Dist(w, r) > 0
      BY <1>8, Unread DEF TakeStore, Here
  <2>2. \A q \in Readers : q # p => pc'[q] \in {"user", "asleep"}
      BY <1>8, Alone DEF TakeStore, Here, Goto
  <2>3. /\ Dist(w', r') = Dist(w, r) - 1 /\ Dist(e', r') = Dist(e, r) - 1
        /\ pc' = [pc EXCEPT ![p] = "got"]
      BY <1>8, <2>1, Moves DEF TakeStore, Goto
  <2>4. Dist(w', r') <= Dist(e', r') /\ Dist(e', r') < Cap
      BY <2>3, Distances
  <2>5. QED
      BY <2>2, <2>3, <2>4, Distances
<1>9. ASSUME NEW p \in Readers, GotEof(p) PROVE Spanned'
  <2>1. \A q \in Readers : pc'[q] \in {"user", "asleep"}
      BY <1>9, Alone DEF GotEof, ReturnToUser, Here
  <2>2. w' = w /\ e' = e
      BY <1>9 DEF GotEof
  <2>3. CASE r' = r
      BY <2>1, <2>2, <2>3
  <2>4. CASE r' = Dist(r, 1) /\ Racing(p)
    <3>1. Dist(e, r) < Cap
        BY <2>4
    <3>2. Dist(w, r') = Dist(w, r) + 1 /\ Dist(e, r') = Dist(e, r) + 1
      <4>1. /\ Dist(w, r) \in Nat /\ Dist(e, r) \in Nat
            /\ Cap \in Nat /\ Cap < IdxMod
          BY Distances
      <4>2. Dist(w, r) <= Dist(e, r) /\ IdxMod \in Nat
          OBVIOUS
      <4>3. Dist(w, r) + 1 < IdxMod /\ Dist(e, r) + 1 < IdxMod
          BY ONLY <3>1, <4>1, <4>2
      <4>4. QED
          BY <2>4, <4>3, Moves
    <3>3. Dist(w', r') <= Dist(e', r') /\ Dist(e', r') <= Cap
        BY <2>2, <3>1, <3>2, Distances
    <3>4. QED
        BY <2>1, <3>3
  <2>5. QED
      BY <1>9, <2>3, <2>4 DEF GotEof, Here
<1>10. ASSUME NEW p \in Readers, GotLast(p) PROVE Spanned'
    BY <1>10 DEF GotLast, ReturnToUser, Here
<1>11. ASSUME NEW p \in Readers, GotMore(p) PROVE Spanned'
    BY <1>11 DEF GotMore, Here, Goto
<1>12. CASE KillLine
  <2>1. PICK k \in 0 .. Dist(e, w) : e' = Dist(e, k)
      BY <1>12 DEF KillLine
  <2>2. Dist(e, w) = Dist(e, r) - Dist(w, r)
      BY Between
  <2>3. k \in 0 .. Dist(e, r)
      BY <2>1, <2>2, Distances
  <2>4. Dist(e', r) = Dist(e, r) - k
      BY <2>1, <2>3, Walks
  <2>5. Dist(w, r) <= Dist(e', r) /\ Dist(e', r) <= Dist(e, r) /\ Dist(e', r) \in Nat
      BY <2>1, <2>2, <2>4, Distances
  <2>6. QED
      BY <1>12, <2>5, Distances DEF KillLine
<1>13. CASE Backspace
  <2>1. Dist(e, w) = Dist(e, r) - Dist(w, r)
      BY Between
  <2>2. Dist(e, w) > 0
      BY <1>13, Moves, Distances DEF Backspace
  <2>3. Dist(e', r) = Dist(e, r) - 1
    <3>1. e # r
        BY <2>1, <2>2, Moves, Distances
    <3>2. QED
        BY <1>13, <3>1, Moves DEF Backspace
  <2>4. Dist(w, r) <= Dist(e', r) /\ Dist(e', r) < Dist(e, r) /\ Dist(e', r) \in Nat
      BY <2>1, <2>2, <2>3, Distances
  <2>5. QED
      BY <1>13, <2>4, Distances DEF Backspace
<1>14. ASSUME NEW key \in Keys, Store(key) PROVE Spanned'
  <2>1. /\ e' = Plus(e, 1) /\ w' \in {w, Plus(e, 1)} /\ r' = r
        /\ pc' = pc /\ ch' = ch /\ left' = left /\ target' = target
      BY <1>14 DEF Store
  <2>2. Dist(e, r) < INPUT_BUF
      BY <1>14 DEF Store, Room
  <2>3. Dist(e', r) = Dist(e, r) + 1
    <3>1. Dist(e, r) + 1 < IdxMod
        BY <2>2, Distances
    <3>2. QED
        BY <2>1, <3>1, Moves
  <2>4. Dist(e', r) <= Cap /\ Dist(w', r) <= Dist(e', r)
      BY <2>1, <2>2, <2>3, Distances
  <2>5. ASSUME NEW q \in Readers, Racing(q) PROVE Dist(e', r) < Cap
    <3>1. RacyTyping \/ Dist(e, r) # INPUT_BUF - 1
        BY <1>14, <2>5 DEF Store, Room
    <3>2. QED
        BY <2>2, <2>3, <3>1, Distances, BufAssumption DEF Cap
  <2>6. ASSUME NEW q \in Readers, pc[q] \in {"take", "bump"} PROVE r # w'
    <3>1. r # w
        BY <2>6
    <3>2. Dist(e', r) > 0 /\ e' \in Index
        BY <2>1, <2>3, Distances, Typed
    <3>3. r # e'
        BY <3>2, Moves
    <3>4. QED
        BY <2>1, <3>1, <3>3
  <2>7. QED
      BY <2>1, <2>4, <2>5, <2>6
<1>15. CASE UNCHANGED vars
    BY <1>15 DEF vars
<1>16. QED
    BY <1>1, <1>2, <1>3, <1>4, <1>5, <1>6, <1>7, <1>8,
       <1>9, <1>10, <1>11, <1>12, <1>13, <1>14, <1>15 DEF Next, ReaderStep, Keyboard

(* The first state is in order.                                             *)
LEMMA OrderInit == Init => OInv
<1> SUFFICES ASSUME Init PROVE OInv
    OBVIOUS
<1>1. 0 \in Index
    BY BufAssumption DEF Index
<1>2. TypeOK
    BY <1>1 DEF Init, TypeOK
<1>3. \A p \in Readers : Turn(p)
    BY NoneAssumption DEF Init, Turn
<1>4. Dist(w, r) = 0 /\ Dist(e, r) = 0
    BY <1>1, Moves DEF Init
<1>5. \A p \in Readers : ~Racing(p) /\ pc[p] = "user"
    BY DEF Init, Racing
<1>6. Spanned
    BY <1>4, <1>5, BufAssumption DEF Spanned, Cap
<1>7. QED
    BY <1>2, <1>3, <1>6 DEF OInv

(* Every step keeps the order.                                              *)
LEMMA OrderStep == OInv /\ [Next]_vars => OInv'
    BY TypeStep, TurnStep, SpanStep DEF OInv

(* A key is stored at e, which is no place of another index that the ring   *)
(* is not long enough to reach.                                             *)
LEMMA StoreKeeps ==
    ASSUME TypeOK, NEW key \in Keys, Store(key)
    PROVE  \A i \in Index : Dist(e, i) \in 1 .. INPUT_BUF - 1 =>
               buf'[i % INPUT_BUF] = buf[i % INPUT_BUF]
<1> SUFFICES ASSUME NEW i \in Index, Dist(e, i) \in 1 .. INPUT_BUF - 1
             PROVE  buf'[i % INPUT_BUF] = buf[i % INPUT_BUF]
    OBVIOUS
<1>1. Plus(i, Dist(e, i)) = e
    BY Walks, IndexFacts DEF TypeOK
<1>2. e % INPUT_BUF # i % INPUT_BUF
    BY <1>1, Apart
<1>3. i % INPUT_BUF \in 0 .. INPUT_BUF - 1
    BY PlaceFacts
<1>4. buf' = [buf EXCEPT ![e % INPUT_BUF] = IF key = "cr" THEN "nl" ELSE key]
    BY DEF Store
<1>5. QED
    BY <1>2, <1>3, <1>4 DEF TypeOK

(* Without its first character the text is text.                            *)
LEMMA LaterStored ==
    CInv /\ r # e =>
        \A k \in 0 .. Dist(e, Plus(r, 1)) - 1 : At(Plus(Plus(r, 1), k)) \in Stored
<1> SUFFICES ASSUME CInv, r # e, NEW k \in 0 .. Dist(e, Plus(r, 1)) - 1
             PROVE  At(Plus(Plus(r, 1), k)) \in Stored
    OBVIOUS
<1>1. Dist(e, Plus(r, 1)) = Dist(e, r) - 1 /\ Dist(e, r) \in Nat
    BY Moves, Distances DEF CInv, OInv, TypeOK
<1>2. 1 + k \in 0 .. Dist(e, r) - 1 /\ k \in 0 .. Dist(e, r) - 1
    BY <1>1
<1>3. Plus(Plus(r, 1), k) = Plus(r, 1 + k)
    BY <1>2, NextPlaces DEF CInv, OInv, TypeOK
<1>4. QED
    BY <1>2, <1>3 DEF CInv, Contents

(* The places in use keep what was typed into them.                         *)
LEMMA ContentsStep == CInv /\ RacyTyping = FALSE /\ [Next]_vars => Contents'
<1> SUFFICES ASSUME CInv /\ RacyTyping = FALSE, [Next]_vars PROVE Contents'
    OBVIOUS
<1> USE BufAssumption, NoneAssumption
<1> USE DEF CInv, OInv, TypeOK, Turn, Racing, input, local, Contents, At
<1>1. ASSUME NEW p \in Readers, Read(p) PROVE Contents'
    BY <1>1 DEF Read, Here, Goto
<1>2. ASSUME NEW p \in Readers, Check(p) PROVE Contents'
    BY <1>2 DEF Check, Here, Goto
<1>3. ASSUME NEW p \in Readers, SleepEnter(p) PROVE Contents'
    BY <1>3 DEF SleepEnter, Here, Goto
<1>4. ASSUME NEW p \in Readers, SleepYield(p) PROVE Contents'
    BY <1>4 DEF SleepYield, Here, Goto
<1>5. ASSUME NEW p \in Readers, Join(p) PROVE Contents'
    BY <1>5 DEF Join, Here, Goto
<1>6. ASSUME NEW p \in Readers, Take(p) PROVE Contents'
  <2>1. r # w /\ r # e /\ r \in Index /\ Plus(r, 0) = r /\ Dist(e, r) > 0
      BY <1>6, Unread, Nowhere, Moves, Distances DEF Take, Here, Spanned
  <2>2. At(r) \in Stored
      BY <2>1, Distances
  <2>3. \A q \in Readers : q # p => pc'[q] \in {"user", "asleep"}
      BY <1>6, Alone DEF Take, Here, Goto
  <2>4. CASE r' = r /\ pc' = [pc EXCEPT ![p] = "bump"] /\ ch' = [ch EXCEPT ![p] = At(r)]
      BY <1>6, <2>1, <2>2, <2>3, <2>4 DEF Take
  <2>5. CASE r' = Plus(r, 1) /\ pc' = [pc EXCEPT ![p] = "load"] /\ ch' = ch
    <3>1. Dist(e, r') = Dist(e, r) - 1 /\ Dist(r', 1) = r
        BY <2>1, <2>5, Moves
    <3>2. \A k \in 0 .. Dist(e, r') - 1 : At(Plus(r', k)) \in Stored
        BY <2>1, <2>5, LaterStored
    <3>3. QED
        BY <1>6, <2>2, <2>3, <2>5, <3>1, <3>2 DEF Take
  <2>6. QED
      BY <1>6, <2>4, <2>5 DEF Take, Goto
<1>7. ASSUME NEW p \in Readers, TakeLoad(p) PROVE Contents'
    BY <1>7 DEF TakeLoad, Here, Goto
<1>8. ASSUME NEW p \in Readers, TakeStore(p) PROVE Contents'
  <2>1. r # w /\ r # e /\ r \in Index /\ Plus(r, 0) = r /\ Dist(e, r) > 0
      BY <1>8, Unread, Nowhere, Moves, Distances DEF TakeStore, Here, Spanned
  <2>2. At(r) \in Stored /\ ch[p] = At(r)
      BY <1>8, <2>1, Distances DEF TakeStore, Here
  <2>3. \A q \in Readers : q # p => pc'[q] \in {"user", "asleep"}
      BY <1>8, Alone DEF TakeStore, Here, Goto
  <2>4. r' = Plus(r, 1) /\ Dist(r', 1) = r
      BY <1>8, Moves DEF TakeStore
  <2>5. \A k \in 0 .. Dist(e, r') - 1 : At(Plus(r', k)) \in Stored
      BY <2>1, <2>4, LaterStored
  <2>6. QED
      BY <1>8, <2>2, <2>3, <2>4, <2>5 DEF TakeStore, Goto
<1>9. ASSUME NEW p \in Readers, GotEof(p) PROVE Contents'
  <2>1. \A q \in Readers : pc'[q] \in {"user", "asleep"}
      BY <1>9, Alone DEF GotEof, ReturnToUser, Here
  <2>2. buf' = buf /\ w' = w /\ e' = e
      BY <1>9 DEF GotEof
  <2>3. CASE r' = r
      BY <2>1, <2>2, <2>3
  <2>4. CASE r' = Dist(r, 1) /\ Racing(p)
    <3>1. At(Dist(r, 1)) = "eof" /\ Dist(r, 1) \in Index /\ Plus(Dist(r, 1), 1) = r
        BY <1>9, <2>4, Typed, Moves DEF GotEof, Here
    <3>2. Dist(e, Dist(r, 1)) = Dist(e, r) + 1
      <4>1. /\ Dist(e, r) \in Nat /\ Cap \in Nat /\ Cap < IdxMod /\ Dist(e, r) < Cap
          BY <2>4, Distances DEF Spanned
      <4>2. Dist(e, r) + 1 < IdxMod
          BY <4>1
      <4>3. QED
          BY <4>2, Moves
    <3>3. ASSUME NEW k \in 0 .. Dist(e, r') - 1 PROVE At(Plus(r', k)) \in Stored
      <4>1. CASE k = 0
          BY <2>4, <3>1, <4>1, Nowhere DEF Stored, Special
      <4>2. CASE k > 0
        <5>1. k - 1 \in 0 .. Dist(e, r) - 1 /\ 1 + (k - 1) = k
            BY <2>4, <3>2, <4>2, Distances
        <5>2. e # Dist(r, 1)
            BY <3>1, <3>2, Moves, Distances
        <5>3. Plus(r, k - 1) = Plus(Dist(r, 1), k)
            BY <3>1, <3>2, <5>1, <5>2, NextPlaces, Distances
        <5>4. QED
            BY <2>4, <5>1, <5>3
      <4>3. QED
          BY <4>1, <4>2
    <3>4. QED
        BY <2>1, <2>2, <3>3
  <2>5. QED
      BY <1>9, <2>3, <2>4 DEF GotEof, Here
<1>10. ASSUME NEW p \in Readers, GotLast(p) PROVE Contents'
    BY <1>10 DEF GotLast, ReturnToUser, Here
<1>11. ASSUME NEW p \in Readers, GotMore(p) PROVE Contents'
    BY <1>11 DEF GotMore, Here, Goto
<1>12. CASE KillLine
  <2>1. PICK k \in 0 .. Dist(e, w) : e' = Dist(e, k)
      BY <1>12 DEF KillLine
  <2>2. Dist(e, w) = Dist(e, r) - Dist(w, r)
      BY Between DEF Spanned
  <2>3. /\ k \in 0 .. Dist(e, r) /\ k \in Nat
        /\ Dist(e, r) \in Nat /\ Dist(e, w) \in Nat
      BY <2>1, <2>2, Distances
  <2>4. Dist(e', r) = Dist(e, r) - k /\ Dist(e', w) = Dist(e, w) - k
      BY <2>1, <2>3, Walks
  <2>5. /\ 0 .. Dist(e', r) - 1 \subseteq 0 .. Dist(e, r) - 1
        /\ 0 .. Dist(e', w) - 1 \subseteq 0 .. Dist(e, w) - 1
      BY <2>3, <2>4
  <2>6. QED
      BY <1>12, <2>5 DEF KillLine
<1>13. CASE Backspace
  <2>1. e # w /\ e # r
    <3>1. Dist(e, w) = Dist(e, r) - Dist(w, r)
        BY Between DEF Spanned
    <3>2. Dist(e, w) > 0
        BY <1>13, Moves, Distances DEF Backspace
    <3>3. QED
        BY <3>1, <3>2, Moves, Distances
  <2>2. Dist(e', r) = Dist(e, r) - 1 /\ Dist(e', w) = Dist(e, w) - 1
      BY <1>13, <2>1, Moves DEF Backspace
  <2>3. /\ 0 .. Dist(e', r) - 1 \subseteq 0 .. Dist(e, r) - 1
        /\ 0 .. Dist(e', w) - 1 \subseteq 0 .. Dist(e, w) - 1
      BY <2>2, Distances
  <2>4. QED
      BY <1>13, <2>3 DEF Backspace
<1>14. ASSUME NEW key \in Keys, Store(key) PROVE Contents'
  <2>1. PICK c \in Stored :
            /\ buf' = [buf EXCEPT ![e % INPUT_BUF] = c]
            /\ e' = Plus(e, 1) /\ r' = r
            /\ pc' = pc /\ left' = left /\ target' = target /\ ch' = ch
            /\ w' = e' \/ (w' = w /\ ~Commits(c, e'))
      BY <1>14, StoreEffect
  <2>2. /\ e \in Index /\ e' \in Index /\ r \in Index /\ w \in Index
        /\ w' = e' \/ (w' = w /\ c \notin Special)
      BY <2>1, Typed DEF Commits
  <2>3. buf'[e % INPUT_BUF] = c
      BY <2>1, <2>2, PlaceFacts
  <2>4. /\ Dist(e, r) \in Nat /\ Dist(e, w) \in Nat /\ Dist(w, r) \in Nat
        /\ Dist(e, r) < INPUT_BUF /\ Dist(e, w) <= Dist(e, r)
      BY <1>14, StoreSpan
  <2>5. Dist(e', r) = Dist(e, r) + 1 /\ Dist(e', w) = Dist(e, w) + 1
      BY <1>14, <2>1, StoreSpan
  <2>6. ASSUME NEW k \in 0 .. Dist(e', r) - 1 PROVE buf'[Plus(r, k) % INPUT_BUF] \in Stored
    <3>1. CASE k = Dist(e, r)
        BY <2>2, <2>3, <2>4, <3>1, Walks
    <3>2. CASE k < Dist(e, r)
      <4>1. k \in 0 .. Dist(e, r) - 1 /\ k \in 0 .. Dist(e, r)
          BY <2>4, <2>5, <3>2
      <4>2. Plus(r, k) \in Index /\ Dist(e, Plus(r, k)) \in 1 .. INPUT_BUF - 1
          BY <2>4, <4>1, Rest
      <4>3. QED
          BY <1>14, <4>1, <4>2, StoreKeeps
    <3>3. QED
        BY <2>4, <2>5, <3>1, <3>2
  <2>7. ASSUME w' = w, c \notin Special, NEW k \in 0 .. Dist(e', w) - 1
        PROVE  buf'[Plus(w, k) % INPUT_BUF] \notin Special
    <3>1. CASE k = Dist(e, w)
        BY <2>2, <2>3, <2>4, <2>7, <3>1, Walks
    <3>2. CASE k < Dist(e, w)
      <4>1. k \in 0 .. Dist(e, w) - 1 /\ k \in 0 .. Dist(e, w)
          BY <2>4, <2>5, <3>2
      <4>2. Plus(w, k) \in Index /\ Dist(e, Plus(w, k)) \in 1 .. INPUT_BUF - 1
          BY <2>4, <4>1, Rest
      <4>3. QED
          BY <1>14, <4>1, <4>2, StoreKeeps
    <3>3. QED
        BY <2>4, <2>5, <3>1, <3>2
  <2>8. w' = e' => Dist(e', w') = 0
      BY <2>2, Moves
  <2>9. ASSUME NEW q \in Readers, Racing(q)
        PROVE  buf'[Dist(r, 1) % INPUT_BUF] = buf[Dist(r, 1) % INPUT_BUF]
    <3>1. Dist(e, r) < INPUT_BUF - 1
      <4>1. Room
          BY <1>14 DEF Store
      <4>2. Dist(e, r) # INPUT_BUF - 1
          BY <2>9, <4>1 DEF Room
      <4>3. INPUT_BUF \in Nat
          OBVIOUS
      <4>4. QED
          BY ONLY <2>4, <4>2, <4>3
    <3>2. Dist(e, Dist(r, 1)) = Dist(e, r) + 1
      <4>1. Dist(e, r) + 1 < IdxMod
          BY <2>4, BufAssumption
      <4>2. QED
          BY <4>1, Moves
    <3>3. Dist(r, 1) \in Index /\ Dist(e, Dist(r, 1)) \in 1 .. INPUT_BUF - 1
        BY <2>4, <3>1, <3>2, Typed
    <3>4. QED
        BY <1>14, <3>3, StoreKeeps
  <2>10. ASSUME NEW q \in Readers, pc[q] = "bump"
         PROVE  buf'[r % INPUT_BUF] = buf[r % INPUT_BUF]
    <3>1. r # e
        BY <2>10, Unread DEF Spanned
    <3>2. Dist(e, r) \in 1 .. INPUT_BUF - 1
        BY <2>4, <3>1, Moves
    <3>3. QED
        BY <1>14, <3>2, StoreKeeps
  <2>11. \A k \in 0 .. Dist(e', r') - 1 : buf'[Plus(r', k) % INPUT_BUF] \in Stored
      BY <2>1, <2>6
  <2>12. \A k \in 0 .. Dist(e', w') - 1 : buf'[Plus(w', k) % INPUT_BUF] \notin Special
      BY <2>1, <2>2, <2>7, <2>8
  <2>13. QED
      BY <2>1, <2>9, <2>10, <2>11, <2>12
<1>15. CASE UNCHANGED vars
    BY <1>15 DEF vars
<1>16. QED
    BY <1>1, <1>2, <1>3, <1>4, <1>5, <1>6, <1>7, <1>8,
       <1>9, <1>10, <1>11, <1>12, <1>13, <1>14, <1>15 DEF Next, ReaderStep, Keyboard

(* A character taken either ends the read or leaves enough for the rest.    *)
LEMMA EnoughNext ==
    ASSUME TypeOK, r # w, NEW n \in Int, Enough(buf, w, r, n)
    PROVE  At(r) \in Special \/ Enough(buf, w, Plus(r, 1), n - 1)
<1>1. r \in Index /\ w \in Index /\ Plus(r, 1) \in Index /\ Plus(r, 0) = r
    BY Typed, Nowhere DEF TypeOK
<1>2. Dist(w, Plus(r, 1)) = Dist(w, r) - 1 /\ Dist(w, r) \in Nat
    BY <1>1, Moves, Distances
<1>3. CASE n <= Dist(w, r)
    BY <1>2, <1>3 DEF Enough, At
<1>4. CASE \E k \in 0 .. Dist(w, r) - 1 : At(Plus(r, k)) \in Special
  <2>1. PICK k \in 0 .. Dist(w, r) - 1 : At(Plus(r, k)) \in Special
      BY <1>4
  <2>2. CASE k = 0
      BY <1>1, <2>1, <2>2
  <2>3. CASE k > 0
    <3>1. k - 1 \in 0 .. Dist(w, r) - 1 /\ 1 + (k - 1) = k
          /\ k - 1 \in 0 .. Dist(w, Plus(r, 1)) - 1
        BY <1>2, <2>1, <2>3
    <3>2. Plus(Plus(r, 1), k - 1) = Plus(r, k)
        BY <1>1, <3>1, NextPlaces
    <3>3. QED
        BY <2>1, <3>1, <3>2 DEF Enough, At
  <2>4. QED
      BY <1>2, <2>2, <2>3
<1>5. QED
    BY <1>3, <1>4 DEF Enough, At

(* What an index before the committed text is worth survives a key that     *)
(* commits nothing.                                                         *)
LEMMA EnoughKept ==
    ASSUME OInv, NEW key \in Keys, Store(key), w' = w, NEW i \in Index, NEW n \in Int,
           Dist(w, i) <= Dist(e, i), Dist(e, i) < INPUT_BUF,
           Enough(buf, w, i, n)
    PROVE  Enough(buf', w, i, n)
<1>1. e \in Index /\ w \in Index /\ Dist(w, i) \in Nat /\ Dist(e, i) \in Nat
    BY IndexFacts, BufAssumption DEF OInv, TypeOK, Index
<1>2. ASSUME NEW k \in 0 .. Dist(w, i) - 1
      PROVE  buf'[Plus(i, k) % INPUT_BUF] = At(Plus(i, k))
  <2>1. k \in 0 .. Dist(e, i)
      BY <1>1
  <2>2. Plus(i, k) \in Index /\ Dist(e, Plus(i, k)) = Dist(e, i) - k
      BY <1>1, <2>1, Rest
  <2>3. Dist(e, Plus(i, k)) \in 1 .. INPUT_BUF - 1
      BY <1>1, <2>2, BufAssumption
  <2>4. QED
      BY <2>2, <2>3, StoreKeeps DEF OInv, At
<1>3. QED
    BY <1>2 DEF Enough, At

(* A key that commits leaves enough for any read the ring can serve.        *)
LEMMA EnoughCommitted ==
    ASSUME OInv, NEW key \in Keys, Store(key), w' = e',
           NEW i \in Index, NEW d \in 0 .. 1, Plus(r, d) = i, Dist(e, i) = Dist(e, r) - d,
           Dist(e, r) >= d, NEW n \in Int, n <= INPUT_BUF - d
    PROVE  Enough(buf', w', i, n)
<1>1. /\ e \in Index /\ w \in Index /\ r \in Index
      /\ Dist(e, i) \in Nat /\ Dist(e, r) \in Nat /\ Dist(e, r) < INPUT_BUF
  <2>1. Dist(e, r) \in Nat /\ Dist(e, r) < INPUT_BUF
      BY StoreSpan
  <2>2. QED
      BY <2>1 DEF OInv, TypeOK
<1>2. PICK c \in Stored :
          /\ buf' = [buf EXCEPT ![e % INPUT_BUF] = c]
          /\ e' = Plus(e, 1)
          /\ Commits(c, e') \/ w' = w
    BY StoreEffect
<1>3. Dist(w', i) = Dist(e, i) + 1
  <2>1. Dist(e, i) + 1 < IdxMod
      BY <1>1, BufAssumption
  <2>2. QED
      BY <1>1, <1>2, <2>1, Moves
<1>4. Plus(i, Dist(e, i)) = e
    BY <1>1, Walks
<1>5. CASE c \in Special
  <2>1. buf'[Plus(i, Dist(e, i)) % INPUT_BUF] = c
      BY <1>1, <1>2, <1>4, PlaceFacts DEF OInv, TypeOK
  <2>2. Dist(e, i) \in 0 .. Dist(w', i) - 1
      BY <1>1, <1>3
  <2>3. QED
      BY <1>5, <2>1, <2>2 DEF Enough
<1>6. CASE e' = Plus(r, INPUT_BUF)
  <2>1. Dist(e', r) = Dist(e, r) + 1
      BY <1>2, StoreSpan
  <2>2. Dist(e', r) = INPUT_BUF
    <3>1. INPUT_BUF \in Index
        BY BufAssumption DEF Index
    <3>2. /\ Plus(r, INPUT_BUF) \in Index
          /\ Plus(r, INPUT_BUF) = IF r + INPUT_BUF < IdxMod THEN r + INPUT_BUF
                                  ELSE r + INPUT_BUF - IdxMod
        BY <1>1, <3>1, IndexFacts
    <3>3. Dist(e', r) = IF r <= e' THEN e' - r ELSE e' - r + IdxMod
        BY <1>1, <1>6, <3>2, IndexFacts
    <3>4. QED
        BY <1>1, <1>6, <3>1, <3>2, <3>3, BufAssumption DEF Index
  <2>3. QED
      BY <1>1, <1>3, <2>1, <2>2 DEF Enough
<1>7. CASE w' = w /\ c \notin Special
  <2>1. Dist(w, r) = Dist(e, r) + 1
      BY <1>2, <1>7, StoreSpan
  <2>2. QED
      BY <1>1, <2>1 DEF OInv, Spanned
<1>8. QED
    BY <1>2, <1>5, <1>6, <1>7 DEF Commits

(* The reader tests with interrupts on only what cannot be empty.           *)
LEMMA ServedStep == WInv /\ OneMaskedReader /\ [Next]_vars => (\A q \in Readers : Served(q))'
<1> SUFFICES ASSUME WInv /\ OneMaskedReader, [Next]_vars PROVE (\A q \in Readers : Served(q))'
    OBVIOUS
<1> USE BufAssumption, NoneAssumption
<1> USE DEF WInv, OneMaskedReader, OInv, TypeOK, Turn, Served, At, input, local
<1>1. ASSUME NEW p \in Readers, Read(p) PROVE (\A q \in Readers : Served(q))'
  <2>1. ~irqOn'
      BY Zenon, <1>1 DEF Read
  <2>2. PICK n \in Counts : left' = [left EXCEPT ![p] = n]
      BY <1>1 DEF Read
  <2>3. QED
      BY <1>1, <2>1, <2>2 DEF Read, Here, Goto
<1>2. ASSUME NEW p \in Readers, Check(p) PROVE (\A q \in Readers : Served(q))'
  <2>1. ASSUME irqOn PROVE r # w
    <3>1. Enough(buf, w, r, left[p]) /\ left[p] \in 1 .. INPUT_BUF
        BY <1>2, <2>1 DEF Check, Here
    <3>2. r = w => Dist(w, r) = 0
        BY Moves
    <3>3. QED
        BY <3>1, <3>2 DEF Enough
  <2>2. QED
      BY <1>2, <2>1 DEF Check, Here, Goto
<1>3. ASSUME NEW p \in Readers, SleepEnter(p) PROVE (\A q \in Readers : Served(q))'
    BY <1>3 DEF SleepEnter, Here, Goto
<1>4. ASSUME NEW p \in Readers, SleepYield(p) PROVE (\A q \in Readers : Served(q))'
    BY <1>4 DEF SleepYield, Here, Goto
<1>5. ASSUME NEW p \in Readers, Join(p) PROVE (\A q \in Readers : Served(q))'
    BY <1>5 DEF Join, Here, Goto
<1>6. ASSUME NEW p \in Readers, Take(p) PROVE (\A q \in Readers : Served(q))'
  <2>1. r # w /\ left[p] \in 1 .. INPUT_BUF
      BY <1>6, Unread DEF Take, Here, Spanned
  <2>2. irqOn => At(r) \in Special \/ Enough(buf, w, Plus(r, 1), left[p] - 1)
      BY <1>6, <2>1, EnoughNext DEF Take, Here
  <2>3. Dist(Plus(r, 1), 1) = r
      BY Moves
  <2>4. QED
      BY <1>6, <2>1, <2>2, <2>3 DEF Take, Here, Goto, At
<1>7. ASSUME NEW p \in Readers, TakeLoad(p) PROVE (\A q \in Readers : Served(q))'
    BY <1>7 DEF TakeLoad, Here, Goto
<1>8. ASSUME NEW p \in Readers, TakeStore(p) PROVE (\A q \in Readers : Served(q))'
    BY <1>8 DEF TakeStore, Here, Goto
<1>9. ASSUME NEW p \in Readers, GotEof(p) PROVE (\A q \in Readers : Served(q))'
    BY <1>9 DEF GotEof, ReturnToUser, Here
<1>10. ASSUME NEW p \in Readers, GotLast(p) PROVE (\A q \in Readers : Served(q))'
    BY <1>10 DEF GotLast, ReturnToUser, Here
<1>11. ASSUME NEW p \in Readers, GotMore(p) PROVE (\A q \in Readers : Served(q))'
    BY <1>11 DEF GotMore, Here, Goto
<1>12. CASE KillLine
    BY <1>12 DEF KillLine
<1>13. CASE Backspace
    BY <1>13 DEF Backspace
<1>14. ASSUME NEW key \in Keys, Store(key) PROVE (\A q \in Readers : Served(q))'
  <2>1. PICK c \in Stored :
            /\ e' = Plus(e, 1) /\ r' = r
            /\ pc' = pc /\ left' = left /\ target' = target /\ ch' = ch
            /\ irqOn' = irqOn
            /\ \/ /\ Commits(c, e') /\ w' = e'
                  /\ pstate' = [q \in Readers |->
                       IF pstate[q] = "SLEEPING" THEN "RUNNABLE" ELSE pstate[q]]
               \/ ~Commits(c, e') /\ w' = w /\ pstate' = pstate
      BY <1>14, StoreEffect
  <2>2. /\ irqOn /\ r \in Index /\ w \in Index /\ e \in Index /\ Plus(r, 0) = r
        /\ Dist(e, r) \in Nat /\ Dist(e, r) < INPUT_BUF /\ Dist(w, r) <= Dist(e, r)
      BY <1>14, StoreSpan, Nowhere DEF Store, Spanned
  <2>3. ASSUME NEW q \in Readers, pc[q] \in {"take", "bump"}
        PROVE  /\ Plus(r, 1) \in Index
               /\ Dist(e, Plus(r, 1)) = Dist(e, r) - 1 /\ Dist(w, Plus(r, 1)) = Dist(w, r) - 1
               /\ Dist(e, r) >= 1
    <3>1. r # w /\ r # e
        BY <2>3, Unread DEF Spanned
    <3>2. QED
        BY <2>2, <3>1, Moves, Typed
  <2>4. CASE w' = e' /\ pstate' = [q \in Readers |->
                     IF pstate[q] = "SLEEPING" THEN "RUNNABLE" ELSE pstate[q]]
    <3>1. \A n \in Int : n <= INPUT_BUF => Enough(buf', w', r, n)
      <4>1. Dist(e, r) = Dist(e, r) - 0 /\ Dist(e, r) >= 0
          BY <2>2
      <4>2. QED
          BY <1>14, <2>2, <2>4, <4>1, EnoughCommitted
    <3>2. ASSUME NEW q \in Readers, pc[q] = "bump", NEW n \in Int, n <= INPUT_BUF - 1
          PROVE  Enough(buf', w', Plus(r, 1), n)
        BY <1>14, <2>3, <2>4, <3>2, EnoughCommitted
    <3>3. ASSUME NEW q \in Readers PROVE Served(q)'
      <4>1. pstate'[q] # "SLEEPING" /\ pc[q] # "enter"
          BY <2>2, <2>4
      <4>2. pc[q] # "user" => /\ Enough(buf', w', r, left[q])
                              /\ Enough(buf', w', r, left[q] - 1)
          BY <3>1
      <4>3. pc[q] = "bump" => Enough(buf', w', Plus(r, 1), left[q] - 1)
          BY <3>2
      <4>4. QED
          BY <2>1, <4>1, <4>2, <4>3
    <3>4. QED
        BY <3>3
  <2>5. CASE ~Commits(c, e') /\ w' = w /\ pstate' = pstate
    <3>1. \A n \in Int : Enough(buf, w, r, n) => Enough(buf', w, r, n)
        BY <1>14, <2>2, <2>5, EnoughKept
    <3>2. ASSUME NEW q \in Readers, pc[q] = "bump", NEW n \in Int,
                 Enough(buf, w, Plus(r, 1), n)
          PROVE  Enough(buf', w, Plus(r, 1), n)
      <4>1. /\ Dist(w, Plus(r, 1)) <= Dist(e, Plus(r, 1))
            /\ Dist(e, Plus(r, 1)) < INPUT_BUF /\ Plus(r, 1) \in Index
          BY <2>2, <2>3, <3>2, Distances
      <4>2. QED
          BY <1>14, <2>5, <3>2, <4>1, EnoughKept
    <3>3. buf'[Dist(r, 1) % INPUT_BUF] = buf[Dist(r, 1) % INPUT_BUF]
      <4>1. Dist(e, r) # INPUT_BUF - 1
        <5>1. CASE Dist(e, r) = INPUT_BUF - 1
          <6>1. Plus(e, 1) = Plus(r, INPUT_BUF)
            <7>1. Dist(e, r) + 1 < IdxMod
                BY <2>2, BufAssumption
            <7>2. Dist(Plus(e, 1), r) = INPUT_BUF /\ Plus(e, 1) \in Index
              <8>1. Dist(Plus(e, 1), r) = Dist(e, r) + 1 /\ Plus(e, 1) \in Index
                  BY <2>2, <7>1, Moves, Typed
              <8>2. QED
                  BY <5>1, <8>1, BufAssumption
            <7>3. Plus(r, Dist(Plus(e, 1), r)) = Plus(e, 1)
              <8>1. 0 \in 0 .. Dist(Plus(e, 1), r)
                  BY <7>2, BufAssumption
              <8>2. QED
                  BY <2>2, <7>2, <8>1, Walks
            <7>4. QED
                BY <7>2, <7>3
          <6>2. QED
              BY <2>1, <2>5, <6>1 DEF Commits
        <5>2. QED
            BY <5>1
      <4>2. Dist(e, Dist(r, 1)) = Dist(e, r) + 1 /\ Dist(r, 1) \in Index
        <5>1. Dist(e, r) + 1 < IdxMod
            BY <2>2, BufAssumption
        <5>2. QED
            BY <2>2, <5>1, Moves, Typed
      <4>3. Dist(e, Dist(r, 1)) \in 1 .. INPUT_BUF - 1
          BY <2>2, <4>1, <4>2
      <4>4. QED
          BY <1>14, <4>2, <4>3, StoreKeeps
    <3>4. ASSUME NEW q \in Readers PROVE Served(q)'
      <4>1. pc[q] # "user" => left[q] \in Int /\ left[q] - 1 \in Int
          OBVIOUS
      <4>2. QED
          BY <2>1, <2>2, <2>5, <3>1, <3>2, <3>3, <3>4, <4>1
    <3>5. QED
        BY <3>4
  <2>6. QED
      BY <2>1, <2>4, <2>5
<1>15. CASE UNCHANGED vars
    BY <1>15 DEF vars
<1>16. QED
    BY <1>1, <1>2, <1>3, <1>4, <1>5, <1>6, <1>7, <1>8,
       <1>9, <1>10, <1>11, <1>12, <1>13, <1>14, <1>15 DEF Next, ReaderStep, Keyboard

(* Every index, count, character and place keeps its type; in particular no *)
(* index leaves its unsigned range and no read count passes below zero.     *)
THEOREM TypeCorrect == Spec => []TypeOK
<1>1. Init => TypeOK
    BY OrderInit DEF OInv
<1>2. QED
    BY <1>1, TypeStep, PTL DEF Spec

(* With any typing at all, the text spans the ring and at most one place    *)
(* more: the one an end of file is put back to after a key took it.         *)
THEOREM SpanBounded ==
    Spec => [](Dist(w, r) <= Dist(e, r) /\ Dist(e, r) <= INPUT_BUF + 1)
<1>1. OInv => Dist(w, r) <= Dist(e, r) /\ Dist(e, r) <= INPUT_BUF + 1
  <2> SUFFICES ASSUME OInv PROVE Dist(w, r) <= Dist(e, r) /\ Dist(e, r) <= INPUT_BUF + 1
      OBVIOUS
  <2>1. Dist(e, r) \in Nat
      BY Distances DEF OInv
  <2>2. QED
      BY <2>1, BufAssumption DEF OInv, Spanned, Cap
<1>2. QED
    BY <1>1, OrderInit, OrderStep, PTL DEF Spec

(* Without the race of console.c:27 and :31 the indices keep their order    *)
(* and the text fits the ring, however often the counters wrap around.      *)
THEOREM IndicesOrdered ==
    ASSUME RacyTyping = FALSE
    PROVE  Spec => []IndexOrder
<1>1. OInv => IndexOrder
    BY DEF OInv, Spanned, Cap, IndexOrder
<1>2. QED
    BY <1>1, OrderInit, OrderStep, PTL DEF Spec

(* Nobody sleeps on committed input on ARM, with one reader whose reads fit *)
(* the ring: console.c:23 finds the ring empty only with interrupts masked, *)
(* because a line that woke the reader, or a full ring, serves all of it.   *)
THEOREM WakeupKept ==
    ASSUME OneMaskedReader
    PROVE  Spec => []NoLostWakeup
<1>1. Init => WInv
    BY OrderInit DEF WInv, Init, Served
<1>2. WInv /\ [Next]_vars => WInv'
    BY OrderStep, ServedStep DEF WInv
<1>3. WInv => NoLostWakeup
  <2> SUFFICES ASSUME WInv, cpu = None, \A p \in Readers : pstate[p] # "RUNNABLE"
               PROVE  r = w
      BY DEF NoLostWakeup
  <2>1. ASSUME NEW p \in Readers PROVE r = w
      BY <2>1, NoneAssumption DEF WInv, OInv, TypeOK, Turn, Served
  <2>2. QED
      BY <2>1 DEF OneMaskedReader
<1>4. QED
    BY <1>1, <1>2, <1>3, PTL DEF Spec

==============================================================================
