----------------------------- MODULE MemProofs ------------------------------
(* Proofs about ProcMem, for any number of pages, any size of a page and of *)
(* a directory, any number of processes and any programs.                   *)
EXTENDS ProcMem, FiniteSetTheorems, NaturalsInduction, TLAPS

(* A computation's memory.                                                  *)
Words == [0 .. W - 1 -> Int]
States == [mem : [Pages -> Words], free : SUBSET Pages, twice : BOOLEAN, ok : BOOLEAN]

VPs == 0 .. W * W - 1
UserVPs == 0 .. KernelPage - 1

(* The table a directory has for entry i, the page it has for vp; 0 if none. *)
TableAt(s, d, i) == IF Present(s.mem[d][i]) THEN PageOf(s.mem[d][i]) ELSE 0
PageAt(s, d, vp) == IF Present(Pte(s, d, vp)) THEN PageOf(Pte(s, d, vp)) ELSE 0

(* What a page is: an owner, as in Owners, or one of two without.           *)
Spare == <<0, "free", 0>>
InHand == <<0, "hand", 0>>
Role == (0 .. NPages) \X {"free", "hand", "stack", "dir", "table", "page"} \X Int
Loose == {"free", "hand", "stack"}

(* Page pg is given a role.                                                 *)
Give(own, pg, role) == [own EXCEPT ![pg] = role]

(* own says what each page is, for the directories D.                       *)
DirsOwned(own, D) ==
    /\ D \subseteq Pages
    /\ \A d \in D : \A i \in 0 .. DirPages - 1 : d + i \in Pages /\ own[d + i] = <<d, "dir", i>>
    /\ \A pg \in Pages : own[pg][2] = "dir" =>
          own[pg][1] \in D /\ own[pg][3] \in 0 .. DirPages - 1 /\ pg = own[pg][1] + own[pg][3]
TablesOwned(s, own, D) ==
    /\ \A d \in D : \A i \in 0 .. W - 1 : TableAt(s, d, i) # 0 =>
          TableAt(s, d, i) \in Pages /\ own[TableAt(s, d, i)] = <<d, "table", i>>
    /\ \A pg \in Pages : own[pg][2] = "table" =>
          own[pg][1] \in D /\ own[pg][3] \in 0 .. W - 1 /\ TableAt(s, own[pg][1], own[pg][3]) = pg
PagesOwned(s, own, D) ==
    /\ \A d \in D : \A vp \in UserVPs : PageAt(s, d, vp) # 0 =>
          PageAt(s, d, vp) \in Pages /\ own[PageAt(s, d, vp)] = <<d, "page", vp>>
    /\ \A pg \in Pages : own[pg][2] = "page" =>
          own[pg][1] \in D /\ own[pg][3] \in UserVPs /\ PageAt(s, own[pg][1], own[pg][3]) = pg
Layout(s, own, D) ==
    /\ own \in [Pages -> Role]
    /\ \A pg \in Pages : pg \in s.free <=> own[pg] = Spare
    /\ s.twice = FALSE
    /\ DirsOwned(own, D) /\ TablesOwned(s, own, D) /\ PagesOwned(s, own, D)
-----------------------------------------------------------------------------
(* Numbers                                                                  *)

(* A set of natural numbers that is not empty has a least element.          *)
LEMMA Least ==
    ASSUME NEW S \in SUBSET Nat, S # {}
    PROVE  \E x \in S : \A y \in S : x <= y
<1>1. PICK x \in S : \A y \in S : ~(<<y, x>> \in OpToRel(<, Nat))
    BY NatLessThanWellFounded, WFMin
<1>2. \A y \in S : ~(y < x)
    BY <1>1 DEF OpToRel
<1>3. QED
    BY <1>2

(* Quotient and remainder.                                                  *)
LEMMA Quotient ==
    ASSUME NEW w \in Nat \ {0}, NEW n \in Nat
    PROVE  n \div w \in Nat /\ n % w \in 0 .. w - 1 /\ n = w * (n \div w) + (n % w)
    OBVIOUS

(* Division with a known remainder.                                         *)
LEMMA Divided ==
    ASSUME NEW w \in Nat \ {0}, NEW k \in Nat, NEW j \in Nat, j < w
    PROVE  (w * k + j) \div w = k /\ (w * k + j) % w = j
<1>1. (w * k + j) \div w = k
    OBVIOUS
<1>2. (w * k + j) % w = j
    OBVIOUS
<1>3. QED
    BY <1>1, <1>2

(* Page vp is entry vp % W of table vp \div W.                              *)
LEMMA DivMod ==
    ASSUME NEW vp \in VPs
    PROVE  /\ vp \div W \in 0 .. W - 1 /\ vp % W \in 0 .. W - 1
           /\ vp = W * (vp \div W) + (vp % W)
<1>1. vp \in Nat /\ W \in Nat \ {0} /\ vp < W * W
    BY MemSizes DEF VPs
<1>2. vp % W \in 0 .. W - 1 /\ vp \div W \in Nat /\ vp = W * (vp \div W) + (vp % W)
    BY <1>1, Quotient
<1> DEFINE q == vp \div W
<1>3. q \in Nat /\ W * q <= vp
    BY <1>1, <1>2
<1> HIDE DEF q
<1>4. q < W
  <2>1. SUFFICES ASSUME q >= W PROVE FALSE
      BY <1>1, <1>3
  <2>2. W * q >= W * W
      BY <1>1, <1>3, <2>1
  <2>3. W * q \in Nat /\ W * W \in Nat
      BY <1>1, <1>3
  <2>4. QED
      BY <1>1, <1>3, <2>2, <2>3
<1>5. QED
    BY <1>1, <1>2, <1>3, <1>4 DEF q

(* Entries are apart; the kernel's table is the last.                       *)
LEMMA Places ==
    /\ \A v, u \in VPs : v \div W = u \div W /\ v % W = u % W => v = u
    /\ UserVPs \subseteq VPs
    /\ \A vp \in UserVPs : vp \div W \in 0 .. W - 2
    /\ \A i \in 0 .. W - 1 : /\ KernelPage + i \in VPs /\ KernelPage + i \notin UserVPs
                             /\ (KernelPage + i) \div W = W - 1 /\ (KernelPage + i) % W = i
<1>1. W \in Nat \ {0, 1}
    BY MemSizes
<1>2. KernelPage \in Nat /\ KernelPage + W = W * W /\ KernelPage = W * (W - 1)
    BY <1>1 DEF KernelPage
<1>3. \A v, u \in VPs : v \div W = u \div W /\ v % W = u % W => v = u
  <2> SUFFICES ASSUME NEW v \in VPs, NEW u \in VPs, v \div W = u \div W, v % W = u % W
               PROVE  v = u
      OBVIOUS
  <2> DEFINE q == v \div W
  <2> DEFINE m == v % W
  <2>1. v = W * q + m /\ u = W * q + m
      BY DivMod
  <2> HIDE DEF q, m
  <2>2. QED
      BY <2>1
<1>4. UserVPs \subseteq VPs
    BY <1>1, <1>2 DEF UserVPs, VPs
<1>5. \A vp \in UserVPs : vp \div W \in 0 .. W - 2
  <2> SUFFICES ASSUME NEW vp \in UserVPs PROVE vp \div W \in 0 .. W - 2
      OBVIOUS
  <2> DEFINE q == vp \div W
  <2>1. vp \in Nat /\ vp < W * (W - 1) /\ q \in 0 .. W - 1 /\ W * q <= vp
    <3>1. vp \in VPs
        BY <1>4
    <3>2. vp \in Nat /\ vp < W * (W - 1)
        BY <1>2 DEF UserVPs
    <3>3. q \in 0 .. W - 1 /\ vp = W * q + (vp % W) /\ vp % W \in 0 .. W - 1
        BY <3>1, DivMod
    <3> DEFINE m == vp % W
    <3>4. vp = W * q + m /\ m \in Nat
        BY <1>1, <3>3
    <3> HIDE DEF q, m
    <3>5. W * q \in Nat
        BY <1>1, <3>3
    <3>6. QED
        BY <3>2, <3>3, <3>4, <3>5
  <2> HIDE DEF q
  <2>2. q # W - 1
      BY <1>1, <2>1
  <2>3. q \in 0 .. W - 2
      BY <1>1, <2>1, <2>2
  <2>4. QED
      BY <2>3 DEF q
<1>6. ASSUME NEW i \in 0 .. W - 1
      PROVE  /\ KernelPage + i \in VPs /\ KernelPage + i \notin UserVPs
             /\ (KernelPage + i) \div W = W - 1 /\ (KernelPage + i) % W = i
  <2>1. KernelPage + i \in VPs /\ KernelPage + i \notin UserVPs
      BY <1>1, <1>2 DEF VPs, UserVPs
  <2>2. W - 1 \in Nat /\ i \in Nat /\ i < W /\ W \in Nat \ {0}
      BY <1>1
  <2>3. (W * (W - 1) + i) \div W = W - 1 /\ (W * (W - 1) + i) % W = i
      BY <2>2, Divided
  <2>4. QED
      BY <1>2, <2>1, <2>3
<1>7. QED
    BY <1>3, <1>4, <1>5, <1>6
-----------------------------------------------------------------------------
(* Memory                                                                   *)

(* The memories u that a word, or a page, written to s leaves.              *)
Wrote(s, u, pg) ==
    /\ u \in States /\ u.free = s.free /\ u.twice = s.twice /\ (u.ok <=> s.ok)
    /\ \A q \in Pages : q # pg => u.mem[q] = s.mem[q]

PutWord(s, pg, j, v) == [s EXCEPT !.mem[pg][j] = v]
PutPage(s, pg, x) == [s EXCEPT !.mem[pg] = x]

(* A word is written.                                                       *)
LEMMA WriteWord ==
    ASSUME NEW s \in States, NEW pg, NEW j, NEW v \in Int
    PROVE  /\ Wrote(s, PutWord(s, pg, j, v), pg)
           /\ pg \in Pages => \A k \in 0 .. W - 1 :
                 PutWord(s, pg, j, v).mem[pg][k] = IF k = j THEN v ELSE s.mem[pg][k]
    BY DEF States, Words, Wrote, PutWord

(* A page is written.                                                       *)
LEMMA WritePage ==
    ASSUME NEW s \in States, NEW pg, NEW x \in Words
    PROVE  Wrote(s, PutPage(s, pg, x), pg) /\ (pg \in Pages => PutPage(s, pg, x).mem[pg] = x)
    BY DEF States, Words, Wrote, PutPage

(* A panic ends the computation.                                            *)
LEMMA FailStops == ASSUME NEW s \in States PROVE Fail(s) \in States /\ Fail(s).ok = FALSE
    BY DEF Fail, States

(* An entry says whether it is there, where, and for whom.                  *)
LEMMA Entries ==
    /\ \A pg \in Nat, u \in BOOLEAN :
          /\ Entry(pg, u) \in Int /\ PageOf(Entry(pg, u)) = pg /\ (IsUser(Entry(pg, u)) <=> u)
          /\ Present(Entry(pg, u)) <=> pg # 0
    /\ ~Present(0)
    /\ \A w \in Int : Present(w) => PageOf(w) \in Nat \ {0}
<1>1. ASSUME NEW pg \in Nat, NEW u \in BOOLEAN
      PROVE  /\ Entry(pg, u) \in Int /\ PageOf(Entry(pg, u)) = pg /\ (IsUser(Entry(pg, u)) <=> u)
             /\ Present(Entry(pg, u)) <=> pg # 0
  <2>1. CASE u
    <3>1. Entry(pg, u) = 2 * pg + 1
        BY <2>1 DEF Entry
    <3>2. (2 * pg + 1) \div 2 = pg /\ (2 * pg + 1) % 2 = 1
        OBVIOUS
    <3>3. IsUser(Entry(pg, u))
        BY <3>1, <3>2 DEF IsUser
    <3>4. PageOf(Entry(pg, u)) = pg /\ Entry(pg, u) \in Int
        BY <3>1, <3>2 DEF PageOf
    <3>5. Present(Entry(pg, u)) <=> pg # 0
        BY <3>1 DEF Present
    <3>6. QED
        BY Zenon, <2>1, <3>3, <3>4, <3>5
  <2>2. CASE ~u
    <3>1. Entry(pg, u) = 2 * pg
        BY <2>2 DEF Entry
    <3>2. (2 * pg) \div 2 = pg /\ (2 * pg) % 2 = 0
        OBVIOUS
    <3>3. ~IsUser(Entry(pg, u))
        BY <3>1, <3>2 DEF IsUser
    <3>4. QED
        BY <2>2, <3>1, <3>2, <3>3 DEF PageOf, Present
  <2>3. QED
      BY <2>1, <2>2
<1>2. ~Present(0)
    BY DEF Present
<1>3. \A w \in Int : Present(w) => PageOf(w) \in Nat \ {0}
    BY DEF Present, PageOf
<1>4. QED
    BY <1>1, <1>2, <1>3

(* Tables through TableAt and PageAt.                                       *)
LEMMA Views ==
    ASSUME NEW s, NEW d, NEW vp \in VPs
    PROVE  /\ Table(s, d, vp) = TableAt(s, d, vp \div W)
           /\ Pte(s, d, vp) = IF TableAt(s, d, vp \div W) = 0 THEN 0
                              ELSE s.mem[TableAt(s, d, vp \div W)][vp % W]
    BY DEF Table, TableAt, Pte

(* A directory is seen alike through two memories that agree on it and on   *)
(* its tables.                                                              *)
Alike(s, t, d) ==
    /\ \A i \in 0 .. W - 1 : TableAt(t, d, i) = TableAt(s, d, i)
    /\ \A vp \in VPs : Pte(t, d, vp) = Pte(s, d, vp)

(* A directory is seen alike when it and its tables are left alone.         *)
LEMMA Framed ==
    ASSUME NEW s, NEW t, NEW own, NEW D, NEW d \in D, Layout(s, own, D),
           t.mem[d] = s.mem[d],
           \A pg \in Pages : own[pg][1] = d /\ own[pg][2] = "table" => t.mem[pg] = s.mem[pg]
    PROVE  Alike(s, t, d)
<1>1. ASSUME NEW i \in 0 .. W - 1 PROVE TableAt(t, d, i) = TableAt(s, d, i)
    BY DEF TableAt
<1>2. ASSUME NEW vp \in VPs PROVE Pte(t, d, vp) = Pte(s, d, vp)
  <2> DEFINE i == vp \div W
  <2> DEFINE tbl == TableAt(s, d, i)
  <2>1. i \in 0 .. W - 1 /\ TableAt(t, d, i) = tbl
      BY <1>1, DivMod
  <2>2. tbl # 0 => tbl \in Pages /\ own[tbl] = <<d, "table", i>>
      BY <2>1 DEF Layout, TablesOwned
  <2>3. tbl # 0 => t.mem[tbl] = s.mem[tbl]
      BY <2>2
  <2>4. /\ Pte(s, d, vp) = IF tbl = 0 THEN 0 ELSE s.mem[tbl][vp % W]
        /\ Pte(t, d, vp) = IF tbl = 0 THEN 0 ELSE t.mem[tbl][vp % W]
      BY <2>1, Views
  <2> HIDE DEF tbl
  <2>5. QED
      BY <2>3, <2>4
<1>3. QED
    BY <1>1, <1>2 DEF Alike

(* A layout stays when no directory or table changes and pages without      *)
(* either change hands.                                                     *)
LEMMA Relabelled ==
    ASSUME NEW s, NEW t, NEW own, NEW own2 \in [Pages -> Role], NEW D, Layout(s, own, D),
           \A d \in D : Alike(s, t, d),
           t.twice = FALSE, \A pg \in Pages : pg \in t.free <=> own2[pg] = Spare,
           \A pg \in Pages : own2[pg] = own[pg] \/ (own[pg][2] \in Loose /\ own2[pg][2] \in Loose)
    PROVE  Layout(t, own2, D)
<1>1. \A pg \in Pages : \/ own2[pg] = own[pg]
                        \/ /\ own[pg][2] \notin {"dir", "table", "page"}
                           /\ own2[pg][2] \notin {"dir", "table", "page"}
    BY DEF Loose
<1>2. \A d \in D : /\ \A i \in 0 .. W - 1 : TableAt(t, d, i) = TableAt(s, d, i)
                   /\ \A vp \in UserVPs : PageAt(t, d, vp) = PageAt(s, d, vp)
    BY Places DEF Alike, PageAt
<1>3. DirsOwned(own2, D)
  <2>1. DirsOwned(own, D)
      BY DEF Layout
  <2>2. \A d \in D : \A i \in 0 .. DirPages - 1 : own2[d + i] = <<d, "dir", i>>
      BY <1>1, <2>1 DEF DirsOwned
  <2>3. \A pg \in Pages : own2[pg][2] = "dir" => own2[pg] = own[pg]
      BY <1>1
  <2>4. QED
      BY <2>1, <2>2, <2>3 DEF DirsOwned
<1>4. TablesOwned(t, own2, D)
  <2>1. TablesOwned(s, own, D)
      BY DEF Layout
  <2>2. \A d \in D : \A i \in 0 .. W - 1 : TableAt(t, d, i) # 0 =>
          TableAt(t, d, i) \in Pages /\ own2[TableAt(t, d, i)] = <<d, "table", i>>
      BY <1>1, <1>2, <2>1 DEF TablesOwned
  <2>3. \A pg \in Pages : own2[pg][2] = "table" => own2[pg] = own[pg]
      BY <1>1
  <2>4. QED
      BY <1>2, <2>1, <2>2, <2>3 DEF TablesOwned
<1>5. PagesOwned(t, own2, D)
  <2>1. PagesOwned(s, own, D)
      BY DEF Layout
  <2>2. \A d \in D : \A vp \in UserVPs : PageAt(t, d, vp) # 0 =>
          PageAt(t, d, vp) \in Pages /\ own2[PageAt(t, d, vp)] = <<d, "page", vp>>
      BY <1>1, <1>2, <2>1 DEF PagesOwned
  <2>3. \A pg \in Pages : own2[pg][2] = "page" => own2[pg] = own[pg]
      BY <1>1
  <2>4. QED
      BY <1>2, <2>1, <2>2, <2>3 DEF PagesOwned
<1>6. QED
    BY <1>3, <1>4, <1>5 DEF Layout
-----------------------------------------------------------------------------
(* The allocator                                                            *)

(* The set of pages, and pages the model writes as constants.               *)
LEMMA PageSets ==
    /\ Pages \subseteq Nat \ {0} /\ 1 \in Pages
    /\ Junk \in Words /\ ZeroPage \in Words
    /\ \A n \in Nat \ {0}, a \in Nat : a \in a .. a + n - 1
<1>1. Pages \subseteq Nat \ {0} /\ 1 \in Pages
    BY MemSizes DEF Pages
<1>2. Junk \in Words /\ ZeroPage \in Words
    BY DEF Junk, ZeroPage, Words, Entry
<1>3. QED
    BY <1>1, <1>2

(* page_alloc_v2 takes free pages, or the kernel does not get on.           *)
LEMMA BlockTaken ==
    ASSUME NEW s \in States, NEW n \in Nat \ {0}, NEW r, r = AllocBlock(s, n)
    PROVE  /\ r.pg \in Pages /\ r.s \in States
           /\ r.s.ok => /\ s.ok /\ r.pg .. r.pg + n - 1 \subseteq s.free
                        /\ r.s.free = s.free \ (r.pg .. r.pg + n - 1) /\ r.s.twice = s.twice
                        /\ \A q \in Pages : r.s.mem[q] = IF q \in r.pg .. r.pg + n - 1 THEN Junk
                                                         ELSE s.mem[q]
<1> DEFINE fits == {a \in Pages : a % n = 0 /\ a .. a + n - 1 \subseteq s.free}
<1> DEFINE taken(a) == [s EXCEPT !.free = @ \ (a .. a + n - 1),
                                 !.mem = [p \in Pages |-> IF p \in a .. a + n - 1
                                                          THEN Junk ELSE @[p]]]
<1>1. CASE fits = {}
  <2>1. r = [s |-> Fail(s), pg |-> 1]
      BY <1>1 DEF AllocBlock
  <2>2. r.s = Fail(s) /\ r.pg = 1
      BY <2>1
  <2>3. QED
      BY <2>2, FailStops, PageSets
<1>2. CASE fits # {}
  <2> DEFINE a == CHOOSE b \in fits : \A c \in fits : b <= c
  <2>1. \E b \in fits : \A c \in fits : b <= c
    <3>1. fits \in SUBSET Nat
        BY PageSets
    <3> HIDE DEF fits
    <3>2. QED
        BY <1>2, <3>1, Least
  <2>2. a \in fits
      BY <2>1
  <2>3. r = [pg |-> a, s |-> taken(a)]
      BY <1>2 DEF AllocBlock
  <2>4. a \in Pages /\ a .. a + n - 1 \subseteq s.free
      BY <2>2
  <2> HIDE DEF a, fits
  <2>5. r.pg = a /\ r.s = taken(a)
      BY <2>3
  <2>6. taken(a) \in States
      BY PageSets DEF States
  <2>7. /\ taken(a).free = s.free \ (a .. a + n - 1)
        /\ taken(a).twice = s.twice /\ taken(a).ok = s.ok
        /\ \A q \in Pages : taken(a).mem[q] = IF q \in a .. a + n - 1 THEN Junk ELSE s.mem[q]
      BY DEF States
  <2> HIDE DEF taken
  <2>8. QED
      BY <2>4, <2>5, <2>6, <2>7
<1>3. QED
    BY <1>1, <1>2

(* page_free_v2 gives pages back.                                           *)
Freed(s, blk, t) ==
    /\ t \in States /\ (t.ok <=> s.ok) /\ t.free = s.free \cup blk
    /\ s.twice = FALSE /\ blk \cap s.free = {} => t.twice = FALSE
    /\ \A q \in Pages : t.mem[q] = IF q \in blk THEN Junk ELSE s.mem[q]

(* What page_free_v2 does to a block of pages that are in use.              *)
LEMMA BlockFreed ==
    ASSUME NEW s \in States, NEW a, NEW n, NEW blk, blk = a .. a + n - 1, blk \subseteq Pages,
           NEW t, t = FreeBlock(s, a, n)
    PROVE  Freed(s, blk, t)
<1>1. t = [s EXCEPT !.twice = @ \/ blk \cap s.free # {}, !.free = @ \cup blk,
                    !.mem = [p \in Pages |-> IF p \in blk THEN Junk ELSE @[p]]]
    BY DEF FreeBlock
<1>2. t \in States
    BY PageSets DEF FreeBlock, States
<1>3. t.free = s.free \cup blk /\ \A q \in Pages : t.mem[q] = IF q \in blk THEN Junk ELSE s.mem[q]
    BY <1>1 DEF States
<1>4. t.twice = (s.twice \/ blk \cap s.free # {}) /\ t.ok = s.ok
    BY Zenon, <1>1 DEF States
<1>5. s.twice = FALSE /\ blk \cap s.free = {} => t.twice = FALSE
    BY Zenon, <1>4
<1>6. t.ok <=> s.ok
    BY Zenon, <1>4
<1>7. QED
    BY <1>2, <1>3, <1>5, <1>6 DEF Freed

(* The same for one page.                                                   *)
LEMMA PageFreed ==
    ASSUME NEW s \in States, NEW pg \in Pages, NEW t, t = FreePage(s, pg)
    PROVE  Freed(s, {pg}, t)
<1> DEFINE n == 1
<1> DEFINE blk == {pg}
<1>1. pg .. pg + 1 - 1 = {pg}
  <2>1. pg \in Nat
      BY PageSets
  <2>2. \A a \in Nat : a .. a + 1 - 1 = {a}
      OBVIOUS
  <2>3. QED
      BY <2>1, <2>2
<1>2. blk = pg .. pg + n - 1 /\ blk \subseteq Pages /\ t = FreeBlock(s, pg, n)
    BY <1>1 DEF FreePage
<1> HIDE DEF n, blk
<1>3. Freed(s, blk, t)
    BY <1>2, BlockFreed
<1>4. QED
    BY <1>3 DEF blk

(* What belongs to a directory is apart from it, and from what is loose.    *)
LEMMA Apartness ==
    ASSUME NEW s, NEW own, NEW D, Layout(s, own, D)
    PROVE  /\ \A pg \in Pages : own[pg] \in Role
           /\ \A d \in D : d \in Pages /\ own[d] = <<d, "dir", 0>>
           /\ Spare[2] = "free" /\ InHand[2] = "hand" /\ Spare[1] = 0 /\ InHand[1] = 0
           /\ Spare # InHand /\ InHand \in Role /\ Spare \in Role
<1>1. \A d \in D : d \in Pages /\ own[d] = <<d, "dir", 0>>
  <2>1. 0 \in 0 .. DirPages - 1
      BY MemSizes
  <2>2. \A d \in D : d \in Pages /\ d + 0 = d /\ own[d + 0] = <<d, "dir", 0>>
      BY <2>1, PageSets DEF Layout, DirsOwned
  <2>3. QED
      BY <2>2
<1>2. InHand \in Role /\ Spare \in Role /\ Spare # InHand
    BY MemSizes DEF InHand, Spare, Role
<1>3. QED
    BY <1>1, <1>2 DEF Layout, Spare, InHand

(* What giving a page a role does.                                          *)
LEMMA Given ==
    ASSUME NEW own \in [Pages -> Role], NEW pg \in Pages, NEW role \in Role
    PROVE  /\ Give(own, pg, role) \in [Pages -> Role] /\ Give(own, pg, role)[pg] = role
           /\ \A q \in Pages : q # pg => Give(own, pg, role)[q] = own[q]
    BY DEF Give

(* A page taken in hand.                                                    *)
LEMMA PageTaken ==
    ASSUME NEW s \in States, NEW own, NEW D, s.ok => Layout(s, own, D), NEW r, r = Alloc(s)
    PROVE  /\ r.pg \in Pages /\ r.s \in States
           /\ r.s.ok => /\ s.ok /\ own[r.pg] = Spare
                        /\ Layout(r.s, Give(own, r.pg, InHand), D)
                        /\ \A d \in D : Alike(s, r.s, d)
                        /\ r.s.mem[r.pg] = Junk
                        /\ \A q \in Pages : q # r.pg => r.s.mem[q] = s.mem[q]
<1>1. /\ r.pg \in Pages /\ r.s \in States
      /\ r.s.ok => /\ s.ok /\ r.pg .. r.pg + 1 - 1 \subseteq s.free
                   /\ r.s.free = s.free \ (r.pg .. r.pg + 1 - 1) /\ r.s.twice = s.twice
                   /\ \A q \in Pages : r.s.mem[q] = IF q \in r.pg .. r.pg + 1 - 1 THEN Junk
                                                    ELSE s.mem[q]
    BY BlockTaken DEF Alloc
<1>2. r.pg .. r.pg + 1 - 1 = {r.pg}
  <2>1. r.pg \in Nat
      BY <1>1, PageSets
  <2>2. \A a \in Nat : a .. a + 1 - 1 = {a}
      OBVIOUS
  <2>3. QED
      BY <2>1, <2>2
<1> SUFFICES ASSUME r.s.ok
             PROVE  /\ s.ok /\ own[r.pg] = Spare
                    /\ Layout(r.s, Give(own, r.pg, InHand), D)
                    /\ \A d \in D : Alike(s, r.s, d)
                    /\ r.s.mem[r.pg] = Junk
                    /\ \A q \in Pages : q # r.pg => r.s.mem[q] = s.mem[q]
    BY <1>1
<1> DEFINE pg == r.pg
<1> DEFINE own2 == Give(own, pg, InHand)
<1>3. s.ok /\ pg \in s.free /\ r.s.free = s.free \ {pg} /\ r.s.twice = s.twice
    BY <1>1, <1>2
<1>4. r.s.mem[pg] = Junk /\ \A q \in Pages : q # pg => r.s.mem[q] = s.mem[q]
    BY <1>1, <1>2
<1>5. Layout(s, own, D)
    BY <1>3
<1>6. own[pg] = Spare /\ pg \in Pages
    BY <1>1, <1>3, <1>5 DEF Layout
<1>7. own2 \in [Pages -> Role] /\ own2[pg] = InHand /\ \A q \in Pages : q # pg => own2[q] = own[q]
  <2>1. own \in [Pages -> Role] /\ InHand \in Role
      BY <1>5, Apartness DEF Layout
  <2>2. QED
      BY <1>6, <2>1, Given
<1> HIDE DEF own2, pg
<1>8. ASSUME NEW d \in D PROVE Alike(s, r.s, d)
  <2>1. d # pg /\ d \in Pages
      BY <1>5, <1>6, Apartness
  <2>2. \A q \in Pages : own[q][2] = "table" => q # pg
      BY <1>5, <1>6, Apartness
  <2>3. QED
      BY <1>4, <1>5, <2>1, <2>2, Framed
<1>9. Layout(r.s, own2, D)
  <2>1. \A q \in Pages : q \in r.s.free <=> own2[q] = Spare
      BY <1>3, <1>5, <1>6, <1>7, Apartness DEF Layout
  <2>2. r.s.twice = FALSE
      BY <1>3, <1>5 DEF Layout
  <2>3. \A q \in Pages : own2[q] = own[q] \/ (own[q][2] \in Loose /\ own2[q][2] \in Loose)
      BY <1>5, <1>6, <1>7, Apartness DEF Loose
  <2>4. QED
      BY <1>5, <1>7, <1>8, <2>1, <2>2, <2>3, Relabelled
<1>10. QED
    BY <1>3, <1>4, <1>6, <1>8, <1>9 DEF own2, pg

(* What a computation that builds up directory d does to the other pages    *)
(* but H: none changes hands but free ones, which become d's, and none      *)
(* changes but d's own directory and tables.                                *)
Builds(s, own, t, own2, d, H) ==
    \A q \in Pages \ H :
        /\ own[q] # Spare => own2[q] = own[q]
        /\ own[q] = Spare => own2[q] = Spare \/ (own2[q][1] = d /\ own2[q][2] \in {"table", "page"})
        /\ own[q] # Spare /\ ~(own[q][1] = d /\ own[q][2] \in {"dir", "table"})
             => t.mem[q] = s.mem[q]

(* A table is entered: with create, s_get_pg_pte allocates and clears it.   *)
LEMMA TableEntered ==
    ASSUME NEW s \in States, NEW own, NEW D, s.ok => Layout(s, own, D), NEW d \in D,
           d \in Pages, NEW vp \in VPs, NEW t, t = WithTable(s, d, vp)
    PROVE  /\ t \in States
           /\ t.ok => /\ s.ok
                      /\ \E own2 : Layout(t, own2, D) /\ Builds(s, own, t, own2, d, {})
                      /\ TableAt(t, d, vp \div W) # 0
                      /\ \A c \in D, v \in VPs : Pte(t, c, v) = Pte(s, c, v)
<1> DEFINE i == vp \div W
<1>0. i \in 0 .. W - 1 /\ Table(s, d, vp) = TableAt(s, d, i)
    BY DivMod, Views
<1>1. CASE TableAt(s, d, i) # 0
  <2>1. t = s
      BY <1>0, <1>1 DEF WithTable
  <2>2. Builds(s, own, s, own, d, {})
      BY DEF Builds
  <2>3. QED
      BY <1>1, <2>1, <2>2
<1>2. CASE TableAt(s, d, i) = 0
  <2>0. PICK r : r = Alloc(s)
      OBVIOUS
  <2> DEFINE pg == r.pg
  <2> DEFINE u == PutPage(r.s, pg, ZeroPage)
  <2>1. t = PutWord(u, d, i, Entry(pg, TRUE))
      BY <1>0, <1>2, <2>0 DEF WithTable, PutPage, PutWord
  <2>2. /\ pg \in Pages /\ r.s \in States
        /\ r.s.ok => /\ s.ok /\ own[pg] = Spare
                     /\ Layout(r.s, Give(own, pg, InHand), D)
                     /\ r.s.mem[pg] = Junk
                     /\ \A q \in Pages : q # pg => r.s.mem[q] = s.mem[q]
      BY <2>0, PageTaken
  <2>3. Wrote(r.s, u, pg) /\ u.mem[pg] = ZeroPage
      BY <2>2, WritePage, PageSets
  <2>4. Entry(pg, TRUE) \in Int
      BY <2>2, PageSets, Entries
  <2> HIDE DEF u, pg
  <2>5. Wrote(u, t, d)
        /\ \A k \in 0 .. W - 1 : t.mem[d][k] = IF k = i THEN Entry(pg, TRUE) ELSE u.mem[d][k]
    <3>1. u \in States
        BY <2>3 DEF Wrote
    <3> DEFINE e == Entry(pg, TRUE)
    <3> HIDE DEF i, e
    <3>2. e \in Int
        BY <2>4 DEF e
    <3>3. Wrote(u, PutWord(u, d, i, e), d)
        BY <3>1, <3>2, WriteWord
    <3>4. \A k \in 0 .. W - 1 : PutWord(u, d, i, e).mem[d][k] = IF k = i THEN e ELSE u.mem[d][k]
        BY <3>1, <3>2, WriteWord
    <3> USE DEF e
    <3>5. QED
        BY <2>1, <3>3, <3>4
  <2> SUFFICES ASSUME t.ok
               PROVE  /\ s.ok
                      /\ \E own2 : Layout(t, own2, D) /\ Builds(s, own, t, own2, d, {})
                      /\ TableAt(t, d, i) # 0
                      /\ \A c \in D, v \in VPs : Pte(t, c, v) = Pte(s, c, v)
      BY <2>5 DEF Wrote
  <2>6. /\ s.ok /\ own[pg] = Spare /\ Layout(s, own, D)
        /\ Layout(r.s, Give(own, pg, InHand), D)
        /\ \A q \in Pages : q # pg => r.s.mem[q] = s.mem[q]
      BY <2>2, <2>3, <2>5 DEF Wrote
  <2>i. /\ Give(own, pg, InHand)[pg] = InHand
        /\ \A q \in Pages : q # pg => Give(own, pg, InHand)[q] = own[q]
    <3>1. own \in [Pages -> Role] /\ pg \in Pages /\ InHand \in Role
        BY <2>2, <2>6, Apartness DEF Layout
    <3>2. QED
        BY <3>1, Given
  <2> DEFINE own2 == Give(own, pg, <<d, "table", i>>)
  <2>7. /\ own2 \in [Pages -> Role] /\ own2[pg] = <<d, "table", i>>
        /\ \A q \in Pages : q # pg => own2[q] = own[q]
    <3>1. <<d, "table", i>> \in Role
        BY <1>0, PageSets DEF Role, Pages
    <3>2. own \in [Pages -> Role] /\ pg \in Pages
        BY <2>2, <2>6 DEF Layout
    <3>3. QED
        BY <3>1, <3>2, Given
  <2> HIDE DEF own2
  <2>8. pg # d /\ \A c \in D : c \in Pages /\ c # pg
      BY <2>6, Apartness
  <2>9. /\ t.mem[pg] = ZeroPage
        /\ \A q \in Pages : q # pg /\ q # d => t.mem[q] = s.mem[q]
        /\ \A k \in 0 .. W - 1 : t.mem[d][k] = IF k = i THEN Entry(pg, TRUE) ELSE s.mem[d][k]
    <3>1. u.mem[d] = s.mem[d] /\ t.mem[pg] = u.mem[pg]
        BY <2>2, <2>3, <2>5, <2>6, <2>8 DEF Wrote
    <3>2. \A q \in Pages : q # pg /\ q # d => t.mem[q] = s.mem[q]
        BY <2>2, <2>3, <2>5, <2>6, <2>8 DEF Wrote
    <3>3. QED
        BY <2>3, <2>5, <3>1, <3>2
  <2>10. \A k \in 0 .. W - 1 : TableAt(t, d, k) = IF k = i THEN pg ELSE TableAt(s, d, k)
    <3>1. Present(Entry(pg, TRUE)) /\ PageOf(Entry(pg, TRUE)) = pg
        BY <2>2, PageSets, Entries
    <3>2. QED
        BY <2>9, <3>1 DEF TableAt
  <2>11. \A c \in D : c # d => Alike(s, t, c)
    <3> SUFFICES ASSUME NEW c \in D, c # d PROVE Alike(s, t, c)
        OBVIOUS
    <3>1. t.mem[c] = s.mem[c]
        BY <2>8, <2>9
    <3>2. \A q \in Pages : own[q][1] = c /\ own[q][2] = "table" => q # pg /\ q # d
        BY <2>6, Apartness
    <3>3. QED
        BY <2>6, <2>9, <3>1, <3>2, Framed
  <2>12. ASSUME NEW v \in VPs PROVE Pte(t, d, v) = Pte(s, d, v)
    <3> DEFINE k == v \div W
    <3> DEFINE tbl == TableAt(s, d, k)
    <3>1. k \in 0 .. W - 1 /\ v % W \in 0 .. W - 1
        BY DivMod
    <3>2. /\ Pte(s, d, v) = IF tbl = 0 THEN 0 ELSE s.mem[tbl][v % W]
          /\ Pte(t, d, v) = IF TableAt(t, d, k) = 0 THEN 0 ELSE t.mem[TableAt(t, d, k)][v % W]
        BY Views
    <3>3. tbl # 0 => tbl \in Pages /\ own[tbl] = <<d, "table", k>>
        BY <2>6, <3>1 DEF Layout, TablesOwned
    <3> HIDE DEF tbl
    <3>4. CASE k = i
      <4>1. tbl = 0 /\ TableAt(t, d, k) = pg /\ pg # 0
          BY <1>2, <2>2, <2>10, <3>1, <3>4, PageSets DEF tbl
      <4>2. ZeroPage[v % W] = 0
          BY <3>1 DEF ZeroPage
      <4>3. QED
          BY <2>9, <3>2, <4>1, <4>2
    <3>5. CASE k # i
      <4>1. TableAt(t, d, k) = tbl
          BY <2>10, <3>1, <3>5 DEF tbl
      <4>2. tbl # 0 => tbl # pg /\ tbl # d
          BY <2>6, <3>3, Apartness
      <4>3. QED
          BY <2>9, <3>2, <3>3, <4>1, <4>2
    <3>6. QED
        BY <3>4, <3>5
  <2>13. \A c \in D, v \in VPs : Pte(t, c, v) = Pte(s, c, v)
      BY <2>11, <2>12 DEF Alike
  <2>14. \A c \in D, v \in UserVPs : PageAt(t, c, v) = PageAt(s, c, v)
      BY <2>13, Places DEF PageAt
  <2>15. \A c \in D, k \in 0 .. W - 1 :
            TableAt(t, c, k) = IF c = d /\ k = i THEN pg ELSE TableAt(s, c, k)
      BY <2>10, <2>11 DEF Alike
  <2>16. DirsOwned(own2, D)
    <3>1. DirsOwned(own, D) /\ Spare[2] = "free"
        BY <2>6, Apartness DEF Layout
    <3>2. QED
        BY <2>6, <2>7, <3>1 DEF DirsOwned
  <2>17. TablesOwned(t, own2, D)
    <3>1. TablesOwned(s, own, D) /\ Spare[2] = "free"
        BY <2>6, Apartness DEF Layout
    <3>2. \A c \in D : \A k \in 0 .. W - 1 : TableAt(t, c, k) # 0 =>
             TableAt(t, c, k) \in Pages /\ own2[TableAt(t, c, k)] = <<c, "table", k>>
        BY <2>2, <2>6, <2>7, <2>15, <3>1 DEF TablesOwned
    <3>3. ASSUME NEW q \in Pages, own2[q][2] = "table"
          PROVE  /\ own2[q][1] \in D /\ own2[q][3] \in 0 .. W - 1
                 /\ TableAt(t, own2[q][1], own2[q][3]) = q
      <4>1. CASE q = pg
          BY <1>0, <2>7, <2>15, <4>1
      <4>2. CASE q # pg
        <5>1. /\ own2[q] = own[q] /\ own[q][1] \in D /\ own[q][3] \in 0 .. W - 1
              /\ TableAt(s, own[q][1], own[q][3]) = q
            BY <2>7, <3>1, <3>3, <4>2 DEF TablesOwned
        <5>2. ~(own[q][1] = d /\ own[q][3] = i)
            BY <1>2, <5>1, PageSets
        <5>3. QED
            BY <2>15, <5>1, <5>2
      <4>3. QED
          BY <4>1, <4>2
    <3>4. QED
        BY <3>2, <3>3 DEF TablesOwned
  <2>18. PagesOwned(t, own2, D)
    <3>1. PagesOwned(s, own, D) /\ Spare[2] = "free"
        BY <2>6, Apartness DEF Layout
    <3>2. \A c \in D : \A v \in UserVPs : PageAt(t, c, v) # 0 =>
             PageAt(t, c, v) \in Pages /\ own2[PageAt(t, c, v)] = <<c, "page", v>>
        BY <2>6, <2>7, <2>14, <3>1 DEF PagesOwned
    <3>3. \A q \in Pages : own2[q][2] = "page" => own2[q] = own[q]
        BY <2>7
    <3>4. QED
        BY <2>14, <3>1, <3>2, <3>3 DEF PagesOwned
  <2>19. Layout(t, own2, D)
    <3>1. t.free = r.s.free /\ t.twice = r.s.twice
        BY <2>3, <2>5 DEF Wrote
    <3>2. \A q \in Pages : q \in t.free <=> own2[q] = Spare
      <4>1. \A q \in Pages : q # pg => (q \in r.s.free <=> own[q] = Spare)
          BY <2>2, <2>6, <2>i DEF Layout
      <4>2. pg \notin r.s.free
          BY <2>2, <2>6, <2>i, Apartness DEF Layout
      <4>3. <<d, "table", i>> # Spare
          BY DEF Spare
      <4>4. QED
          BY <2>7, <3>1, <4>1, <4>2, <4>3
    <3>3. t.twice = FALSE
        BY <2>6, <3>1 DEF Layout
    <3>4. QED
        BY <2>7, <2>16, <2>17, <2>18, <3>2, <3>3 DEF Layout
  <2>20. Builds(s, own, t, own2, d, {})
    <3>1. own[d] = <<d, "dir", 0>>
        BY <2>6, Apartness
    <3>2. \A q \in Pages : own[q] # Spare => q # pg
        BY <2>6
    <3>3. QED
        BY <2>6, <2>7, <2>9, <3>1, <3>2 DEF Builds
  <2>21. TableAt(t, d, i) # 0
      BY <1>0, <2>2, <2>10, PageSets
  <2>22. QED
      BY <2>6, <2>13, <2>19, <2>20, <2>21
<1>3. QED
    BY <1>1, <1>2
-----------------------------------------------------------------------------
(* Entries                                                                  *)

(* One entry written into a table.                                          *)
LEMMA EntrySet ==
    ASSUME NEW s \in States, NEW own, NEW D, DirsOwned(own, D), TablesOwned(s, own, D),
           NEW d \in D, NEW vp \in VPs, NEW tbl, tbl = TableAt(s, d, vp \div W), tbl # 0,
           NEW e \in Int, NEW t, t = PutWord(s, tbl, vp % W, e)
    PROVE  /\ Wrote(s, t, tbl) /\ tbl \in Pages /\ own[tbl] = <<d, "table", vp \div W>>
           /\ \A c \in D, k \in 0 .. W - 1 : TableAt(t, c, k) = TableAt(s, c, k)
           /\ \A c \in D, v \in VPs : Pte(t, c, v) = IF c = d /\ v = vp THEN e ELSE Pte(s, c, v)
<1> DEFINE i == vp \div W
<1> DEFINE j == vp % W
<1>1. i \in 0 .. W - 1 /\ j \in 0 .. W - 1
    BY DivMod
<1>2. tbl \in Pages /\ own[tbl] = <<d, "table", i>>
    BY <1>1 DEF TablesOwned
<1>3. \A c \in D : c \in Pages /\ own[c][2] = "dir"
  <2>1. 0 \in 0 .. DirPages - 1
      BY MemSizes
  <2>2. \A c \in D : c \in Pages /\ c + 0 = c /\ own[c + 0] = <<c, "dir", 0>>
      BY <2>1, PageSets DEF DirsOwned
  <2>3. QED
      BY <2>2
<1> HIDE DEF i, j
<1>4. Wrote(s, t, tbl)
  <2>1. t = PutWord(s, tbl, j, e)
      BY DEF j
  <2>2. QED
      BY <2>1, WriteWord
<1>5. \A k \in 0 .. W - 1 : t.mem[tbl][k] = IF k = j THEN e ELSE s.mem[tbl][k]
  <2>1. t = PutWord(s, tbl, j, e)
      BY DEF j
  <2>2. QED
      BY <1>2, <2>1, WriteWord
<1>6. \A c \in D : t.mem[c] = s.mem[c]
    BY <1>2, <1>3, <1>4 DEF Wrote
<1>7. \A c \in D, k \in 0 .. W - 1 : TableAt(t, c, k) = TableAt(s, c, k)
    BY <1>6 DEF TableAt
<1>8. ASSUME NEW c \in D, NEW v \in VPs
      PROVE  Pte(t, c, v) = IF c = d /\ v = vp THEN e ELSE Pte(s, c, v)
  <2> DEFINE k == v \div W
  <2> DEFINE x == TableAt(s, c, k)
  <2> DEFINE l == v % W
  <2>1. k \in 0 .. W - 1 /\ l \in 0 .. W - 1
      BY DivMod
  <2>2. TableAt(t, c, k) = x
      BY <1>7, <2>1
  <2>3. /\ Pte(s, c, v) = IF x = 0 THEN 0 ELSE s.mem[x][l]
        /\ Pte(t, c, v) = IF x = 0 THEN 0 ELSE t.mem[x][l]
      BY <2>2, Views
  <2>4. x # 0 => x \in Pages /\ own[x] = <<c, "table", k>>
      BY <2>1 DEF TablesOwned
  <2>5. c = d /\ v = vp => x = tbl /\ l = j
      BY DEF j
  <2>6. c = d /\ k = i /\ l = j => v = vp
      BY Places DEF i, j
  <2>7. x = tbl => c = d /\ k = i
      BY <1>2, <2>4
  <2> HIDE DEF x, l, k
  <2>8. x # 0 /\ x # tbl => t.mem[x] = s.mem[x]
      BY <1>4, <2>4 DEF Wrote
  <2>9. CASE x = tbl
      BY <1>5, <2>1, <2>3, <2>5, <2>6, <2>7, <2>9
  <2>10. CASE x # tbl
      BY <2>3, <2>5, <2>8, <2>10
  <2>11. QED
      BY <2>9, <2>10
<1>9. QED
    BY <1>2, <1>4, <1>7, <1>8 DEF i

(* What s_pg_map_helper does, unless it panics.                             *)
LEMMA EntryMade ==
    ASSUME NEW s \in States, NEW own, NEW D, s.ok => Layout(s, own, D), NEW d \in D,
           d \in Pages, NEW vp \in VPs, NEW pg \in Nat \ {0}, NEW user \in BOOLEAN,
           NEW t, t = Map(s, d, vp, pg, user)
    PROVE  /\ t \in States
           /\ t.ok => s.ok /\ ~Present(Pte(s, d, vp)) /\ \E r, own1 :
                /\ r \in States /\ r.ok /\ Layout(r, own1, D) /\ Builds(s, own, r, own1, d, {})
                /\ \A c \in D, v \in VPs : Pte(r, c, v) = Pte(s, c, v)
                /\ TableAt(r, d, vp \div W) # 0
                /\ t = PutWord(r, TableAt(r, d, vp \div W), vp % W, Entry(pg, user))
<1>0. PICK r : r = WithTable(s, d, vp)
    OBVIOUS
<1> DEFINE tbl == TableAt(r, d, vp \div W)
<1> DEFINE j == vp % W
<1> DEFINE e == Entry(pg, user)
<1>1. /\ r \in States
      /\ r.ok => /\ s.ok
                 /\ \E own2 : Layout(r, own2, D) /\ Builds(s, own, r, own2, d, {})
                 /\ tbl # 0
                 /\ \A c \in D, v \in VPs : Pte(r, c, v) = Pte(s, c, v)
    BY <1>0, TableEntered
<1>2. Table(r, d, vp) = tbl
    BY Views
<1> HIDE DEF tbl
<1>3. Pte(r, d, vp) = IF tbl = 0 THEN 0 ELSE r.mem[tbl][j]
    BY Views DEF tbl
<1> HIDE DEF j, e
<1>4. t = IF ~r.ok \/ Present(r.mem[tbl][j]) THEN Fail(r) ELSE PutWord(r, tbl, j, e)
    BY <1>0, <1>2 DEF Map, PutWord, j, e
<1>5. Fail(r) \in States /\ Fail(r).ok = FALSE
    BY <1>1, FailStops
<1>6. e \in Int
  <2>1. pg \in Nat
      OBVIOUS
  <2>2. QED
      BY <2>1, Entries DEF e
<1>7. Wrote(r, PutWord(r, tbl, j, e), tbl)
    BY <1>1, <1>6, WriteWord
<1>8. t \in States
    BY <1>4, <1>5, <1>7 DEF Wrote
<1>9. ASSUME t.ok PROVE r.ok /\ ~Present(r.mem[tbl][j]) /\ t = PutWord(r, tbl, j, e)
    BY <1>4, <1>5, <1>9
<1>10. ASSUME t.ok
       PROVE  s.ok /\ ~Present(Pte(s, d, vp)) /\ \E r1, own1 :
                /\ r1 \in States /\ r1.ok /\ Layout(r1, own1, D) /\ Builds(s, own, r1, own1, d, {})
                /\ \A c \in D, v \in VPs : Pte(r1, c, v) = Pte(s, c, v)
                /\ TableAt(r1, d, vp \div W) # 0
                /\ t = PutWord(r1, TableAt(r1, d, vp \div W), vp % W, Entry(pg, user))
  <2>1. s.ok /\ ~Present(Pte(s, d, vp))
      BY <1>1, <1>3, <1>9, <1>10
  <2>2. PICK own1 : Layout(r, own1, D) /\ Builds(s, own, r, own1, d, {})
      BY <1>1, <1>9, <1>10
  <2>3. r.ok /\ tbl # 0 /\ t = PutWord(r, tbl, j, e)
      BY <1>1, <1>9, <1>10
  <2>4. TableAt(r, d, vp \div W) # 0
        /\ t = PutWord(r, TableAt(r, d, vp \div W), vp % W, Entry(pg, user))
      BY <2>3 DEF tbl, j, e
  <2>5. \A c \in D, v \in VPs : Pte(r, c, v) = Pte(s, c, v)
      BY <1>1, <1>9, <1>10
  <2>6. QED
      BY <1>1, <2>1, <2>2, <2>3, <2>4, <2>5
<1>11. QED
    BY <1>8, <1>10

(* A page in hand becomes a process's.                                      *)
BuildsBut(s, own, t, own2, d, pg) == Builds(s, own, t, own2, d, {pg})

UserMap(s, own, D, d, vp, pg, user, t) ==
    /\ s.ok /\ ~Present(Pte(s, d, vp))
    /\ \E own2 : /\ Layout(t, own2, D) /\ own2[pg] = <<d, "page", vp>>
                 /\ BuildsBut(s, own, t, own2, d, pg)
    /\ t.mem[pg] = s.mem[pg]
    /\ \A c \in D, v \in VPs : Pte(t, c, v) =
          IF c = d /\ v = vp THEN Entry(pg, user) ELSE Pte(s, c, v)

(* A page in hand is mapped into a user part of a directory.                *)
LEMMA UserMapped ==
    ASSUME NEW s \in States, NEW own, NEW D, s.ok => Layout(s, own, D), NEW d \in D,
           d \in Pages, NEW vp \in UserVPs, NEW pg \in Pages, s.ok => own[pg] = InHand,
           NEW user \in BOOLEAN, NEW t, t = Map(s, d, vp, pg, user)
    PROVE  t \in States /\ (t.ok => UserMap(s, own, D, d, vp, pg, user, t))
<1>1. vp \in VPs /\ pg \in Nat \ {0}
    BY Places, PageSets
<1>2. /\ t \in States
      /\ t.ok => s.ok /\ ~Present(Pte(s, d, vp)) /\ \E r, own1 :
           /\ r \in States /\ r.ok /\ Layout(r, own1, D) /\ Builds(s, own, r, own1, d, {})
           /\ \A c \in D, v \in VPs : Pte(r, c, v) = Pte(s, c, v)
           /\ TableAt(r, d, vp \div W) # 0
           /\ t = PutWord(r, TableAt(r, d, vp \div W), vp % W, Entry(pg, user))
    BY <1>1, EntryMade
<1> SUFFICES ASSUME t.ok
             PROVE  /\ \E own2 : /\ Layout(t, own2, D) /\ own2[pg] = <<d, "page", vp>>
                                 /\ BuildsBut(s, own, t, own2, d, pg)
                    /\ t.mem[pg] = s.mem[pg]
                    /\ \A c \in D, v \in VPs : Pte(t, c, v) =
                          IF c = d /\ v = vp THEN Entry(pg, user) ELSE Pte(s, c, v)
    BY <1>2 DEF UserMap
<1>3. PICK r, own1 : /\ r \in States /\ r.ok /\ Layout(r, own1, D)
                     /\ Builds(s, own, r, own1, d, {})
                     /\ \A c \in D, v \in VPs : Pte(r, c, v) = Pte(s, c, v)
                     /\ TableAt(r, d, vp \div W) # 0
                     /\ t = PutWord(r, TableAt(r, d, vp \div W), vp % W, Entry(pg, user))
    BY <1>2
<1> DEFINE i == vp \div W
<1> DEFINE tbl == TableAt(r, d, i)
<1> DEFINE e == Entry(pg, user)
<1> DEFINE own2 == Give(own1, pg, <<d, "page", vp>>)
<1>4. Present(e) /\ PageOf(e) = pg /\ e \in Int
    BY <1>1, Entries
<1>5. s.ok /\ Layout(s, own, D) /\ own[pg] = InHand /\ InHand # Spare /\ own1[pg] = InHand
  <2>1. s.ok
      BY <1>2
  <2>2. Layout(s, own, D) /\ own[pg] = InHand
      BY <2>1
  <2>3. InHand # Spare
      BY DEF InHand, Spare
  <2>4. QED
      BY <1>3, <2>1, <2>2, <2>3 DEF Builds
<1>6. /\ own2 \in [Pages -> Role] /\ own2[pg] = <<d, "page", vp>>
      /\ \A q \in Pages : q # pg => own2[q] = own1[q]
  <2>1. <<d, "page", vp>> \in Role
      BY DEF Role, Pages, UserVPs
  <2>2. own1 \in [Pages -> Role]
      BY <1>3 DEF Layout
  <2> DEFINE role == <<d, "page", vp>>
  <2>3. role \in Role
      BY <2>1
  <2> HIDE DEF role
  <2>4. /\ Give(own1, pg, role) \in [Pages -> Role] /\ Give(own1, pg, role)[pg] = role
        /\ \A q \in Pages : q # pg => Give(own1, pg, role)[q] = own1[q]
      BY <2>2, <2>3, Given
  <2> USE DEF role
  <2>5. QED
      BY <2>4
<1>7. DirsOwned(own1, D) /\ TablesOwned(r, own1, D) /\ PagesOwned(r, own1, D) /\ InHand[2] = "hand"
    BY <1>3, Apartness DEF Layout
<1> HIDE DEF e
<1>8. /\ Wrote(r, t, tbl) /\ tbl \in Pages /\ own1[tbl] = <<d, "table", i>>
      /\ \A c \in D, k \in 0 .. W - 1 : TableAt(t, c, k) = TableAt(r, c, k)
      /\ \A c \in D, v \in VPs : Pte(t, c, v) = IF c = d /\ v = vp THEN e ELSE Pte(r, c, v)
    BY <1>1, <1>3, <1>4, <1>7, EntrySet DEF e
<1> HIDE DEF tbl, i, own2
<1>9. tbl # pg
    BY <1>5, <1>7, <1>8
<1>10. \A c \in D, v \in UserVPs :
          PageAt(t, c, v) = IF c = d /\ v = vp THEN pg ELSE PageAt(r, c, v)
    BY <1>4, <1>8, Places DEF PageAt
<1>11. Layout(t, own2, D)
  <2>1. DirsOwned(own2, D)
      BY <1>5, <1>6, <1>7 DEF DirsOwned
  <2>2. TablesOwned(t, own2, D)
    <3>1. \A c \in D : \A k \in 0 .. W - 1 : TableAt(t, c, k) # 0 =>
             TableAt(t, c, k) \in Pages /\ own2[TableAt(t, c, k)] = <<c, "table", k>>
        BY <1>5, <1>6, <1>7, <1>8 DEF TablesOwned
    <3>2. \A q \in Pages : own2[q][2] = "table" => own2[q] = own1[q]
        BY <1>6
    <3>3. QED
        BY <1>7, <1>8, <3>1, <3>2 DEF TablesOwned
  <2>3. PagesOwned(t, own2, D)
    <3>1. \A c \in D : \A v \in UserVPs : PageAt(t, c, v) # 0 =>
             PageAt(t, c, v) \in Pages /\ own2[PageAt(t, c, v)] = <<c, "page", v>>
      <4> SUFFICES ASSUME NEW c \in D, NEW v \in UserVPs, PageAt(t, c, v) # 0
                   PROVE  PageAt(t, c, v) \in Pages /\ own2[PageAt(t, c, v)] = <<c, "page", v>>
          OBVIOUS
      <4>1. CASE c = d /\ v = vp
          BY <1>6, <1>10, <4>1
      <4>2. CASE ~(c = d /\ v = vp)
        <5>1. PageAt(t, c, v) = PageAt(r, c, v)
            BY <1>10, <4>2
        <5>2. PageAt(r, c, v) \in Pages /\ own1[PageAt(r, c, v)] = <<c, "page", v>>
            BY <1>7, <5>1 DEF PagesOwned
        <5>3. QED
            BY <1>5, <1>6, <1>7, <5>1, <5>2
      <4>3. QED
          BY <4>1, <4>2
    <3>2. ASSUME NEW q \in Pages, own2[q][2] = "page"
          PROVE  /\ own2[q][1] \in D /\ own2[q][3] \in UserVPs
                 /\ PageAt(t, own2[q][1], own2[q][3]) = q
      <4>1. CASE q = pg
          BY <1>6, <1>10, <4>1
      <4>2. CASE q # pg
        <5>1. /\ own2[q] = own1[q] /\ own1[q][1] \in D /\ own1[q][3] \in UserVPs
              /\ PageAt(r, own1[q][1], own1[q][3]) = q
            BY <1>6, <1>7, <3>2, <4>2 DEF PagesOwned
        <5>2. PageAt(r, d, vp) = 0
          <6>1. ~Present(Pte(r, d, vp))
              BY <1>1, <1>2, <1>3
          <6>2. QED
              BY <6>1 DEF PageAt
        <5>3. ~(own1[q][1] = d /\ own1[q][3] = vp)
            BY <5>1, <5>2, PageSets
        <5>4. QED
            BY <1>10, <5>1, <5>3
      <4>3. QED
          BY <4>1, <4>2
    <3>3. QED
        BY <3>1, <3>2 DEF PagesOwned
  <2>4. \A q \in Pages : q \in t.free <=> own2[q] = Spare
    <3>1. \A q \in Pages : q \in r.free <=> own1[q] = Spare
        BY <1>3 DEF Layout
    <3>2. <<d, "page", vp>> # Spare /\ t.free = r.free
        BY <1>8 DEF Spare, Wrote
    <3>3. QED
        BY <1>5, <1>6, <3>1, <3>2
  <2>5. t.twice = FALSE
      BY <1>3, <1>8 DEF Layout, Wrote
  <2>6. QED
      BY <1>6, <2>1, <2>2, <2>3, <2>4, <2>5 DEF Layout
<1>12. t.mem[pg] = s.mem[pg]
  <2>1. t.mem[pg] = r.mem[pg]
      BY <1>8, <1>9 DEF Wrote
  <2>2. r.mem[pg] = s.mem[pg]
    <3>1. own[pg] # Spare /\ own[pg][2] = "hand"
        BY <1>5, <1>7
    <3>2. QED
        BY <1>3, <3>1 DEF Builds
  <2>3. QED
      BY <2>1, <2>2
<1>13. BuildsBut(s, own, t, own2, d, pg)
  <2> SUFFICES ASSUME NEW q \in Pages, q # pg
               PROVE  /\ own[q] # Spare => own2[q] = own[q]
                      /\ own[q] = Spare => own2[q] = Spare \/ (own2[q][1] = d /\ own2[q][2] \in {"table", "page"})
                      /\ own[q] # Spare /\ ~(own[q][1] = d /\ own[q][2] \in {"dir", "table"})
                           => t.mem[q] = s.mem[q]
      BY DEF Builds, BuildsBut
  <2>1. /\ own[q] # Spare => own1[q] = own[q]
        /\ own[q] = Spare => own1[q] = Spare \/ (own1[q][1] = d /\ own1[q][2] \in {"table", "page"})
        /\ own[q] # Spare /\ ~(own[q][1] = d /\ own[q][2] \in {"dir", "table"})
             => r.mem[q] = s.mem[q]
      BY <1>3 DEF Builds
  <2>2. own2[q] = own1[q]
      BY <1>6
  <2>3. own1[q] = own[q] /\ ~(own[q][1] = d /\ own[q][2] \in {"dir", "table"}) => q # tbl
      BY <1>8
  <2>4. q # tbl => t.mem[q] = r.mem[q]
      BY <1>8 DEF Wrote
  <2>5. QED
      BY <2>1, <2>2, <2>3, <2>4
<1>14. \A c \in D, v \in VPs : Pte(t, c, v) =
          IF c = d /\ v = vp THEN Entry(pg, user) ELSE Pte(s, c, v)
    BY <1>3, <1>8 DEF e
<1>15. QED
    BY <1>6, <1>11, <1>12, <1>13, <1>14

(* An entry of the kernel's owns nothing.                                   *)
LEMMA KernelEntry ==
    ASSUME NEW s \in States, NEW own, NEW D, s.ok => Layout(s, own, D), NEW d \in D,
           d \in Pages, NEW vp \in VPs \ UserVPs, NEW pg \in Nat \ {0},
           NEW user \in BOOLEAN, NEW t, t = Map(s, d, vp, pg, user)
    PROVE  /\ t \in States
           /\ t.ok => /\ s.ok /\ ~Present(Pte(s, d, vp))
                      /\ \E own2 : Layout(t, own2, D) /\ Builds(s, own, t, own2, d, {})
                      /\ \A c \in D, v \in VPs : Pte(t, c, v) =
                            IF c = d /\ v = vp THEN Entry(pg, user) ELSE Pte(s, c, v)
<1>2. /\ t \in States
      /\ t.ok => s.ok /\ ~Present(Pte(s, d, vp)) /\ \E r, own1 :
           /\ r \in States /\ r.ok /\ Layout(r, own1, D) /\ Builds(s, own, r, own1, d, {})
           /\ \A c \in D, v \in VPs : Pte(r, c, v) = Pte(s, c, v)
           /\ TableAt(r, d, vp \div W) # 0
           /\ t = PutWord(r, TableAt(r, d, vp \div W), vp % W, Entry(pg, user))
    BY EntryMade
<1> SUFFICES ASSUME t.ok
             PROVE  /\ \E own2 : Layout(t, own2, D) /\ Builds(s, own, t, own2, d, {})
                    /\ \A c \in D, v \in VPs : Pte(t, c, v) =
                          IF c = d /\ v = vp THEN Entry(pg, user) ELSE Pte(s, c, v)
    BY <1>2
<1>3. PICK r, own1 : /\ r \in States /\ r.ok /\ Layout(r, own1, D)
                     /\ Builds(s, own, r, own1, d, {})
                     /\ \A c \in D, v \in VPs : Pte(r, c, v) = Pte(s, c, v)
                     /\ TableAt(r, d, vp \div W) # 0
                     /\ t = PutWord(r, TableAt(r, d, vp \div W), vp % W, Entry(pg, user))
    BY <1>2
<1> DEFINE i == vp \div W
<1> DEFINE tbl == TableAt(r, d, i)
<1> DEFINE e == Entry(pg, user)
<1>4. e \in Int
    BY Entries
<1>7. DirsOwned(own1, D) /\ TablesOwned(r, own1, D) /\ PagesOwned(r, own1, D)
    BY <1>3 DEF Layout
<1> HIDE DEF e
<1>8. /\ Wrote(r, t, tbl) /\ tbl \in Pages /\ own1[tbl] = <<d, "table", i>>
      /\ \A c \in D, k \in 0 .. W - 1 : TableAt(t, c, k) = TableAt(r, c, k)
      /\ \A c \in D, v \in VPs : Pte(t, c, v) = IF c = d /\ v = vp THEN e ELSE Pte(r, c, v)
    BY <1>3, <1>4, <1>7, EntrySet DEF e
<1> HIDE DEF tbl, i
<1>10. \A c \in D, v \in UserVPs : PageAt(t, c, v) = PageAt(r, c, v)
    BY <1>8, Places DEF PageAt
<1>11. Layout(t, own1, D)
  <2>1. TablesOwned(t, own1, D)
      BY <1>7, <1>8 DEF TablesOwned
  <2>2. PagesOwned(t, own1, D)
      BY <1>7, <1>10 DEF PagesOwned
  <2>3. t.free = r.free /\ t.twice = r.twice
      BY <1>8 DEF Wrote
  <2>4. QED
      BY <1>3, <2>1, <2>2, <2>3 DEF Layout
<1>13. Builds(s, own, t, own1, d, {})
  <2> SUFFICES ASSUME NEW q \in Pages, own[q] # Spare,
                      ~(own[q][1] = d /\ own[q][2] \in {"dir", "table"})
               PROVE  t.mem[q] = s.mem[q]
      BY <1>3 DEF Builds
  <2>1. own1[q] = own[q] /\ r.mem[q] = s.mem[q]
      BY <1>3 DEF Builds
  <2>2. q # tbl
      BY <1>8, <2>1
  <2>3. QED
      BY <1>8, <2>1, <2>2 DEF Wrote
<1>14. \A c \in D, v \in VPs : Pte(t, c, v) =
          IF c = d /\ v = vp THEN Entry(pg, user) ELSE Pte(s, c, v)
    BY <1>3, <1>8 DEF e
<1>15. QED
    BY <1>11, <1>13, <1>14
-----------------------------------------------------------------------------
(* Loops                                                                    *)

(* A sequence of steps, each from one set to the next, can be taken.        *)
Leads(n, S, T, h, a) ==
    /\ n \in Nat /\ a \in T[0]
    /\ \A k \in 0 .. n : T[k] \subseteq S
    /\ \A k \in 0 .. n - 1 : \A x \in T[k] : h[k][x] \in T[k + 1]
Taken(f, n, S, T, h, a) ==
    /\ f \in [0 .. n -> S] /\ f[0] = a
    /\ \A k \in 0 .. n - 1 : f[k] \in T[k] /\ f[k + 1] = h[k][f[k]]

(* The states of a loop whose body leads from a set to the next.            *)
LEMMA LoopRuns ==
    ASSUME NEW n, NEW S, NEW T, NEW h, NEW a, Leads(n, S, T, h, a)
    PROVE  \E f : Taken(f, n, S, T, h, a)
<1> USE DEF Leads, Taken
<1> DEFINE Run(f, m) == /\ f \in [0 .. m -> S] /\ f[0] = a /\ f[m] \in T[m]
                        /\ \A k \in 0 .. m - 1 : f[k] \in T[k] /\ f[k + 1] = h[k][f[k]]
<1> DEFINE Bad == {m \in 0 .. n : ~ \E f : Run(f, m)}
<1>1. Bad = {}
  <2> SUFFICES ASSUME Bad # {} PROVE FALSE
      OBVIOUS
  <2>1. PICK m \in Bad : \A k \in Bad : m <= k
    <3>1. Bad \in SUBSET Nat
        OBVIOUS
    <3> HIDE DEF Bad
    <3>2. QED
        BY <3>1, Least
  <2>2. CASE m = 0
    <3> DEFINE f == [k \in 0 .. 0 |-> a]
    <3>1. Run(f, 0)
        OBVIOUS
    <3>2. QED
        BY <2>2, <3>1
  <2>3. CASE m # 0
    <3>1. m - 1 \in 0 .. n - 1 /\ m - 1 \notin Bad /\ m - 1 \in 0 .. n /\ m \in 0 .. n
      <4>1. m \in 0 .. n
          OBVIOUS
      <4> HIDE DEF Bad
      <4>2. QED
          BY <2>1, <2>3, <4>1
    <3>2. PICK g : Run(g, m - 1)
        BY <3>1
    <3> DEFINE y == h[m - 1][g[m - 1]]
    <3> DEFINE f == [k \in 0 .. m |-> IF k = m THEN y ELSE g[k]]
    <3>3. y \in T[m] /\ y \in S
      <4>1. g[m - 1] \in T[m - 1]
          BY <3>2
      <4>2. y \in T[m - 1 + 1]
          BY <3>1, <4>1
      <4>3. m - 1 + 1 = m
          BY <3>1
      <4>4. QED
          BY <3>1, <4>2, <4>3
    <3> HIDE DEF y
    <3>4. f \in [0 .. m -> S] /\ f[m] = y /\ \A k \in 0 .. m - 1 : f[k] = g[k]
      <4>1. g \in [0 .. m - 1 -> S]
          BY <3>2
      <4>2. QED
          BY <3>1, <3>3, <4>1
    <3> HIDE DEF f
    <3>5. ASSUME NEW k \in 0 .. m - 1 PROVE f[k] \in T[k] /\ f[k + 1] = h[k][f[k]]
      <4>1. CASE k = m - 1
        <5>1. f[k] = g[m - 1] /\ k + 1 = m /\ g[m - 1] \in T[m - 1]
            BY <3>1, <3>2, <3>4, <4>1
        <5>2. QED
            BY <3>4, <4>1, <5>1 DEF y
      <4>2. CASE k # m - 1
        <5>1. k \in 0 .. m - 1 - 1 /\ k + 1 \in 0 .. m - 1
            BY <3>1, <4>2
        <5>2. g[k] \in T[k] /\ g[k + 1] = h[k][g[k]]
            BY <3>2, <5>1
        <5>3. QED
            BY <3>4, <5>1, <5>2
      <4>3. QED
          BY <4>1, <4>2
    <3>6. f[0] = a
        BY <3>1, <3>2, <3>4
    <3>7. Run(f, m)
        BY <3>3, <3>4, <3>5, <3>6
    <3>8. QED
        BY <3>7
  <2>4. QED
      BY <2>2, <2>3
<1>2. n \in 0 .. n /\ n \notin Bad
    BY <1>1
<1>3. PICK f : Run(f, n)
    BY <1>2
<1>4. QED
    BY <1>3

(* It ends where the steps lead.                                            *)
LEMMA LoopEnds ==
    ASSUME NEW n \in Nat, NEW T, NEW f, f[0] \in T[0],
           \A k \in 0 .. n - 1 : f[k] \in T[k] => f[k + 1] \in T[k + 1]
    PROVE  f[n] \in T[n]
<1> DEFINE Bad == {m \in 0 .. n : f[m] \notin T[m]}
<1> SUFFICES ASSUME Bad # {} PROVE FALSE
    OBVIOUS
<1>1. PICK m \in Bad : \A k \in Bad : m <= k
  <2>1. Bad \in SUBSET Nat
      OBVIOUS
  <2> HIDE DEF Bad
  <2>2. QED
      BY <2>1, Least
<1>2. m # 0
    OBVIOUS
<1>3. m - 1 \in 0 .. n - 1 /\ m - 1 \notin Bad /\ m - 1 \in 0 .. n /\ m - 1 + 1 = m
    BY <1>1, <1>2
<1>4. f[m - 1] \in T[m - 1]
    BY <1>3
<1>5. f[m] \in T[m]
    BY <1>3, <1>4
<1>6. QED
    BY <1>5

(* Building a directory goes on from where it was.                          *)
LEMMA BuildsOn ==
    ASSUME NEW s, NEW own, NEW t, NEW own2, NEW u, NEW own3, NEW d,
           Builds(s, own, t, own2, d, {}), Builds(t, own2, u, own3, d, {}), d # 0
    PROVE  Builds(s, own, u, own3, d, {})
<1> SUFFICES ASSUME NEW q \in Pages
             PROVE  /\ own[q] # Spare => own3[q] = own[q]
                    /\ own[q] = Spare =>
                         own3[q] = Spare \/ (own3[q][1] = d /\ own3[q][2] \in {"table", "page"})
                    /\ own[q] # Spare /\ ~(own[q][1] = d /\ own[q][2] \in {"dir", "table"})
                         => u.mem[q] = s.mem[q]
    BY DEF Builds
<1>1. /\ own[q] # Spare => own2[q] = own[q]
      /\ own[q] = Spare =>
           own2[q] = Spare \/ (own2[q][1] = d /\ own2[q][2] \in {"table", "page"})
      /\ own[q] # Spare /\ ~(own[q][1] = d /\ own[q][2] \in {"dir", "table"})
           => t.mem[q] = s.mem[q]
    BY DEF Builds
<1>2. /\ own2[q] # Spare => own3[q] = own2[q]
      /\ own2[q] = Spare =>
           own3[q] = Spare \/ (own3[q][1] = d /\ own3[q][2] \in {"table", "page"})
      /\ own2[q] # Spare /\ ~(own2[q][1] = d /\ own2[q][2] \in {"dir", "table"})
           => u.mem[q] = t.mem[q]
    BY DEF Builds
<1>3. QED
    BY <1>1, <1>2

(* The same, of a directory that may be new and whose pages may change.     *)
Kinds == {"dir", "table", "page"}
Grows(s, own, t, own2, d) ==
    \A q \in Pages :
        /\ own[q] # Spare => own2[q] = own[q]
        /\ own[q] = Spare => own2[q] = Spare \/ (own2[q][1] = d /\ own2[q][2] \in Kinds)
        /\ own[q] # Spare /\ ~(own[q][1] = d /\ own[q][2] \in Kinds) => t.mem[q] = s.mem[q]

(* Growing is transitive, and building is growing.                          *)
LEMMA GrowsOn ==
    ASSUME NEW s, NEW own, NEW t, NEW own2, NEW d
    PROVE  /\ Builds(s, own, t, own2, d, {}) => Grows(s, own, t, own2, d)
           /\ \A u, own3 : Grows(s, own, t, own2, d) /\ Grows(t, own2, u, own3, d)
                             => Grows(s, own, u, own3, d)
<1>1. Builds(s, own, t, own2, d, {}) => Grows(s, own, t, own2, d)
    BY DEF Builds, Grows, Kinds
<1>2. ASSUME NEW u, NEW own3, Grows(s, own, t, own2, d), Grows(t, own2, u, own3, d)
      PROVE  Grows(s, own, u, own3, d)
  <2> SUFFICES ASSUME NEW q \in Pages
               PROVE  /\ own[q] # Spare => own3[q] = own[q]
                      /\ own[q] = Spare =>
                           own3[q] = Spare \/ (own3[q][1] = d /\ own3[q][2] \in Kinds)
                      /\ own[q] # Spare /\ ~(own[q][1] = d /\ own[q][2] \in Kinds)
                           => u.mem[q] = s.mem[q]
      BY DEF Grows
  <2>1. /\ own[q] # Spare => own2[q] = own[q]
        /\ own[q] = Spare => own2[q] = Spare \/ (own2[q][1] = d /\ own2[q][2] \in Kinds)
        /\ own[q] # Spare /\ ~(own[q][1] = d /\ own[q][2] \in Kinds) => t.mem[q] = s.mem[q]
      BY <1>2 DEF Grows
  <2>2. /\ own2[q] # Spare => own3[q] = own2[q]
        /\ own2[q] = Spare => own3[q] = Spare \/ (own3[q][1] = d /\ own3[q][2] \in Kinds)
        /\ own2[q] # Spare /\ ~(own2[q][1] = d /\ own2[q][2] \in Kinds) => u.mem[q] = t.mem[q]
      BY <1>2 DEF Grows
  <2>3. QED
      BY <2>1, <2>2
<1>3. QED
    BY <1>1, <1>2
-----------------------------------------------------------------------------
(* Directories                                                              *)

GiveDir(own, pg) ==
    [q \in Pages |-> IF q \in pg .. pg + DirPages - 1 THEN <<pg, "dir", q - pg>> ELSE own[q]]

(* vm_alloc_pg_dir makes a directory without tables.                        *)
LEMMA DirAllocated ==
    ASSUME NEW s \in States, NEW own, NEW D, s.ok => Layout(s, own, D), NEW r, r = AllocDir(s)
    PROVE  /\ r.pg \in Pages /\ r.s \in States /\ DOMAIN r = {"s", "pg"}
           /\ r.s.ok => /\ s.ok /\ r.pg \notin D
                        /\ \E own2 : /\ Layout(r.s, own2, D \cup {r.pg})
                                     /\ Grows(s, own, r.s, own2, r.pg)
                        /\ \A v \in VPs : Pte(r.s, r.pg, v) = 0
                        /\ \A c \in D : Alike(s, r.s, c)
<1>0. PICK b : b = AllocBlock(s, DirPages)
    OBVIOUS
<1> DEFINE pg == b.pg
<1> DEFINE blk == pg .. pg + DirPages - 1
<1>1. /\ pg \in Pages /\ b.s \in States
      /\ b.s.ok => /\ s.ok /\ blk \subseteq s.free
                   /\ b.s.free = s.free \ blk /\ b.s.twice = s.twice
                   /\ \A q \in Pages : b.s.mem[q] = IF q \in blk THEN Junk ELSE s.mem[q]
    BY <1>0, BlockTaken, MemSizes
<1>2. r.pg = pg /\ r.s = PutPage(b.s, pg, ZeroPage) /\ DOMAIN r = {"s", "pg"}
  <2>1. DOMAIN b = {"s", "pg"} /\ b = [s |-> b.s, pg |-> b.pg]
      BY <1>0 DEF AllocBlock
  <2>2. r = [b EXCEPT !.s.mem[b.pg] = ZeroPage]
      BY <1>0 DEF AllocDir
  <2>3. r = [b EXCEPT !.s = PutPage(b.s, b.pg, ZeroPage)]
      BY <2>1, <2>2 DEF PutPage
  <2>4. QED
      BY <2>1, <2>3
<1>3. Wrote(b.s, r.s, pg) /\ r.s.mem[pg] = ZeroPage
    BY <1>1, <1>2, WritePage, PageSets
<1> HIDE DEF pg
<1>4. r.pg \in Pages /\ r.s \in States
    BY <1>1, <1>2, <1>3 DEF Wrote
<1> SUFFICES ASSUME r.s.ok
             PROVE  /\ s.ok /\ pg \notin D
                    /\ \E own2 : /\ Layout(r.s, own2, D \cup {pg})
                                 /\ Grows(s, own, r.s, own2, pg)
                    /\ \A v \in VPs : Pte(r.s, pg, v) = 0
                    /\ \A c \in D : Alike(s, r.s, c)
    BY <1>2, <1>4
<1>5. /\ s.ok /\ blk \subseteq s.free /\ r.s.free = s.free \ blk /\ r.s.twice = s.twice
      /\ \A q \in Pages : q \notin blk => r.s.mem[q] = s.mem[q]
      /\ Layout(s, own, D)
  <2>1. b.s.ok /\ r.s.free = b.s.free /\ r.s.twice = b.s.twice
      BY <1>3 DEF Wrote
  <2>2. pg \in blk
      BY <1>1, PageSets, MemSizes
  <2>3. \A q \in Pages : q \notin blk => r.s.mem[q] = b.s.mem[q]
      BY <1>3, <2>2 DEF Wrote
  <2>4. QED
      BY <1>1, <2>1, <2>3
<1> DEFINE own2 == GiveDir(own, pg)
<1>6. \A q \in Pages : q \in blk => own[q] = Spare
    BY <1>5 DEF Layout
<1>7. pg \in blk /\ pg \in Nat /\ pg # 0 /\ DirPages \in Nat \ {0} /\ blk \subseteq Pages
  <2>1. s.free \subseteq Pages
      BY DEF States
  <2>2. QED
      BY <1>1, <1>5, <2>1, PageSets, MemSizes
<1>8. \A c \in D : c \in Pages /\ c \notin blk /\ c # pg
    BY <1>5, <1>6, <1>7, Apartness
<1>9. \A i \in 0 .. W - 1 : TableAt(r.s, pg, i) = 0
  <2>1. ASSUME NEW i \in 0 .. W - 1 PROVE ~Present(ZeroPage[i])
      BY Entries DEF ZeroPage
  <2>2. QED
      BY <1>3, <2>1 DEF TableAt
<1>10. \A v \in VPs : Pte(r.s, pg, v) = 0
    BY <1>9, DivMod, Views
<1>11. ASSUME NEW c \in D PROVE Alike(s, r.s, c)
  <2>1. \A q \in Pages : own[q][2] = "table" => q \notin blk
      BY <1>5, <1>6, Apartness
  <2>2. QED
      BY <1>5, <1>8, <2>1, Framed
<1>a. /\ \A q \in blk : q - pg \in 0 .. DirPages - 1 /\ q = pg + (q - pg)
      /\ \A i \in 0 .. DirPages - 1 : pg + i \in blk /\ (pg + i) - pg = i
    BY <1>7
<1>b. \A q \in Pages : own2[q] = IF q \in blk THEN <<pg, "dir", q - pg>> ELSE own[q]
    BY DEF GiveDir
<1> HIDE DEF blk, own2
<1>12. /\ \A q \in Pages : q \notin blk => own2[q] = own[q]
       /\ \A q \in blk : /\ own2[q] = <<pg, "dir", q - pg>> /\ own2[q][1] = pg
                          /\ own2[q][2] = "dir" /\ own2[q][3] = q - pg /\ own2[q] # Spare
  <2>1. \A q \in Pages : q \notin blk => own2[q] = own[q]
      BY <1>b
  <2>2. ASSUME NEW q \in blk
        PROVE  /\ own2[q] = <<pg, "dir", q - pg>> /\ own2[q][1] = pg
               /\ own2[q][2] = "dir" /\ own2[q][3] = q - pg /\ own2[q] # Spare
    <3> DEFINE x == q - pg
    <3>1. own2[q] = <<pg, "dir", x>>
        BY <1>7, <1>b
    <3> HIDE DEF x
    <3>2. own2[q][1] = pg /\ own2[q][2] = "dir" /\ own2[q][3] = x /\ own2[q] # Spare
        BY <3>1 DEF Spare
    <3>3. QED
        BY <3>1, <3>2 DEF x
  <2>3. QED
      BY <2>1, <2>2
<1>13. own2 \in [Pages -> Role]
  <2>1. \A q \in Pages : own2[q] \in Role
    <3>1. \A q \in Pages : own[q] \in Role
        BY <1>5, Apartness
    <3>2. \A q \in Pages : <<pg, "dir", q - pg>> \in Role
        BY <1>1 DEF Role, Pages
    <3>3. QED
        BY <1>b, <3>1, <3>2
  <2>2. own2 = [q \in Pages |-> own2[q]]
      BY DEF own2, GiveDir
  <2>3. QED
      BY <2>1, <2>2
<1> DEFINE E == D \cup {pg}
<1>14. DirsOwned(own2, E)
  <2>1. DirsOwned(own, D) /\ Spare[2] = "free"
      BY <1>5, Apartness DEF Layout
  <2>2. ASSUME NEW d \in E, NEW i \in 0 .. DirPages - 1
        PROVE  d + i \in Pages /\ own2[d + i] = <<d, "dir", i>>
    <3>1. CASE d = pg
      <4>1. d + i \in blk /\ (d + i) - pg = i
          BY <1>a, <3>1
      <4> DEFINE q == d + i
      <4>2. q \in blk /\ q \in Pages /\ q - pg = i
          BY <1>7, <4>1
      <4> HIDE DEF q
      <4>3. own2[q] = <<pg, "dir", i>>
          BY <1>12, <4>2
      <4>4. QED
          BY <3>1, <4>2, <4>3 DEF q
    <3>2. CASE d # pg
      <4>1. d \in D /\ d + i \in Pages /\ own[d + i] = <<d, "dir", i>>
          BY <2>1, <3>2 DEF DirsOwned
      <4> DEFINE q == d + i
      <4> HIDE DEF q
      <4>2. q \in Pages /\ own[q] = <<d, "dir", i>>
          BY <4>1 DEF q
      <4>3. q \notin blk
          BY <1>6, <2>1, <4>2
      <4>4. own2[q] = <<d, "dir", i>>
          BY <1>12, <4>2, <4>3
      <4>5. QED
          BY <4>2, <4>4 DEF q
    <3>3. QED
        BY <3>1, <3>2
  <2>3. ASSUME NEW q \in Pages, own2[q][2] = "dir"
        PROVE  /\ own2[q][1] \in E /\ own2[q][3] \in 0 .. DirPages - 1
               /\ q = own2[q][1] + own2[q][3]
    <3>1. CASE q \in blk
        BY <1>a, <1>12, <3>1
    <3>2. CASE q \notin blk
        BY <1>12, <2>1, <2>3, <3>2 DEF DirsOwned
    <3>3. QED
        BY <3>1, <3>2
  <2>4. E \subseteq Pages
      BY <1>1, <1>8
  <2> HIDE DEF E
  <2>5. QED
      BY <2>2, <2>3, <2>4 DEF DirsOwned
<1>15. TablesOwned(r.s, own2, E)
  <2>1. TablesOwned(s, own, D) /\ Spare[2] = "free"
      BY <1>5, Apartness DEF Layout
  <2>2. \A c \in D, i \in 0 .. W - 1 : TableAt(r.s, c, i) = TableAt(s, c, i)
      BY <1>11 DEF Alike
  <2>3. ASSUME NEW d \in E, NEW i \in 0 .. W - 1, TableAt(r.s, d, i) # 0
        PROVE  TableAt(r.s, d, i) \in Pages /\ own2[TableAt(r.s, d, i)] = <<d, "table", i>>
    <3>1. d \in D /\ TableAt(r.s, d, i) = TableAt(s, d, i)
        BY <1>9, <2>2, <2>3
    <3>2. TableAt(s, d, i) \in Pages /\ own[TableAt(s, d, i)] = <<d, "table", i>>
        BY <2>1, <2>3, <3>1 DEF TablesOwned
    <3>3. QED
        BY <1>6, <1>12, <2>1, <3>1, <3>2
  <2>4. \A q \in Pages : own2[q][2] = "table" => own2[q] = own[q]
      BY <1>12
  <2>5. QED
      BY <2>1, <2>2, <2>3, <2>4 DEF TablesOwned
<1>16. PagesOwned(r.s, own2, E)
  <2>1. PagesOwned(s, own, D) /\ Spare[2] = "free"
      BY <1>5, Apartness DEF Layout
  <2>2. \A c \in D, v \in UserVPs : PageAt(r.s, c, v) = PageAt(s, c, v)
      BY <1>11, Places DEF Alike, PageAt
  <2>3. ASSUME NEW d \in E, NEW v \in UserVPs, PageAt(r.s, d, v) # 0
        PROVE  PageAt(r.s, d, v) \in Pages /\ own2[PageAt(r.s, d, v)] = <<d, "page", v>>
    <3>1. d \in D /\ PageAt(r.s, d, v) = PageAt(s, d, v)
        BY <1>10, <2>2, <2>3, Places, Entries DEF PageAt
    <3>2. PageAt(s, d, v) \in Pages /\ own[PageAt(s, d, v)] = <<d, "page", v>>
        BY <2>1, <2>3, <3>1 DEF PagesOwned
    <3>3. QED
        BY <1>6, <1>12, <2>1, <3>1, <3>2
  <2>4. \A q \in Pages : own2[q][2] = "page" => own2[q] = own[q]
      BY <1>12
  <2>5. QED
      BY <2>1, <2>2, <2>3, <2>4 DEF PagesOwned
<1>17. Layout(r.s, own2, E)
  <2>1. \A q \in Pages : q \in r.s.free <=> own2[q] = Spare
      BY <1>5, <1>12 DEF Layout, Spare
  <2>2. r.s.twice = FALSE
      BY <1>5 DEF Layout
  <2>3. QED
      BY <1>13, <1>14, <1>15, <1>16, <2>1, <2>2 DEF Layout
<1>18. Grows(s, own, r.s, own2, pg)
    BY <1>5, <1>6, <1>12 DEF Grows, Kinds
<1>19. QED
    BY <1>5, <1>8, <1>10, <1>11, <1>17, <1>18

(* After k steps of kernel_map_init.                                        *)
KernelIn(s, d) == \A i \in 0 .. W - 1 : Pte(s, d, KernelPage + i) = Entry(i + 1, FALSE)
KernelPart(s, own, D, d, k, t) ==
    /\ s.ok /\ \E own2 : Layout(t, own2, D) /\ Builds(s, own, t, own2, d, {})
    /\ \A i \in 0 .. k - 1 : Pte(t, d, KernelPage + i) = Entry(i + 1, FALSE)
    /\ \A v \in UserVPs : Pte(t, d, v) = Pte(s, d, v)
    /\ \A c \in D, v \in VPs : c # d => Pte(t, c, v) = Pte(s, c, v)
KernelSteps(s, own, D, d, k) == {t \in States : t.ok => KernelPart(s, own, D, d, k, t)}

(* One step of kernel_map_init.                                             *)
LEMMA KernelStep ==
    ASSUME NEW s \in States, NEW own, NEW D, s.ok => Layout(s, own, D), NEW d \in D,
           d \in Pages, NEW k \in 0 .. W - 1, NEW x \in KernelSteps(s, own, D, d, k)
    PROVE  Map(x, d, KernelPage + k, k + 1, FALSE) \in KernelSteps(s, own, D, d, k + 1)
<1> DEFINE vp == KernelPage + k
<1>0. PICK t : t = Map(x, d, vp, k + 1, FALSE)
    OBVIOUS
<1>1. /\ vp \in VPs \ UserVPs /\ k + 1 \in Nat \ {0} /\ d # 0
      /\ \A i \in 0 .. k : KernelPage + i \in VPs /\ (i # k => KernelPage + i # vp)
  <2>1. KernelPage \in Nat /\ W \in Nat
      BY MemSizes DEF KernelPage
  <2>2. vp \in VPs \ UserVPs /\ k + 1 \in Nat \ {0} /\ d # 0
      BY Places, PageSets
  <2>3. ASSUME NEW i \in 0 .. k PROVE KernelPage + i \in VPs /\ (i # k => KernelPage + i # vp)
    <3>1. i \in 0 .. W - 1
        BY <2>1
    <3>2. QED
        BY <2>1, <3>1, Places
  <2>4. QED
      BY <2>2, <2>3
<1> HIDE DEF vp
<1>2. /\ x \in States
      /\ x.ok => /\ s.ok /\ \E own2 : Layout(x, own2, D) /\ Builds(s, own, x, own2, d, {})
                 /\ \A i \in 0 .. k - 1 : Pte(x, d, KernelPage + i) = Entry(i + 1, FALSE)
                 /\ \A v \in UserVPs : Pte(x, d, v) = Pte(s, d, v)
                 /\ \A c \in D, v \in VPs : c # d => Pte(x, c, v) = Pte(s, c, v)
    BY DEF KernelSteps, KernelPart
<1>3. PICK own1 : x.ok => Layout(x, own1, D) /\ Builds(s, own, x, own1, d, {})
    BY <1>2
<1>4. /\ t \in States
      /\ t.ok => /\ x.ok /\ ~Present(Pte(x, d, vp))
                 /\ \E own2 : Layout(t, own2, D) /\ Builds(x, own1, t, own2, d, {})
                 /\ \A c \in D, v \in VPs : Pte(t, c, v) =
                       IF c = d /\ v = vp THEN Entry(k + 1, FALSE) ELSE Pte(x, c, v)
  <2> DEFINE pg == k + 1
  <2> DEFINE no == FALSE
  <2> HIDE DEF pg, no
  <2>1. pg \in Nat \ {0} /\ no \in BOOLEAN /\ t = Map(x, d, vp, pg, no)
      BY <1>0, <1>1 DEF pg, no
  <2>2. /\ t \in States
        /\ t.ok => /\ x.ok /\ ~Present(Pte(x, d, vp))
                   /\ \E own2 : Layout(t, own2, D) /\ Builds(x, own1, t, own2, d, {})
                   /\ \A c \in D, v \in VPs : Pte(t, c, v) =
                         IF c = d /\ v = vp THEN Entry(pg, no) ELSE Pte(x, c, v)
    <3>1. x \in States /\ (x.ok => Layout(x, own1, D))
        BY <1>2, <1>3
    <3>2. QED
        BY <1>1, <2>1, <3>1, KernelEntry
  <2>3. QED
      BY <2>2 DEF pg, no
<1>5. ASSUME t.ok PROVE KernelPart(s, own, D, d, k + 1, t)
  <2>1. PICK own2 : Layout(t, own2, D) /\ Builds(x, own1, t, own2, d, {})
      BY <1>4, <1>5
  <2>2. Builds(s, own, t, own2, d, {})
      BY <1>1, <1>3, <1>4, <1>5, <2>1, BuildsOn
  <2>3. ASSUME NEW i \in 0 .. (k + 1) - 1 PROVE Pte(t, d, KernelPage + i) = Entry(i + 1, FALSE)
    <3>1. CASE i = k
        BY <1>1, <1>4, <1>5, <3>1 DEF vp
    <3>2. CASE i # k
      <4>1. i \in 0 .. k - 1 /\ i \in 0 .. k
          BY <3>2
      <4>2. KernelPage + i \in VPs /\ KernelPage + i # vp
          BY <1>1, <3>2, <4>1
      <4>3. Pte(t, d, KernelPage + i) = Pte(x, d, KernelPage + i)
          BY <1>4, <1>5, <4>2
      <4>4. QED
          BY <1>2, <1>4, <1>5, <4>1, <4>3
    <3>3. QED
        BY <3>1, <3>2
  <2>4. \A v \in UserVPs : Pte(t, d, v) = Pte(s, d, v)
      BY <1>1, <1>2, <1>4, <1>5, Places
  <2>5. \A c \in D, v \in VPs : c # d => Pte(t, c, v) = Pte(s, c, v)
      BY <1>2, <1>4, <1>5
  <2>6. QED
      BY <1>2, <1>4, <1>5, <2>1, <2>2, <2>3, <2>4, <2>5 DEF KernelPart
<1>6. t \in KernelSteps(s, own, D, d, k + 1)
    BY <1>4, <1>5 DEF KernelSteps
<1>7. QED
    BY <1>0, <1>6 DEF vp

(* kernel_map_init maps the kernel and nothing else.                        *)
LEMMA KernelBuilt ==
    ASSUME NEW s \in States, NEW own, NEW D, s.ok => Layout(s, own, D), NEW d \in D, d \in Pages
    PROVE  KernelMap(s, d) \in KernelSteps(s, own, D, d, W)
<1> DEFINE T == [k \in 0 .. W |-> KernelSteps(s, own, D, d, k)]
<1> DEFINE Do(x, k) == Map(x, d, KernelPage + k, k + 1, FALSE)
<1> DEFINE h == [k \in 0 .. W - 1 |-> [x \in T[k] |-> Do(x, k)]]
<1> DEFINE g == CHOOSE at : at = [k \in 0 .. W |-> IF k = 0 THEN s ELSE Do(at[k - 1], k - 1)]
<1>1. W \in Nat /\ 0 \in 0 .. W /\ W \in 0 .. W
    BY MemSizes
<1>2. s \in T[0]
  <2>1. Builds(s, own, s, own, d, {})
      BY DEF Builds
  <2>2. s \in KernelSteps(s, own, D, d, 0)
    <3>1. KernelPart(s, own, D, d, 0, s) \/ ~s.ok
        BY <2>1 DEF KernelPart
    <3>2. QED
        BY <3>1 DEF KernelSteps
  <2>3. QED
      BY <1>1, <2>2
<1>3. KernelMap(s, d) = g[W]
    BY Zenon DEF KernelMap, Iterate
<1>4. ASSUME NEW k \in 0 .. W - 1, NEW x \in T[k] PROVE Do(x, k) \in T[k + 1]
  <2>1. x \in KernelSteps(s, own, D, d, k) /\ k + 1 \in 0 .. W
      BY <1>1
  <2>2. Do(x, k) \in KernelSteps(s, own, D, d, k + 1)
      BY <2>1, KernelStep
  <2> HIDE DEF Do
  <2>3. QED
      BY <2>1, <2>2
<1>5. T[W] = KernelSteps(s, own, D, d, W) /\ \A k \in 0 .. W : T[k] \subseteq States
    BY <1>1 DEF KernelSteps
<1> HIDE DEF T, Do, g
<1>6. \A k \in 0 .. W - 1 : \A x \in T[k] : h[k][x] = Do(x, k)
    OBVIOUS
<1> HIDE DEF h
<1>7. PICK f \in [0 .. W -> States] :
         f[0] = s /\ \A k \in 0 .. W - 1 : f[k] \in T[k] /\ f[k + 1] = h[k][f[k]]
  <2>1. \A k \in 0 .. W - 1 : \A x \in T[k] : h[k][x] \in T[k + 1]
      BY <1>4, <1>6
  <2>2. Leads(W, States, T, h, s)
      BY <1>1, <1>2, <1>5, <2>1 DEF Leads
  <2>3. PICK f : Taken(f, W, States, T, h, s)
      BY <2>2, LoopRuns
  <2>4. QED
      BY <2>3 DEF Taken
<1>8. f = [k \in 0 .. W |-> IF k = 0 THEN s ELSE Do(f[k - 1], k - 1)]
  <2>1. ASSUME NEW k \in 0 .. W PROVE f[k] = IF k = 0 THEN s ELSE Do(f[k - 1], k - 1)
    <3>1. k # 0 => k - 1 \in 0 .. W - 1 /\ k - 1 + 1 = k
        BY <1>1
    <3>2. QED
        BY <1>6, <1>7, <3>1
  <2>2. f = [k \in 0 .. W |-> f[k]]
      OBVIOUS
  <2>3. QED
      BY <2>1, <2>2
<1>9. g = [k \in 0 .. W |-> IF k = 0 THEN s ELSE Do(g[k - 1], k - 1)]
    BY <1>8 DEF g
<1>10. g[0] = s /\ \A k \in 0 .. W - 1 : g[k + 1] = Do(g[k], k)
  <2>1. \A k \in 0 .. W : g[k] = IF k = 0 THEN s ELSE Do(g[k - 1], k - 1)
      BY <1>9
  <2>2. ASSUME NEW k \in 0 .. W - 1 PROVE g[k + 1] = Do(g[k], k)
    <3>1. k + 1 \in 0 .. W /\ k + 1 # 0 /\ k + 1 - 1 = k
        BY <1>1
    <3>2. QED
        BY <2>1, <3>1
  <2>3. QED
      BY <1>1, <2>1, <2>2
<1>11. g[W] \in T[W]
    BY <1>1, <1>2, <1>4, <1>10, LoopEnds
<1>12. QED
    BY <1>3, <1>5, <1>11

(* A directory as every caller has it.                                      *)
DirNew(s, own, D, pg, t) ==
    /\ s.ok /\ pg \notin D
    /\ \E own2 : Layout(t, own2, D \cup {pg}) /\ Grows(s, own, t, own2, pg)
    /\ KernelIn(t, pg)
    /\ \A v \in UserVPs : Pte(t, pg, v) = 0
    /\ \A c \in D, v \in VPs : Pte(t, c, v) = Pte(s, c, v)

(* What NewDir makes, if it does not stop.                                  *)
LEMMA DirMade ==
    ASSUME NEW s \in States, NEW own, NEW D, s.ok => Layout(s, own, D), NEW r, r = NewDir(s)
    PROVE  r.pg \in Pages /\ r.s \in States /\ (r.s.ok => DirNew(s, own, D, r.pg, r.s))
<1>0. PICK a : a = AllocDir(s)
    OBVIOUS
<1> DEFINE pg == a.pg
<1> DEFINE E == D \cup {pg}
<1>1. /\ pg \in Pages /\ a.s \in States /\ DOMAIN a = {"s", "pg"}
      /\ a.s.ok => /\ s.ok /\ pg \notin D
                   /\ \E own2 : Layout(a.s, own2, E) /\ Grows(s, own, a.s, own2, pg)
                   /\ \A v \in VPs : Pte(a.s, pg, v) = 0
                   /\ \A c \in D : Alike(s, a.s, c)
    BY <1>0, DirAllocated
<1>2. r = IF a.s.ok THEN [a EXCEPT !.s = KernelMap(a.s, pg)] ELSE a
    BY <1>0 DEF NewDir
<1>3. CASE ~a.s.ok
    BY <1>1, <1>2, <1>3
<1>4. CASE a.s.ok
  <2>1. r.pg = pg /\ r.s = KernelMap(a.s, pg)
      BY <1>1, <1>2, <1>4
  <2>2. PICK own1 : Layout(a.s, own1, E) /\ Grows(s, own, a.s, own1, pg)
      BY <1>1, <1>4
  <2>3. pg \in E
      OBVIOUS
  <2>4. D \subseteq E /\ \A c \in D : c # pg
      BY <1>1, <1>4
  <2> HIDE DEF E, pg
  <2>5. KernelMap(a.s, pg) \in KernelSteps(a.s, own1, E, pg, W)
      BY <1>1, <2>2, <2>3, KernelBuilt
  <2>6. r.s \in States /\ (r.s.ok => KernelPart(a.s, own1, E, pg, W, r.s))
      BY <2>1, <2>5 DEF KernelSteps
  <2>7. ASSUME r.s.ok
        PROVE  /\ s.ok /\ pg \notin D
               /\ \E own2 : Layout(r.s, own2, E) /\ Grows(s, own, r.s, own2, pg)
               /\ KernelIn(r.s, pg)
               /\ \A v \in UserVPs : Pte(r.s, pg, v) = 0
               /\ \A c \in D, v \in VPs : Pte(r.s, c, v) = Pte(s, c, v)
    <3>1. KernelPart(a.s, own1, E, pg, W, r.s)
        BY <2>6, <2>7
    <3>2. PICK own2 : Layout(r.s, own2, E) /\ Builds(a.s, own1, r.s, own2, pg, {})
        BY <3>1 DEF KernelPart
    <3>3. Grows(s, own, r.s, own2, pg)
        BY <2>2, <3>2, GrowsOn
    <3>4. KernelIn(r.s, pg)
        BY <3>1 DEF KernelPart, KernelIn
    <3>5. \A v \in UserVPs : Pte(r.s, pg, v) = 0
        BY <1>1, <1>4, <3>1, Places DEF KernelPart
    <3>6. \A c \in D, v \in VPs : Pte(r.s, c, v) = Pte(s, c, v)
      <4>1. \A c \in D, v \in VPs : Pte(r.s, c, v) = Pte(a.s, c, v)
          BY <2>4, <3>1 DEF KernelPart
      <4>2. \A c \in D, v \in VPs : Pte(a.s, c, v) = Pte(s, c, v)
          BY <1>1, <1>4 DEF Alike
      <4>3. QED
          BY <4>1, <4>2
    <3>7. QED
        BY <1>1, <1>4, <3>2, <3>3, <3>4, <3>5, <3>6
  <2>8. r.s.ok => DirNew(s, own, D, pg, r.s)
      BY <2>7 DEF DirNew, E
  <2>9. pg \in Pages
      BY <1>1
  <2>10. QED
      BY <2>1, <2>6, <2>8, <2>9
<1>5. QED
    BY <1>3, <1>4
-----------------------------------------------------------------------------
(* A process's pages                                                        *)

(* A page that is no directory and no table may be written.                 *)
LEMMA Written ==
    ASSUME NEW s \in States, NEW own, NEW D, Layout(s, own, D), NEW pg, NEW t, Wrote(s, t, pg),
           pg \in Pages => own[pg][2] \notin {"dir", "table"}
    PROVE  Layout(t, own, D) /\ \A c \in D, v \in VPs : Pte(t, c, v) = Pte(s, c, v)
<1>1. ASSUME NEW c \in D PROVE Alike(s, t, c)
  <2>1. c \in Pages /\ c # pg
      BY Apartness
  <2>2. \A q \in Pages : own[q][2] = "table" => q # pg
      OBVIOUS
  <2>3. t.mem[c] = s.mem[c] /\ \A q \in Pages : own[q][2] = "table" => t.mem[q] = s.mem[q]
      BY <2>1, <2>2 DEF Wrote
  <2>4. QED
      BY <2>3, Framed
<1>2. own \in [Pages -> Role] /\ t.twice = FALSE /\ \A q \in Pages : q \in t.free <=> own[q] = Spare
    BY DEF Layout, Wrote
<1>3. Layout(t, own, D)
    BY <1>1, <1>2, Relabelled
<1>4. QED
    BY <1>1, <1>3 DEF Alike

(* A page is allocated, filled and mapped.                                  *)
PageAdd(s, own, D, d, vp, pg, user, words, t) ==
    /\ s.ok /\ ~Present(Pte(s, d, vp)) /\ own[pg] = Spare
    /\ \E own2 : Layout(t, own2, D) /\ Builds(s, own, t, own2, d, {})
    /\ t.mem[pg] = words
    /\ \A c \in D, v \in VPs : Pte(t, c, v) =
          IF c = d /\ v = vp THEN Entry(pg, user) ELSE Pte(s, c, v)

(* A page that is allocated, filled and mapped belongs to the directory.    *)
LEMMA PageAdded ==
    ASSUME NEW s \in States, NEW own, NEW D, s.ok => Layout(s, own, D), NEW d \in D, d \in Pages,
           NEW vp \in UserVPs, NEW user \in BOOLEAN, NEW r, r = Alloc(s),
           NEW u, Wrote(r.s, u, r.pg), NEW t, t = Map(u, d, vp, r.pg, user)
    PROVE  /\ t \in States /\ r.pg \in Pages
           /\ t.ok => r.s.ok /\ PageAdd(s, own, D, d, vp, r.pg, user, u.mem[r.pg], t)
<1> DEFINE pg == r.pg
<1> DEFINE own1 == Give(own, pg, InHand)
<1>1. /\ pg \in Pages /\ r.s \in States
      /\ r.s.ok => /\ s.ok /\ own[pg] = Spare /\ Layout(r.s, own1, D)
                   /\ \A c \in D : Alike(s, r.s, c)
                   /\ \A q \in Pages : q # pg => r.s.mem[q] = s.mem[q]
    BY PageTaken
<1>2. u \in States /\ (u.ok <=> r.s.ok) /\ \A q \in Pages : q # pg => u.mem[q] = r.s.mem[q]
    BY DEF Wrote
<1>3. u.ok => /\ own1[pg] = InHand /\ (\A q \in Pages : q # pg => own1[q] = own[q])
              /\ Layout(s, own, D) /\ InHand[2] = "hand" /\ Spare[2] = "free"
  <2> SUFFICES ASSUME u.ok PROVE /\ own1[pg] = InHand
                                 /\ \A q \in Pages : q # pg => own1[q] = own[q]
                                 /\ Layout(s, own, D) /\ InHand[2] = "hand" /\ Spare[2] = "free"
      OBVIOUS
  <2>1. Layout(s, own, D)
      BY <1>1, <1>2
  <2>2. own \in [Pages -> Role] /\ InHand \in Role
      BY <2>1, Apartness DEF Layout
  <2>3. QED
      BY <1>1, <2>1, <2>2, Given, Apartness
<1> HIDE DEF own1
<1>4. u.ok => Layout(u, own1, D) /\ \A c \in D, v \in VPs : Pte(u, c, v) = Pte(r.s, c, v)
    BY <1>1, <1>2, <1>3, Written
<1>5. /\ t \in States
      /\ t.ok => /\ u.ok /\ ~Present(Pte(u, d, vp))
                 /\ \E own2 : /\ Layout(t, own2, D) /\ own2[pg] = <<d, "page", vp>>
                              /\ BuildsBut(u, own1, t, own2, d, pg)
                 /\ t.mem[pg] = u.mem[pg]
                 /\ \A c \in D, v \in VPs : Pte(t, c, v) =
                       IF c = d /\ v = vp THEN Entry(pg, user) ELSE Pte(u, c, v)
  <2>1. pg \in Pages /\ u \in States /\ (u.ok => Layout(u, own1, D)) /\ (u.ok => own1[pg] = InHand)
      BY <1>1, <1>2, <1>3, <1>4
  <2> HIDE DEF pg
  <2>2. t = Map(u, d, vp, pg, user)
      BY DEF pg
  <2>3. t \in States /\ (t.ok => UserMap(u, own1, D, d, vp, pg, user, t))
      BY <2>1, <2>2, UserMapped
  <2>4. QED
      BY <2>3 DEF UserMap
<1> HIDE DEF pg
<1>6. ASSUME t.ok PROVE r.s.ok /\ PageAdd(s, own, D, d, vp, pg, user, u.mem[pg], t)
  <2>1. u.ok /\ r.s.ok
      BY <1>2, <1>5, <1>6
  <2>2. \A c \in D, v \in VPs : Pte(u, c, v) = Pte(s, c, v)
      BY <1>1, <1>4, <2>1 DEF Alike
  <2>3. PICK own2 : /\ Layout(t, own2, D) /\ own2[pg] = <<d, "page", vp>>
                    /\ BuildsBut(u, own1, t, own2, d, pg)
      BY <1>5, <1>6
  <2>4. Builds(s, own, t, own2, d, {})
    <3> SUFFICES ASSUME NEW q \in Pages
                 PROVE  /\ own[q] # Spare => own2[q] = own[q]
                        /\ own[q] = Spare =>
                             own2[q] = Spare \/ (own2[q][1] = d /\ own2[q][2] \in {"table", "page"})
                        /\ own[q] # Spare /\ ~(own[q][1] = d /\ own[q][2] \in {"dir", "table"})
                             => t.mem[q] = s.mem[q]
        BY DEF Builds
    <3>1. CASE q = pg
        BY <1>1, <2>1, <2>3, <3>1
    <3>2. CASE q # pg
      <4>1. own1[q] = own[q] /\ u.mem[q] = s.mem[q]
          BY <1>1, <1>2, <1>3, <2>1, <3>2
      <4>2. /\ own1[q] # Spare => own2[q] = own1[q]
            /\ own1[q] = Spare =>
                 own2[q] = Spare \/ (own2[q][1] = d /\ own2[q][2] \in {"table", "page"})
            /\ own1[q] # Spare /\ ~(own1[q][1] = d /\ own1[q][2] \in {"dir", "table"})
                 => t.mem[q] = u.mem[q]
          BY <2>3, <3>2 DEF Builds, BuildsBut
      <4>3. QED
          BY <4>1, <4>2
    <3>3. QED
        BY <3>1, <3>2
  <2>5. ~Present(Pte(s, d, vp))
      BY <1>5, <1>6, <2>2, Places
  <2>6. \A c \in D, v \in VPs : Pte(t, c, v) =
           IF c = d /\ v = vp THEN Entry(pg, user) ELSE Pte(s, c, v)
      BY <1>5, <1>6, <2>2
  <2>7. QED
      BY <1>1, <1>5, <1>6, <2>1, <2>3, <2>4, <2>5, <2>6 DEF PageAdd
<1>7. QED
    BY <1>1, <1>5, <1>6 DEF pg

(* Rounding up to pages.                                                    *)
LEMMA Rounding ==
    /\ \A x \in Nat : Ceil(x) \in Nat
    /\ \A x, n \in Nat : x <= W * n => Ceil(x) <= n
    /\ \A x, n \in Nat : Ceil(x) <= n => x <= W * n
    /\ \A n \in Nat : Ceil(W * n) = n
    /\ \A x, y \in Nat : x <= y => Ceil(x) <= Ceil(y)
<1>1. W \in Nat \ {0} /\ W - 1 \in Nat
    BY MemSizes
<1>2. ASSUME NEW x \in Nat PROVE Ceil(x) \in Nat /\ x <= W * Ceil(x) /\ W * Ceil(x) < x + W
  <2> DEFINE y == x + (W - 1)
  <2> DEFINE q == y \div W
  <2> DEFINE m == y % W
  <2>1. y \in Nat /\ Ceil(x) = q
      BY <1>1 DEF Ceil
  <2>2. q \in Nat /\ m \in 0 .. W - 1 /\ y = W * q + m
    <3> HIDE DEF y
    <3>1. QED
        BY <1>1, <2>1, Quotient
  <2> HIDE DEF q, m
  <2>3. W * q \in Nat
      BY <1>1, <2>2
  <2>4. QED
      BY <1>1, <2>1, <2>2, <2>3
<1>3. ASSUME NEW x \in Nat, NEW n \in Nat, x <= W * n PROVE Ceil(x) <= n
  <2> DEFINE c == Ceil(x)
  <2>1. c \in Nat /\ W * c < x + W
      BY <1>2
  <2> HIDE DEF c
  <2>2. SUFFICES ASSUME c >= n + 1 PROVE FALSE
      BY <2>1 DEF c
  <2>3. W * c >= W * (n + 1)
      BY <1>1, <2>1, <2>2
  <2>4. W * (n + 1) = W * n + W /\ W * n \in Nat /\ W * c \in Nat
      BY <1>1, <2>1
  <2>5. QED
      BY <1>1, <1>3, <2>1, <2>3, <2>4
<1>4. ASSUME NEW x \in Nat, NEW n \in Nat, Ceil(x) <= n PROVE x <= W * n
  <2> DEFINE c == Ceil(x)
  <2>1. c \in Nat /\ x <= W * c /\ c <= n
      BY <1>2, <1>4
  <2> HIDE DEF c
  <2>2. W * c <= W * n /\ W * n \in Nat /\ W * c \in Nat
      BY <1>1, <2>1
  <2>3. QED
      BY <2>1, <2>2
<1>5. ASSUME NEW n \in Nat PROVE Ceil(W * n) = n
  <2>1. W * n \in Nat
      BY <1>1
  <2> DEFINE x == W * n
  <2> DEFINE c == Ceil(x)
  <2>2. c \in Nat /\ x <= W * c /\ c <= n
      BY <1>2, <1>3, <2>1
  <2> HIDE DEF c
  <2>3. SUFFICES ASSUME c <= n - 1 PROVE FALSE
      BY <2>2 DEF c
  <2>4. W * c <= W * (n - 1) /\ W * (n - 1) = W * n - W
      BY <1>1, <2>2, <2>3
  <2>5. W * c \in Nat
      BY <1>1, <2>2
  <2>6. QED
      BY <1>1, <2>1, <2>2, <2>4, <2>5
<1>6. ASSUME NEW x \in Nat, NEW y \in Nat, x <= y PROVE Ceil(x) <= Ceil(y)
  <2>1. Ceil(y) \in Nat /\ y <= W * Ceil(y)
      BY <1>2
  <2> DEFINE c == Ceil(y)
  <2> HIDE DEF c
  <2>2. c \in Nat /\ W * c \in Nat /\ y <= W * c
      BY <1>1, <2>1 DEF c
  <2>3. Ceil(x) <= c
      BY <1>3, <1>6, <2>2
  <2>4. QED
      BY <2>3 DEF c
<1>7. QED
    BY <1>2, <1>3, <1>4, <1>5, <1>6

(* After k steps of vm_resize from page `first' on.                         *)
GrowPart(s, own, D, d, first, k, t) ==
    /\ s.ok /\ \E own2 : Layout(t, own2, D) /\ Builds(s, own, t, own2, d, {})
    /\ \A v \in first .. first + k - 1 : Present(Pte(t, d, v)) /\ IsUser(Pte(t, d, v))
    /\ \A c \in D, v \in VPs : c # d \/ v \notin first .. first + k - 1 =>
          Pte(t, c, v) = Pte(s, c, v)
GrowSteps(s, own, D, d, first, k) ==
    {t \in States : t.ok => GrowPart(s, own, D, d, first, k, t)}

(* One page of vm_resize upwards.                                           *)
LEMMA GrowStep ==
    ASSUME NEW s \in States, NEW own, NEW D, s.ok => Layout(s, own, D), NEW d \in D,
           d \in Pages, NEW first \in Nat, NEW k \in Nat, first + k < KernelPage,
           NEW x \in GrowSteps(s, own, D, d, first, k)
    PROVE  MapNew(Alloc(x), d, first + k) \in GrowSteps(s, own, D, d, first, k + 1)
<1> DEFINE vp == first + k
<1> DEFINE yes == TRUE
<1>0. PICK r : r = Alloc(x)
    OBVIOUS
<1> DEFINE pg == r.pg
<1>t. PICK t : t = Map(r.s, d, vp, pg, yes)
    OBVIOUS
<1>k. KernelPage \in Nat
    BY MemSizes DEF KernelPage
<1>1. vp \in UserVPs /\ vp \in VPs /\ yes \in BOOLEAN /\ d # 0
    BY <1>k, Places, PageSets DEF UserVPs
<1>2. x \in States /\ (x.ok => GrowPart(s, own, D, d, first, k, x))
    BY DEF GrowSteps
<1>3. PICK own1 : x.ok => Layout(x, own1, D) /\ Builds(s, own, x, own1, d, {})
    BY <1>2 DEF GrowPart
<1>4. Wrote(r.s, r.s, pg)
  <2>1. r.s \in States
      BY <1>0, <1>2, BlockTaken DEF Alloc
  <2>2. QED
      BY <2>1 DEF Wrote
<1> HIDE DEF vp, yes
<1>5. /\ t \in States /\ pg \in Pages
      /\ t.ok => r.s.ok /\ PageAdd(x, own1, D, d, vp, pg, yes, r.s.mem[pg], t)
  <2>1. x \in States /\ (x.ok => Layout(x, own1, D))
      BY <1>2, <1>3
  <2>2. QED
      BY <1>0, <1>t, <1>1, <1>4, <2>1, PageAdded
<1> HIDE DEF pg
<1>6. Present(Entry(pg, yes)) /\ IsUser(Entry(pg, yes))
    BY <1>1, <1>5, PageSets, Entries DEF yes
<1>7. ASSUME t.ok PROVE GrowPart(s, own, D, d, first, k + 1, t)
  <2>1. PageAdd(x, own1, D, d, vp, pg, yes, r.s.mem[pg], t)
      BY <1>5, <1>7
  <2>2. x.ok /\ GrowPart(s, own, D, d, first, k, x) /\ Builds(s, own, x, own1, d, {})
      BY <1>2, <1>3, <2>1 DEF PageAdd
  <2>3. PICK own2 : Layout(t, own2, D) /\ Builds(x, own1, t, own2, d, {})
      BY <2>1 DEF PageAdd
  <2>4. Builds(s, own, t, own2, d, {})
      BY <1>1, <2>2, <2>3, BuildsOn
  <2>5. \A c \in D, v \in VPs : Pte(t, c, v) =
           IF c = d /\ v = vp THEN Entry(pg, yes) ELSE Pte(x, c, v)
      BY <2>1 DEF PageAdd
  <2>6. first .. first + (k + 1) - 1 = (first .. first + k - 1) \cup {vp} /\ vp \notin first .. first + k - 1
        /\ first .. first + k - 1 \subseteq VPs
    <3>1. first .. vp \subseteq UserVPs
        BY <1>k DEF vp, UserVPs
    <3>2. first .. first + (k + 1) - 1 = (first .. first + k - 1) \cup {vp}
          /\ vp \notin first .. first + k - 1 /\ first .. first + k - 1 \subseteq first .. vp
        BY DEF vp
    <3>3. QED
        BY <3>1, <3>2, Places
  <2>7. ASSUME NEW v \in first .. first + (k + 1) - 1
        PROVE  Present(Pte(t, d, v)) /\ IsUser(Pte(t, d, v))
    <3>1. CASE v = vp
        BY <1>1, <1>6, <2>5, <3>1
    <3>2. CASE v # vp
      <4>1. v \in first .. first + k - 1 /\ v \in VPs
          BY <2>6, <3>2
      <4>2. Pte(t, d, v) = Pte(x, d, v)
          BY <2>5, <3>2, <4>1
      <4>3. QED
          BY <2>2, <4>1, <4>2 DEF GrowPart
    <3>3. QED
        BY <3>1, <3>2
  <2>8. ASSUME NEW c \in D, NEW v \in VPs, c # d \/ v \notin first .. first + (k + 1) - 1
        PROVE  Pte(t, c, v) = Pte(s, c, v)
    <3>1. Pte(t, c, v) = Pte(x, c, v) /\ (c # d \/ v \notin first .. first + k - 1)
        BY <2>5, <2>6, <2>8
    <3>2. QED
        BY <2>2, <3>1 DEF GrowPart
  <2>9. s.ok
      BY <2>2 DEF GrowPart
  <2> DEFINE n == k + 1
  <2> HIDE DEF n
  <2>10. \A v \in first .. first + n - 1 : Present(Pte(t, d, v)) /\ IsUser(Pte(t, d, v))
      BY <2>7 DEF n
  <2>11. \A c \in D, v \in VPs : c # d \/ v \notin first .. first + n - 1 =>
           Pte(t, c, v) = Pte(s, c, v)
      BY <2>8 DEF n
  <2>12. GrowPart(s, own, D, d, first, n, t)
      BY <2>3, <2>4, <2>9, <2>10, <2>11 DEF GrowPart
  <2>13. QED
      BY <2>12 DEF n
<1>8. t \in GrowSteps(s, own, D, d, first, k + 1)
    BY <1>5, <1>7 DEF GrowSteps
<1>9. QED
    BY <1>0, <1>t, <1>8 DEF MapNew, pg, vp, yes

(* vm_resize upwards.                                                       *)
Growth(s, first, n, d) == Iterate(LAMBDA t, i : MapNew(Alloc(t), d, first + i), s, n)

(* All pages of vm_resize upwards.                                          *)
LEMMA GrowLoop ==
    ASSUME NEW s \in States, NEW own, NEW D, s.ok => Layout(s, own, D), NEW d \in D,
           d \in Pages, NEW first \in Nat, NEW n \in Nat, first + n <= KernelPage
    PROVE  Growth(s, first, n, d) \in GrowSteps(s, own, D, d, first, n)
<1> DEFINE T == [k \in 0 .. n |-> GrowSteps(s, own, D, d, first, k)]
<1> DEFINE Do(x, k) == MapNew(Alloc(x), d, first + k)
<1> DEFINE h == [k \in 0 .. n - 1 |-> [x \in T[k] |-> Do(x, k)]]
<1> DEFINE g == CHOOSE at : at = [k \in 0 .. n |-> IF k = 0 THEN s ELSE Do(at[k - 1], k - 1)]
<1>1. n \in Nat /\ 0 \in 0 .. n /\ n \in 0 .. n
    OBVIOUS
<1>2. s \in T[0]
  <2>1. Builds(s, own, s, own, d, {})
      BY DEF Builds
  <2>2. first .. first + 0 - 1 = {}
      OBVIOUS
  <2>3. GrowPart(s, own, D, d, first, 0, s) \/ ~s.ok
      BY <2>1, <2>2 DEF GrowPart
  <2>4. s \in GrowSteps(s, own, D, d, first, 0)
      BY <2>3 DEF GrowSteps
  <2>5. QED
      BY <1>1, <2>4
<1>3. Growth(s, first, n, d) = g[n]
    BY Zenon DEF Growth, Iterate
<1>4. ASSUME NEW k \in 0 .. n - 1, NEW x \in T[k] PROVE Do(x, k) \in T[k + 1]
  <2>1. x \in GrowSteps(s, own, D, d, first, k) /\ k + 1 \in 0 .. n
      BY <1>1
  <2>2. Do(x, k) \in GrowSteps(s, own, D, d, first, k + 1)
    <3>1. k \in Nat /\ first + k < KernelPage
        BY MemSizes DEF KernelPage
    <3>2. QED
        BY <2>1, <3>1, GrowStep
  <2> HIDE DEF Do
  <2>3. QED
      BY <2>1, <2>2
<1>5. T[n] = GrowSteps(s, own, D, d, first, n) /\ \A k \in 0 .. n : T[k] \subseteq States
    BY <1>1 DEF GrowSteps
<1> HIDE DEF T, Do, g
<1>6. \A k \in 0 .. n - 1 : \A x \in T[k] : h[k][x] = Do(x, k)
    OBVIOUS
<1> HIDE DEF h
<1>7. PICK f \in [0 .. n -> States] :
         f[0] = s /\ \A k \in 0 .. n - 1 : f[k] \in T[k] /\ f[k + 1] = h[k][f[k]]
  <2>1. \A k \in 0 .. n - 1 : \A x \in T[k] : h[k][x] \in T[k + 1]
      BY <1>4, <1>6
  <2>2. Leads(n, States, T, h, s)
      BY <1>1, <1>2, <1>5, <2>1 DEF Leads
  <2>3. PICK f : Taken(f, n, States, T, h, s)
      BY <2>2, LoopRuns
  <2>4. QED
      BY <2>3 DEF Taken
<1>8. f = [k \in 0 .. n |-> IF k = 0 THEN s ELSE Do(f[k - 1], k - 1)]
  <2>1. ASSUME NEW k \in 0 .. n PROVE f[k] = IF k = 0 THEN s ELSE Do(f[k - 1], k - 1)
    <3>1. k # 0 => k - 1 \in 0 .. n - 1 /\ k - 1 + 1 = k
        BY <1>1
    <3>2. QED
        BY <1>6, <1>7, <3>1
  <2>2. f = [k \in 0 .. n |-> f[k]]
      OBVIOUS
  <2>3. QED
      BY <2>1, <2>2
<1>9. g = [k \in 0 .. n |-> IF k = 0 THEN s ELSE Do(g[k - 1], k - 1)]
    BY <1>8 DEF g
<1>10. g[0] = s /\ \A k \in 0 .. n - 1 : g[k + 1] = Do(g[k], k)
  <2>1. \A k \in 0 .. n : g[k] = IF k = 0 THEN s ELSE Do(g[k - 1], k - 1)
      BY <1>9
  <2>2. ASSUME NEW k \in 0 .. n - 1 PROVE g[k + 1] = Do(g[k], k)
    <3>1. k + 1 \in 0 .. n /\ k + 1 # 0 /\ k + 1 - 1 = k
        BY <1>1
    <3>2. QED
        BY <2>1, <3>1
  <2>3. QED
      BY <1>1, <2>1, <2>2
<1>11. g[n] \in T[n]
    BY <1>1, <1>2, <1>4, <1>10, LoopEnds
<1>12. QED
    BY <1>3, <1>5, <1>11

(* vm_resize upwards maps the pages between two sizes, or returns 0.        *)
LEMMA Resized ==
    ASSUME NEW s \in States, NEW own, NEW D, s.ok => Layout(s, own, D), NEW d \in D,
           d \in Pages, NEW old \in Nat, NEW new \in Nat, old <= new, NEW r,
           r = ResizeInc(s, d, old, new)
    PROVE  /\ new >= KernelBase => r.s = s /\ r.sz = 0
           /\ new < KernelBase => /\ r.sz = new
                                  /\ r.s \in GrowSteps(s, own, D, d, Ceil(old), Ceil(new) - Ceil(old))
<1>1. new >= KernelBase => r = [s |-> s, sz |-> 0]
    BY DEF ResizeInc
<1>2. CASE new < KernelBase
  <2>0. ~(new >= KernelBase)
      BY <1>2, MemSizes DEF KernelBase
  <2> DEFINE first == Ceil(old)
  <2> DEFINE n == Ceil(new) - Ceil(old)
  <2>1. KernelPage \in Nat /\ KernelBase = W * KernelPage
      BY MemSizes DEF KernelPage, KernelBase
  <2>2. new <= W * KernelPage
      BY <1>2, <2>1
  <2>3. first \in Nat /\ n \in Nat /\ first + n <= KernelPage
    <3>1. Ceil(old) \in Nat /\ Ceil(new) \in Nat /\ Ceil(old) <= Ceil(new) /\ Ceil(new) <= KernelPage
        BY <2>1, <2>2, Rounding
    <3>2. QED
        BY <2>1, <3>1
  <2>4. r = [s |-> Growth(s, first, n, d), sz |-> new]
      BY Zenon, <2>0 DEF ResizeInc, Growth
  <2> HIDE DEF first, n
  <2>5. Growth(s, first, n, d) \in GrowSteps(s, own, D, d, first, n)
      BY <2>3, GrowLoop
  <2>6. r.sz = new /\ r.s \in GrowSteps(s, own, D, d, first, n)
      BY <2>4, <2>5
  <2>7. QED
      BY <2>0, <2>6 DEF first, n
<1>3. QED
    BY <1>1, <1>2
-----------------------------------------------------------------------------
(* Giving back                                                              *)

(* What freeing pages of directory d does to the others.                    *)
Shrinks(s, own, t, own2, d) ==
    \A q \in Pages :
        /\ own2[q] = own[q] \/ (own[q][1] = d /\ own[q][2] = "page" /\ own2[q] = Spare)
        /\ ~(own[q][1] = d /\ own[q][2] \in Kinds) => t.mem[q] = s.mem[q]

(* Shrinking is transitive.                                                 *)
LEMMA ShrinksOn ==
    ASSUME NEW s, NEW own, NEW t, NEW own2, NEW u, NEW own3, NEW d,
           Shrinks(s, own, t, own2, d), Shrinks(t, own2, u, own3, d), d # 0
    PROVE  Shrinks(s, own, u, own3, d)
<1> SUFFICES ASSUME NEW q \in Pages
             PROVE  /\ \/ own3[q] = own[q]
                       \/ own[q][1] = d /\ own[q][2] = "page" /\ own3[q] = Spare
                    /\ ~(own[q][1] = d /\ own[q][2] \in Kinds) => u.mem[q] = s.mem[q]
    BY DEF Shrinks
<1>1. /\ own2[q] = own[q] \/ (own[q][1] = d /\ own[q][2] = "page" /\ own2[q] = Spare)
      /\ ~(own[q][1] = d /\ own[q][2] \in Kinds) => t.mem[q] = s.mem[q]
    BY DEF Shrinks
<1>2. /\ own3[q] = own2[q] \/ (own2[q][1] = d /\ own2[q][2] = "page" /\ own3[q] = Spare)
      /\ ~(own2[q][1] = d /\ own2[q][2] \in Kinds) => u.mem[q] = t.mem[q]
    BY DEF Shrinks
<1>3. "page" \in Kinds /\ Spare[1] = 0
    BY DEF Kinds, Spare
<1>4. QED
    BY <1>1, <1>2, <1>3

(* One page unmapped and freed.                                             *)
UnmapPart(s, own, D, d, vp, t) ==
    /\ t.ok /\ \E own2 : Layout(t, own2, D) /\ Shrinks(s, own, t, own2, d)
    /\ ~Present(Pte(t, d, vp))
    /\ \A c \in D, v \in VPs : ~(c = d /\ v = vp) => Pte(t, c, v) = Pte(s, c, v)

(* One page of vm_resize downwards: it is freed and its entry cleared.      *)
LEMMA Unmapped ==
    ASSUME NEW s \in States, s.ok, NEW own, NEW D, Layout(s, own, D), NEW d \in D,
           NEW vp \in UserVPs, NEW t, t = Unmap(s, d, vp)
    PROVE  t \in States /\ UnmapPart(s, own, D, d, vp, t)
<1>1. CASE ~Present(Pte(s, d, vp))
  <2>1. t = s
      BY <1>1 DEF Unmap
  <2>2. Shrinks(s, own, s, own, d)
      BY DEF Shrinks
  <2>3. QED
      BY <1>1, <2>1, <2>2 DEF UnmapPart
<1>2. CASE Present(Pte(s, d, vp))
  <2> DEFINE i == vp \div W
  <2> DEFINE j == vp % W
  <2> DEFINE pg == PageAt(s, d, vp)
  <2> DEFINE tbl == TableAt(s, d, i)
  <2> DEFINE own2 == Give(own, pg, Spare)
  <2>0. PICK u : u = FreePage(s, pg)
      OBVIOUS
  <2>1. vp \in VPs /\ i \in 0 .. W - 1 /\ j \in 0 .. W - 1
      BY Places, DivMod
  <2>2. Table(s, d, vp) = tbl /\ tbl # 0
    <3>1. Pte(s, d, vp) = IF tbl = 0 THEN 0 ELSE s.mem[tbl][j]
        BY <2>1, Views
    <3>2. QED
        BY <1>2, <2>1, <3>1, Views, Entries
  <2>3. t = PutWord(u, tbl, j, 0)
      BY <1>2, <2>0, <2>2 DEF Unmap, PutWord, PageAt
  <2>4. /\ DirsOwned(own, D) /\ TablesOwned(s, own, D) /\ PagesOwned(s, own, D)
        /\ own \in [Pages -> Role]
      BY DEF Layout
  <2>5. pg # 0 /\ pg \in Pages /\ own[pg] = <<d, "page", vp>>
    <3>1. pg # 0
      <4>1. Pte(s, d, vp) \in Int
        <5>1. tbl \in Pages
            BY <2>1, <2>2, <2>4 DEF TablesOwned
        <5>2. s.mem[tbl][j] \in Int
            BY <2>1, <5>1 DEF States, Words
        <5>3. QED
            BY <2>1, <2>2, <5>2, Views
      <4>2. PageOf(Pte(s, d, vp)) \in Nat \ {0}
          BY <1>2, <4>1, Entries
      <4>3. QED
          BY <1>2, <4>2 DEF PageAt
    <3>2. QED
        BY <2>4, <3>1 DEF PagesOwned
  <2> HIDE DEF pg, tbl, i, j
  <2>6. /\ u \in States /\ (u.ok <=> s.ok) /\ u.free = s.free \cup {pg} /\ u.twice = FALSE
        /\ \A q \in Pages : q # pg => u.mem[q] = s.mem[q]
    <3>1. Freed(s, {pg}, u)
        BY <2>0, <2>5, PageFreed
    <3>2. pg \notin s.free /\ s.twice = FALSE
        BY <2>5 DEF Layout, Spare
    <3>3. QED
        BY <3>1, <3>2 DEF Freed
  <2>7. \A c \in D : c \in Pages /\ c # pg
      BY <2>5, Apartness
  <2>8. ASSUME NEW c \in D PROVE Alike(s, u, c)
    <3>1. u.mem[c] = s.mem[c] /\ \A q \in Pages : own[q][2] = "table" => u.mem[q] = s.mem[q]
        BY <2>5, <2>6, <2>7
    <3>2. QED
        BY <3>1, Framed
  <2>9. TablesOwned(u, own, D) /\ TableAt(u, d, i) = tbl
    <3>1. \A c \in D, k \in 0 .. W - 1 : TableAt(u, c, k) = TableAt(s, c, k)
        BY <2>8 DEF Alike
    <3>2. TablesOwned(u, own, D)
        BY <2>4, <3>1 DEF TablesOwned
    <3>3. QED
        BY <2>1, <3>1, <3>2 DEF tbl
  <2>10. /\ Wrote(u, t, tbl) /\ tbl \in Pages /\ own[tbl] = <<d, "table", i>>
         /\ \A c \in D, k \in 0 .. W - 1 : TableAt(t, c, k) = TableAt(u, c, k)
         /\ \A c \in D, v \in VPs : Pte(t, c, v) = IF c = d /\ v = vp THEN 0 ELSE Pte(u, c, v)
    <3> DEFINE e == 0
    <3> HIDE DEF e
    <3>1. e \in Int /\ t = PutWord(u, tbl, vp % W, e) /\ tbl = TableAt(u, d, vp \div W)
        BY <2>3, <2>9 DEF e, j, i
    <3>2. /\ Wrote(u, t, tbl) /\ tbl \in Pages /\ own[tbl] = <<d, "table", vp \div W>>
          /\ \A c \in D, k \in 0 .. W - 1 : TableAt(t, c, k) = TableAt(u, c, k)
          /\ \A c \in D, v \in VPs : Pte(t, c, v) = IF c = d /\ v = vp THEN e ELSE Pte(u, c, v)
        BY <2>1, <2>2, <2>4, <2>6, <2>9, <3>1, EntrySet
    <3>3. QED
        BY <3>2 DEF e, i
  <2>11. \A c \in D, v \in VPs : Pte(t, c, v) = IF c = d /\ v = vp THEN 0 ELSE Pte(s, c, v)
      BY <2>8, <2>10 DEF Alike
  <2>12. \A c \in D, k \in 0 .. W - 1 : TableAt(t, c, k) = TableAt(s, c, k)
      BY <2>8, <2>10 DEF Alike
  <2>13. \A c \in D, v \in UserVPs :
            PageAt(t, c, v) = IF c = d /\ v = vp THEN 0 ELSE PageAt(s, c, v)
      BY <2>11, Places, Entries DEF PageAt
  <2>14. /\ own2 \in [Pages -> Role] /\ own2[pg] = Spare
         /\ \A q \in Pages : q # pg => own2[q] = own[q]
    <3>1. Spare \in Role
        BY Apartness
    <3>2. QED
        BY <2>4, <2>5, <3>1, Given
  <2>15. Spare[2] = "free" /\ Spare[1] = 0
      BY DEF Spare
  <2> HIDE DEF own2
  <2>16. Layout(t, own2, D)
    <3>1. DirsOwned(own2, D)
        BY <2>4, <2>5, <2>14, <2>15 DEF DirsOwned
    <3>2. TablesOwned(t, own2, D)
      <4>1. \A q \in Pages : own2[q][2] = "table" => own2[q] = own[q]
          BY <2>14, <2>15
      <4>2. \A c \in D : \A k \in 0 .. W - 1 : TableAt(t, c, k) # 0 =>
               TableAt(t, c, k) \in Pages /\ own2[TableAt(t, c, k)] = <<c, "table", k>>
          BY <2>4, <2>5, <2>12, <2>14 DEF TablesOwned
      <4>3. QED
          BY <2>4, <2>12, <4>1, <4>2 DEF TablesOwned
    <3>3. PagesOwned(t, own2, D)
      <4>1. ASSUME NEW c \in D, NEW v \in UserVPs, PageAt(t, c, v) # 0
            PROVE  PageAt(t, c, v) \in Pages /\ own2[PageAt(t, c, v)] = <<c, "page", v>>
        <5>1. PageAt(t, c, v) = PageAt(s, c, v) /\ ~(c = d /\ v = vp)
            BY <2>13, <4>1
        <5>2. PageAt(s, c, v) \in Pages /\ own[PageAt(s, c, v)] = <<c, "page", v>>
            BY <2>4, <4>1, <5>1 DEF PagesOwned
        <5>3. PageAt(s, c, v) # pg
            BY <2>5, <5>1, <5>2
        <5>4. QED
            BY <2>14, <5>1, <5>2, <5>3
      <4>2. ASSUME NEW q \in Pages, own2[q][2] = "page"
            PROVE  /\ own2[q][1] \in D /\ own2[q][3] \in UserVPs
                   /\ PageAt(t, own2[q][1], own2[q][3]) = q
        <5>1. q # pg /\ own2[q] = own[q]
            BY <2>14, <2>15, <4>2
        <5>2. own[q][1] \in D /\ own[q][3] \in UserVPs /\ PageAt(s, own[q][1], own[q][3]) = q
            BY <2>4, <4>2, <5>1 DEF PagesOwned
        <5>3. ~(own[q][1] = d /\ own[q][3] = vp)
            BY <5>1, <5>2 DEF pg
        <5>4. QED
            BY <2>13, <5>1, <5>2, <5>3
      <4>3. QED
          BY <4>1, <4>2 DEF PagesOwned
    <3>4. \A q \in Pages : q \in t.free <=> own2[q] = Spare
      <4>1. \A q \in Pages : q \in s.free <=> own[q] = Spare
          BY DEF Layout
      <4>2. t.free = s.free \cup {pg}
          BY <2>6, <2>10 DEF Wrote
      <4>3. QED
          BY <2>14, <4>1, <4>2
    <3>5. t.twice = FALSE
        BY <2>6, <2>10 DEF Wrote
    <3>6. QED
        BY <2>14, <3>1, <3>2, <3>3, <3>4, <3>5 DEF Layout
  <2>17. Shrinks(s, own, t, own2, d)
    <3> SUFFICES ASSUME NEW q \in Pages
                 PROVE  /\ \/ own2[q] = own[q]
                           \/ own[q][1] = d /\ own[q][2] = "page" /\ own2[q] = Spare
                        /\ ~(own[q][1] = d /\ own[q][2] \in Kinds) => t.mem[q] = s.mem[q]
        BY DEF Shrinks
    <3>1. ~(own[q][1] = d /\ own[q][2] \in Kinds) => q # tbl /\ q # pg
        BY <2>5, <2>10 DEF Kinds
    <3>2. q # tbl /\ q # pg => t.mem[q] = s.mem[q]
        BY <2>6, <2>10 DEF Wrote
    <3>3. QED
        BY <2>5, <2>14, <3>1, <3>2
  <2>18. t \in States /\ t.ok
      BY <2>6, <2>10 DEF Wrote
  <2>19. ~Present(Pte(t, d, vp))
      BY <2>1, <2>11, Entries
  <2>20. QED
      BY <2>11, <2>16, <2>17, <2>18, <2>19 DEF UnmapPart
<1>3. QED
    BY <1>1, <1>2

(* After k steps of vm_resize to 0.                                         *)
DecPart(s, own, D, d, k, t) ==
    /\ t.ok /\ \E own2 : Layout(t, own2, D) /\ Shrinks(s, own, t, own2, d)
    /\ \A v \in UserVPs : v < k => ~Present(Pte(t, d, v))
    /\ \A c \in D, v \in VPs : c # d => Pte(t, c, v) = Pte(s, c, v)
DecSteps(s, own, D, d, k) == {t \in States : DecPart(s, own, D, d, k, t)}

(* One step of the loop of vm_resize downwards.                             *)
LEMMA DecStep ==
    ASSUME NEW s \in States, NEW own, NEW D, NEW d \in D, d # 0, NEW k \in UserVPs,
           NEW x \in DecSteps(s, own, D, d, k)
    PROVE  Unmap(x, d, k) \in DecSteps(s, own, D, d, k + 1)
<1>0. PICK t : t = Unmap(x, d, k)
    OBVIOUS
<1>1. x \in States /\ DecPart(s, own, D, d, k, x)
    BY DEF DecSteps
<1>2. PICK own1 : Layout(x, own1, D) /\ Shrinks(s, own, x, own1, d)
    BY <1>1 DEF DecPart
<1>3. t \in States /\ UnmapPart(x, own1, D, d, k, t)
  <2>1. x.ok
      BY <1>1 DEF DecPart
  <2>2. QED
      BY <1>0, <1>1, <1>2, <2>1, Unmapped
<1>4. PICK own2 : Layout(t, own2, D) /\ Shrinks(x, own1, t, own2, d)
    BY <1>3 DEF UnmapPart
<1>5. Shrinks(s, own, t, own2, d)
    BY <1>2, <1>4, ShrinksOn
<1>6. ASSUME NEW v \in UserVPs, v < k + 1 PROVE ~Present(Pte(t, d, v))
  <2>1. v = k \/ v < k
      BY <1>6, MemSizes DEF UserVPs, KernelPage
  <2>2. v < k => ~Present(Pte(x, d, v))
      BY <1>1 DEF DecPart
  <2>3. v # k => Pte(t, d, v) = Pte(x, d, v)
      BY <1>3, Places DEF UnmapPart
  <2>4. ~Present(Pte(t, d, k))
      BY <1>3 DEF UnmapPart
  <2>5. QED
      BY <2>1, <2>2, <2>3, <2>4
<1>7. \A c \in D, v \in VPs : c # d => Pte(t, c, v) = Pte(s, c, v)
    BY <1>1, <1>3 DEF UnmapPart, DecPart
<1> DEFINE n == k + 1
<1> HIDE DEF n
<1>8. t \in DecSteps(s, own, D, d, n)
  <2>1. t.ok
      BY <1>3 DEF UnmapPart
  <2>2. \A v \in UserVPs : v < n => ~Present(Pte(t, d, v))
      BY <1>6 DEF n
  <2>3. DecPart(s, own, D, d, n, t)
      BY <1>4, <1>5, <1>7, <2>1, <2>2 DEF DecPart
  <2>4. QED
      BY <1>3, <2>3 DEF DecSteps
<1>9. QED
    BY <1>0, <1>8 DEF n

(* vm_resize downwards leaves no user page.                                 *)
LEMMA DecLoop ==
    ASSUME NEW s \in States, s.ok, NEW own, NEW D, Layout(s, own, D), NEW d \in D, d # 0
    PROVE  ResizeDec(s, d) \in DecSteps(s, own, D, d, KernelPage)
<1> DEFINE T == [k \in 0 .. KernelPage |-> DecSteps(s, own, D, d, k)]
<1> DEFINE Do(x, k) == Unmap(x, d, k)
<1> DEFINE h == [k \in 0 .. KernelPage - 1 |-> [x \in T[k] |-> Do(x, k)]]
<1> DEFINE g == CHOOSE at : at = [k \in 0 .. KernelPage |-> IF k = 0 THEN s ELSE Do(at[k - 1], k - 1)]
<1>1. KernelPage \in Nat /\ 0 \in 0 .. KernelPage /\ KernelPage \in 0 .. KernelPage
    BY MemSizes DEF KernelPage
<1>2. s \in T[0]
  <2>1. Shrinks(s, own, s, own, d)
      BY DEF Shrinks
  <2>2. \A v \in UserVPs : ~(v < 0)
      BY DEF UserVPs
  <2>3. DecPart(s, own, D, d, 0, s)
      BY <2>1, <2>2 DEF DecPart
  <2>4. s \in DecSteps(s, own, D, d, 0)
      BY <2>3 DEF DecSteps
  <2>5. QED
      BY <1>1, <2>4
<1>3. ResizeDec(s, d) = g[KernelPage]
    BY Zenon DEF ResizeDec, Iterate
<1>4. ASSUME NEW k \in 0 .. KernelPage - 1, NEW x \in T[k] PROVE Do(x, k) \in T[k + 1]
  <2>1. x \in DecSteps(s, own, D, d, k) /\ k + 1 \in 0 .. KernelPage
      BY <1>1
  <2>2. Do(x, k) \in DecSteps(s, own, D, d, k + 1)
    <3>1. k \in UserVPs
        BY DEF UserVPs
    <3>2. QED
        BY <2>1, <3>1, DecStep
  <2> HIDE DEF Do
  <2>3. QED
      BY <2>1, <2>2
<1>5. T[KernelPage] = DecSteps(s, own, D, d, KernelPage) /\ \A k \in 0 .. KernelPage : T[k] \subseteq States
    BY <1>1 DEF DecSteps
<1> HIDE DEF T, Do, g
<1>6. \A k \in 0 .. KernelPage - 1 : \A x \in T[k] : h[k][x] = Do(x, k)
    OBVIOUS
<1> HIDE DEF h
<1>7. PICK f \in [0 .. KernelPage -> States] :
         f[0] = s /\ \A k \in 0 .. KernelPage - 1 : f[k] \in T[k] /\ f[k + 1] = h[k][f[k]]
  <2>1. \A k \in 0 .. KernelPage - 1 : \A x \in T[k] : h[k][x] \in T[k + 1]
      BY <1>4, <1>6
  <2>2. Leads(KernelPage, States, T, h, s)
      BY <1>1, <1>2, <1>5, <2>1 DEF Leads
  <2>3. PICK f : Taken(f, KernelPage, States, T, h, s)
      BY <2>2, LoopRuns
  <2>4. QED
      BY <2>3 DEF Taken
<1>8. f = [k \in 0 .. KernelPage |-> IF k = 0 THEN s ELSE Do(f[k - 1], k - 1)]
  <2>1. ASSUME NEW k \in 0 .. KernelPage PROVE f[k] = IF k = 0 THEN s ELSE Do(f[k - 1], k - 1)
    <3>1. k # 0 => k - 1 \in 0 .. KernelPage - 1 /\ k - 1 + 1 = k
        BY <1>1
    <3>2. QED
        BY <1>6, <1>7, <3>1
  <2>2. f = [k \in 0 .. KernelPage |-> f[k]]
      OBVIOUS
  <2>3. QED
      BY <2>1, <2>2
<1>9. g = [k \in 0 .. KernelPage |-> IF k = 0 THEN s ELSE Do(g[k - 1], k - 1)]
    BY <1>8 DEF g
<1>10. g[0] = s /\ \A k \in 0 .. KernelPage - 1 : g[k + 1] = Do(g[k], k)
  <2>1. \A k \in 0 .. KernelPage : g[k] = IF k = 0 THEN s ELSE Do(g[k - 1], k - 1)
      BY <1>9
  <2>2. ASSUME NEW k \in 0 .. KernelPage - 1 PROVE g[k + 1] = Do(g[k], k)
    <3>1. k + 1 \in 0 .. KernelPage /\ k + 1 # 0 /\ k + 1 - 1 = k
        BY <1>1
    <3>2. QED
        BY <2>1, <3>1
  <2>3. QED
      BY <1>1, <2>1, <2>2
<1>11. g[KernelPage] \in T[KernelPage]
    BY <1>1, <1>2, <1>4, <1>10, LoopEnds
<1>12. QED
    BY <1>3, <1>5, <1>11

(* Pages that belong to nobody are given back.                              *)
LEMMA Returned ==
    ASSUME NEW s \in States, NEW own, NEW D, Layout(s, own, D), NEW blk, blk \subseteq Pages,
           \A q \in blk : own[q][2] \in Loose /\ own[q] # Spare,
           NEW t, Freed(s, blk, t), NEW own2 \in [Pages -> Role],
           \A q \in Pages : own2[q] = IF q \in blk THEN Spare ELSE own[q]
    PROVE  Layout(t, own2, D) /\ \A c \in D : Alike(s, t, c)
<1>1. ASSUME NEW c \in D PROVE Alike(s, t, c)
  <2>1. c \in Pages /\ c \notin blk
      BY Apartness DEF Loose
  <2>2. \A q \in Pages : own[q][2] = "table" => q \notin blk
      BY DEF Loose
  <2>3. t.mem[c] = s.mem[c] /\ \A q \in Pages : own[q][2] = "table" => t.mem[q] = s.mem[q]
      BY <2>1, <2>2 DEF Freed
  <2>4. QED
      BY <2>3, Framed
<1>2. t.twice = FALSE
    BY DEF Freed, Layout
<1>3. \A q \in Pages : q \in t.free <=> own2[q] = Spare
    BY DEF Freed, Layout
<1>4. \A q \in Pages : own2[q] = own[q] \/ (own[q][2] \in Loose /\ own2[q][2] \in Loose)
    BY DEF Loose, Spare
<1>5. Layout(t, own2, D)
    BY <1>1, <1>2, <1>3, <1>4, Relabelled
<1>6. QED
    BY <1>1, <1>5

(* Directory d's pages while its tables are given back, the first k of them *)
(* already; and when all have gone.                                         *)
Leaving(own, d, k) ==
    [q \in Pages |->
       IF own[q][1] = d /\ own[q][2] = "table" THEN IF own[q][3] < k THEN Spare ELSE InHand
       ELSE IF own[q][1] = d /\ own[q][2] = "dir" THEN InHand ELSE own[q]]
Left(own, d) == [q \in Pages |-> IF own[q][1] = d /\ own[q][2] \in Kinds THEN Spare ELSE own[q]]

(* What is left of a directory's pages while its tables are freed.          *)
LEMMA LeavingIs ==
    ASSUME NEW s, NEW own, NEW D, Layout(s, own, D), NEW d, NEW k \in Nat
    PROVE  /\ Leaving(own, d, k) \in [Pages -> Role]
           /\ \A q \in Pages :
                 /\ own[q][1] = d /\ own[q][2] = "table" =>
                      Leaving(own, d, k)[q] = IF own[q][3] < k THEN Spare ELSE InHand
                 /\ own[q][1] = d /\ own[q][2] = "dir" => Leaving(own, d, k)[q] = InHand
                 /\ ~(own[q][1] = d /\ own[q][2] \in {"dir", "table"}) =>
                      Leaving(own, d, k)[q] = own[q]
           /\ Left(own, d) \in [Pages -> Role]
           /\ \A q \in Pages : Left(own, d)[q] =
                 IF own[q][1] = d /\ own[q][2] \in Kinds THEN Spare ELSE own[q]
<1>1. Spare \in Role /\ InHand \in Role /\ \A q \in Pages : own[q] \in Role
    BY Apartness
<1>2. Leaving(own, d, k) \in [Pages -> Role]
    BY <1>1 DEF Leaving
<1>3. Left(own, d) \in [Pages -> Role]
    BY <1>1 DEF Left
<1>4. QED
    BY <1>2, <1>3 DEF Leaving, Left

(* A directory without pages is taken out of use.                           *)
LEMMA Retired ==
    ASSUME NEW s \in States, NEW own, NEW D, Layout(s, own, D), NEW d \in D,
           \A v \in UserVPs : PageAt(s, d, v) = 0
    PROVE  Layout(s, Leaving(own, d, 0), D \ {d})
<1> DEFINE own2 == Leaving(own, d, 0)
<1> DEFINE E == D \ {d}
<1>1. /\ own2 \in [Pages -> Role]
      /\ \A q \in Pages :
            /\ own[q][1] = d /\ own[q][2] = "table" => own2[q] = IF own[q][3] < 0 THEN Spare ELSE InHand
            /\ own[q][1] = d /\ own[q][2] = "dir" => own2[q] = InHand
            /\ ~(own[q][1] = d /\ own[q][2] \in {"dir", "table"}) => own2[q] = own[q]
    BY LeavingIs
<1>2. /\ DirsOwned(own, D) /\ TablesOwned(s, own, D) /\ PagesOwned(s, own, D)
      /\ InHand[2] = "hand" /\ InHand # Spare
    BY Apartness DEF Layout
<1> HIDE DEF own2
<1>3. ASSUME NEW q \in Pages
      PROVE  \/ own[q][1] = d /\ own[q][2] \in {"dir", "table"} /\ own2[q] = InHand
             \/ ~(own[q][1] = d /\ own[q][2] \in {"dir", "table"}) /\ own2[q] = own[q]
  <2>1. own[q][2] = "table" => own[q][3] \in 0 .. W - 1
      BY <1>2 DEF TablesOwned
  <2>2. own[q][2] = "table" => ~(own[q][3] < 0)
      BY <2>1
  <2>3. QED
      BY <1>1, <2>2
<1>4. \A q \in Pages : own2[q][2] \in Kinds => own2[q] = own[q] /\ own[q][1] # d
  <2>1. ASSUME NEW q \in Pages, own[q][2] = "page" PROVE own[q][1] # d
      BY <1>2, <2>1, PageSets DEF PagesOwned
  <2>2. QED
      BY <1>2, <1>3, <2>1 DEF Kinds
<1>5. DirsOwned(own2, E)
  <2>1. E \subseteq Pages
      BY <1>2 DEF DirsOwned
  <2>2. ASSUME NEW c \in E, NEW i \in 0 .. DirPages - 1
        PROVE  c + i \in Pages /\ own2[c + i] = <<c, "dir", i>>
    <3> DEFINE q == c + i
    <3>1. q \in Pages /\ own[q] = <<c, "dir", i>>
        BY <1>2 DEF DirsOwned
    <3> HIDE DEF q
    <3>2. own[q][1] # d
        BY <3>1
    <3>3. own2[q] = own[q]
        BY <1>3, <3>1, <3>2
    <3>4. QED
        BY <3>1, <3>3 DEF q
  <2>3. ASSUME NEW q \in Pages, own2[q][2] = "dir"
        PROVE  /\ own2[q][1] \in E /\ own2[q][3] \in 0 .. DirPages - 1
               /\ q = own2[q][1] + own2[q][3]
      BY <1>2, <1>4, <2>3 DEF DirsOwned, Kinds
  <2> HIDE DEF E
  <2>4. QED
      BY <2>1, <2>2, <2>3 DEF DirsOwned
<1>6. TablesOwned(s, own2, E)
  <2>1. ASSUME NEW c \in E, NEW i \in 0 .. W - 1, TableAt(s, c, i) # 0
        PROVE  TableAt(s, c, i) \in Pages /\ own2[TableAt(s, c, i)] = <<c, "table", i>>
    <3>1. TableAt(s, c, i) \in Pages /\ own[TableAt(s, c, i)] = <<c, "table", i>>
        BY <1>2, <2>1 DEF TablesOwned
    <3>2. QED
        BY <1>3, <3>1
  <2>2. ASSUME NEW q \in Pages, own2[q][2] = "table"
        PROVE  /\ own2[q][1] \in E /\ own2[q][3] \in 0 .. W - 1
               /\ TableAt(s, own2[q][1], own2[q][3]) = q
      BY <1>2, <1>4, <2>2 DEF TablesOwned, Kinds
  <2> HIDE DEF E
  <2>3. QED
      BY <2>1, <2>2 DEF TablesOwned
<1>7. PagesOwned(s, own2, E)
  <2>1. ASSUME NEW c \in E, NEW v \in UserVPs, PageAt(s, c, v) # 0
        PROVE  PageAt(s, c, v) \in Pages /\ own2[PageAt(s, c, v)] = <<c, "page", v>>
    <3>1. PageAt(s, c, v) \in Pages /\ own[PageAt(s, c, v)] = <<c, "page", v>>
        BY <1>2, <2>1 DEF PagesOwned
    <3>2. QED
        BY <1>3, <3>1
  <2>2. ASSUME NEW q \in Pages, own2[q][2] = "page"
        PROVE  /\ own2[q][1] \in E /\ own2[q][3] \in UserVPs
               /\ PageAt(s, own2[q][1], own2[q][3]) = q
      BY <1>2, <1>4, <2>2 DEF PagesOwned, Kinds
  <2> HIDE DEF E
  <2>3. QED
      BY <2>1, <2>2 DEF PagesOwned
<1>8. \A q \in Pages : q \in s.free <=> own2[q] = Spare
  <2>1. \A q \in Pages : q \in s.free <=> own[q] = Spare
      BY DEF Layout
  <2>2. Spare[2] = "free"
      BY DEF Spare
  <2>3. QED
      BY <1>2, <1>3, <2>1, <2>2
<1>9. s.twice = FALSE
    BY DEF Layout
<1>10. Layout(s, own2, E)
  <2> HIDE DEF E
  <2>1. QED
      BY <1>1, <1>5, <1>6, <1>7, <1>8, <1>9 DEF Layout
<1>11. QED
    BY <1>10 DEF own2

(* After k tables of d have been given back.                                *)
TabPart(s, own, D, d, k, t) ==
    /\ t.ok /\ Layout(t, Leaving(own, d, k), D \ {d})
    /\ t.mem[d] = s.mem[d]
    /\ \A c \in D, v \in VPs : c # d => Pte(t, c, v) = Pte(s, c, v)
    /\ \A q \in Pages : ~(own[q][1] = d /\ own[q][2] \in Kinds) => t.mem[q] = s.mem[q]
TabSteps(s, own, D, d, k) == {t \in States : TabPart(s, own, D, d, k, t)}

(* One step of the loop that frees tables.                                  *)
LEMMA TabStep ==
    ASSUME NEW s \in States, NEW own, NEW D, Layout(s, own, D), NEW d \in D,
           NEW k \in 0 .. W - 1, NEW x \in TabSteps(s, own, D, d, k)
    PROVE  FreeTable(x, d, k) \in TabSteps(s, own, D, d, k + 1)
<1>0. PICK t : t = FreeTable(x, d, k)
    OBVIOUS
<1> DEFINE n == k + 1
<1> DEFINE own1 == Leaving(own, d, k)
<1> DEFINE own2 == Leaving(own, d, n)
<1> DEFINE pg == TableAt(s, d, k)
<1>1. x \in States /\ TabPart(s, own, D, d, k, x)
    BY DEF TabSteps
<1>2. k \in Nat /\ n \in Nat /\ (\A j \in 0 .. W - 1 : j < n <=> j < k \/ j = k)
    BY DEF n
<1>3. /\ own1 \in [Pages -> Role]
      /\ \A q \in Pages :
            /\ own[q][1] = d /\ own[q][2] = "table" =>
                 own1[q] = IF own[q][3] < k THEN Spare ELSE InHand
            /\ own[q][1] = d /\ own[q][2] = "dir" => own1[q] = InHand
            /\ ~(own[q][1] = d /\ own[q][2] \in {"dir", "table"}) => own1[q] = own[q]
    BY <1>2, LeavingIs
<1> HIDE DEF n
<1>4. /\ own2 \in [Pages -> Role]
      /\ \A q \in Pages :
            /\ own[q][1] = d /\ own[q][2] = "table" =>
                 own2[q] = IF own[q][3] < n THEN Spare ELSE InHand
            /\ own[q][1] = d /\ own[q][2] = "dir" => own2[q] = InHand
            /\ ~(own[q][1] = d /\ own[q][2] \in {"dir", "table"}) => own2[q] = own[q]
    BY <1>2, LeavingIs
<1>5. TablesOwned(s, own, D)
    BY DEF Layout
<1>6. pg # 0 => pg \in Pages /\ own[pg] = <<d, "table", k>>
    BY <1>5 DEF TablesOwned
<1>7. \A q \in Pages : own[q][1] = d /\ own[q][2] = "table" =>
         own[q][3] \in 0 .. W - 1 /\ (own[q][3] = k => q = pg)
    BY <1>5 DEF TablesOwned
<1>8. pg = TableAt(x, d, k)
    BY <1>1 DEF TabPart, TableAt
<1> HIDE DEF own1, own2, pg
<1>9. \A q \in Pages : own2[q] = IF pg # 0 /\ q = pg THEN Spare ELSE own1[q]
  <2> SUFFICES ASSUME NEW q \in Pages
               PROVE  own2[q] = IF pg # 0 /\ q = pg THEN Spare ELSE own1[q]
      OBVIOUS
  <2>1. CASE own[q][1] = d /\ own[q][2] = "table"
    <3>1. own[q][3] \in 0 .. W - 1 /\ (own[q][3] = k => q = pg) /\ q # 0
        BY <1>7, <2>1, PageSets
    <3>2. own[q][3] < n <=> own[q][3] < k \/ own[q][3] = k
        BY <1>2, <3>1
    <3>3. q = pg => own[q][3] = k
        BY <1>6, <3>1
    <3>4. QED
        BY <1>3, <1>4, <2>1, <3>1, <3>2, <3>3
  <2>2. CASE ~(own[q][1] = d /\ own[q][2] = "table")
    <3>1. ~(pg # 0 /\ q = pg)
        BY <1>6, <2>2
    <3>2. QED
        BY <1>3, <1>4, <2>2, <3>1
  <2>3. QED
      BY <2>1, <2>2
<1>10. Layout(x, own1, D \ {d}) /\ x.ok
    BY <1>1 DEF TabPart, own1
<1>11. CASE ~Present(x.mem[d][k])
  <2>1. t = x /\ pg = 0
      BY <1>0, <1>8, <1>11 DEF FreeTable, TableAt
  <2>2. \A q \in Pages : own2[q] = own1[q]
      BY <1>9, <2>1
  <2>3. own2 = own1
      BY <1>3, <1>4, <2>2
  <2>4. TabPart(s, own, D, d, n, x)
      BY <1>1, <1>10, <2>3 DEF TabPart, own2
  <2>5. x \in TabSteps(s, own, D, d, n)
      BY <1>1, <2>4 DEF TabSteps
  <2>6. QED
      BY <1>0, <2>1, <2>5 DEF n
<1>12. CASE Present(x.mem[d][k])
  <2>1. t = FreePage(x, pg)
      BY <1>0, <1>8, <1>12 DEF FreeTable, TableAt
  <2>2. d \in Pages /\ own[d] = <<d, "dir", 0>>
      BY Apartness
  <2>3. pg # 0
    <3>1. x.mem[d][k] \in Int
      <4>1. x.mem[d] \in Words
          BY <1>1, <2>2 DEF States
      <4>2. QED
          BY <4>1 DEF Words
    <3>2. pg = PageOf(x.mem[d][k])
        BY <1>8, <1>12 DEF TableAt
    <3>3. QED
        BY <1>12, <3>1, <3>2, Entries
  <2>4. pg \in Pages /\ own[pg] = <<d, "table", k>>
      BY <1>6, <2>3
  <2>5. own1[pg] = InHand
      BY <1>2, <1>3, <2>4
  <2>6. Freed(x, {pg}, t)
      BY <1>1, <2>1, <2>4, PageFreed
  <2>7. Layout(t, own2, D \ {d}) /\ \A c \in D \ {d} : Alike(x, t, c)
    <3> DEFINE blk == {pg}
    <3> DEFINE E == D \ {d}
    <3>1. /\ Freed(x, blk, t) /\ blk \subseteq Pages /\ Layout(x, own1, E)
          /\ \A q \in blk : own1[q][2] \in Loose /\ own1[q] # Spare
          /\ \A q \in Pages : own2[q] = IF q \in blk THEN Spare ELSE own1[q]
      <4>1. InHand[2] \in Loose /\ InHand # Spare
          BY DEF InHand, Spare, Loose
      <4>2. QED
          BY <1>9, <1>10, <2>3, <2>4, <2>5, <2>6, <4>1
    <3> HIDE DEF blk, E
    <3>2. Layout(t, own2, E) /\ \A c \in E : Alike(x, t, c)
        BY <1>1, <1>4, <3>1, Returned
    <3>3. QED
        BY <3>2 DEF E
  <2>8. t.mem[d] = s.mem[d]
    <3>1. d # pg
        BY <2>2, <2>4
    <3>2. QED
        BY <1>1, <2>2, <2>6, <3>1 DEF Freed, TabPart
  <2>9. \A c \in D, v \in VPs : c # d => Pte(t, c, v) = Pte(s, c, v)
      BY <1>1, <2>7 DEF Alike, TabPart
  <2>10. \A q \in Pages : ~(own[q][1] = d /\ own[q][2] \in Kinds) => t.mem[q] = s.mem[q]
      BY <1>1, <2>4, <2>6 DEF Freed, TabPart, Kinds
  <2>11. t \in States /\ t.ok
      BY <1>10, <2>6 DEF Freed
  <2>12. TabPart(s, own, D, d, n, t)
      BY <2>7, <2>8, <2>9, <2>10, <2>11 DEF TabPart, own2
  <2>13. t \in TabSteps(s, own, D, d, n)
      BY <2>11, <2>12 DEF TabSteps
  <2>14. QED
      BY <1>0, <2>13 DEF n
<1>13. QED
    BY <1>11, <1>12

Tables(s, d) == Iterate(LAMBDA t, i : FreeTable(t, d, i), s, W)

(* The loop that frees tables leaves the directory alone.                   *)
LEMMA TabLoop ==
    ASSUME NEW s \in States, s.ok, NEW own, NEW D, Layout(s, own, D), NEW d \in D,
           \A v \in UserVPs : PageAt(s, d, v) = 0
    PROVE  Tables(s, d) \in TabSteps(s, own, D, d, W)
<1> DEFINE T == [k \in 0 .. W |-> TabSteps(s, own, D, d, k)]
<1> DEFINE Do(x, k) == FreeTable(x, d, k)
<1> DEFINE h == [k \in 0 .. W - 1 |-> [x \in T[k] |-> Do(x, k)]]
<1> DEFINE g == CHOOSE at : at = [k \in 0 .. W |-> IF k = 0 THEN s ELSE Do(at[k - 1], k - 1)]
<1>1. W \in Nat /\ 0 \in 0 .. W /\ W \in 0 .. W
    BY MemSizes
<1>2. s \in T[0]
  <2>1. Layout(s, Leaving(own, d, 0), D \ {d})
      BY Retired
  <2>2. TabPart(s, own, D, d, 0, s)
      BY <2>1 DEF TabPart
  <2>3. s \in TabSteps(s, own, D, d, 0)
      BY <2>2 DEF TabSteps
  <2>4. QED
      BY <1>1, <2>3
<1>3. Tables(s, d) = g[W]
    BY Zenon DEF Tables, Iterate
<1>4. ASSUME NEW k \in 0 .. W - 1, NEW x \in T[k] PROVE Do(x, k) \in T[k + 1]
  <2>1. x \in TabSteps(s, own, D, d, k) /\ k + 1 \in 0 .. W
      BY <1>1
  <2>2. Do(x, k) \in TabSteps(s, own, D, d, k + 1)
      BY <2>1, TabStep
  <2> HIDE DEF Do
  <2>3. QED
      BY <2>1, <2>2
<1>5. T[W] = TabSteps(s, own, D, d, W) /\ \A k \in 0 .. W : T[k] \subseteq States
    BY <1>1 DEF TabSteps
<1> HIDE DEF T, Do, g
<1>6. \A k \in 0 .. W - 1 : \A x \in T[k] : h[k][x] = Do(x, k)
    OBVIOUS
<1> HIDE DEF h
<1>7. PICK f \in [0 .. W -> States] :
         f[0] = s /\ \A k \in 0 .. W - 1 : f[k] \in T[k] /\ f[k + 1] = h[k][f[k]]
  <2>1. \A k \in 0 .. W - 1 : \A x \in T[k] : h[k][x] \in T[k + 1]
      BY <1>4, <1>6
  <2>2. Leads(W, States, T, h, s)
      BY <1>1, <1>2, <1>5, <2>1 DEF Leads
  <2>3. PICK f : Taken(f, W, States, T, h, s)
      BY <2>2, LoopRuns
  <2>4. QED
      BY <2>3 DEF Taken
<1>8. f = [k \in 0 .. W |-> IF k = 0 THEN s ELSE Do(f[k - 1], k - 1)]
  <2>1. ASSUME NEW k \in 0 .. W PROVE f[k] = IF k = 0 THEN s ELSE Do(f[k - 1], k - 1)
    <3>1. k # 0 => k - 1 \in 0 .. W - 1 /\ k - 1 + 1 = k
        BY <1>1
    <3>2. QED
        BY <1>6, <1>7, <3>1
  <2>2. f = [k \in 0 .. W |-> f[k]]
      OBVIOUS
  <2>3. QED
      BY <2>1, <2>2
<1>9. g = [k \in 0 .. W |-> IF k = 0 THEN s ELSE Do(g[k - 1], k - 1)]
    BY <1>8 DEF g
<1>10. g[0] = s /\ \A k \in 0 .. W - 1 : g[k + 1] = Do(g[k], k)
  <2>1. \A k \in 0 .. W : g[k] = IF k = 0 THEN s ELSE Do(g[k - 1], k - 1)
      BY <1>9
  <2>2. ASSUME NEW k \in 0 .. W - 1 PROVE g[k + 1] = Do(g[k], k)
    <3>1. k + 1 \in 0 .. W /\ k + 1 # 0 /\ k + 1 - 1 = k
        BY <1>1
    <3>2. QED
        BY <2>1, <3>1
  <2>3. QED
      BY <1>1, <2>1, <2>2
<1>11. g[W] \in T[W]
    BY <1>1, <1>2, <1>4, <1>10, LoopEnds
<1>12. QED
    BY <1>3, <1>5, <1>11

(* A directory, its tables and its pages are given back.                    *)
DirLeft(s, own, D, d, t) ==
    /\ t.ok /\ Layout(t, Left(own, d), D \ {d})
    /\ \A c \in D, v \in VPs : c # d => Pte(t, c, v) = Pte(s, c, v)
    /\ \A q \in Pages : ~(own[q][1] = d /\ own[q][2] \in Kinds) => t.mem[q] = s.mem[q]

(* vm_free_pg_dir gives back all pages of a directory and no others.        *)
LEMMA DirFreed ==
    ASSUME NEW s \in States, s.ok, NEW own, NEW D, Layout(s, own, D), NEW d \in D,
           NEW t, t = FreeDir(s, d)
    PROVE  t \in States /\ DirLeft(s, own, D, d, t)
<1>0. PICK x : x = ResizeDec(s, d)
    OBVIOUS
<1>1. PICK u : u = Tables(x, d)
    OBVIOUS
<1>2. t = FreeBlock(u, d, DirPages)
    BY Zenon, <1>0, <1>1 DEF FreeDir, Tables
<1>3. d \in Pages /\ d # 0
    BY Apartness, PageSets
<1>4. x \in States /\ DecPart(s, own, D, d, KernelPage, x)
    BY <1>0, <1>3, DecLoop DEF DecSteps
<1>5. PICK own1 : Layout(x, own1, D) /\ Shrinks(s, own, x, own1, d)
    BY <1>4 DEF DecPart
<1>6. \A v \in UserVPs : PageAt(x, d, v) = 0
  <2>1. \A v \in UserVPs : v < KernelPage
      BY MemSizes DEF UserVPs, KernelPage
  <2>2. QED
      BY <1>4, <2>1 DEF DecPart, PageAt
<1>7. u \in States /\ TabPart(x, own1, D, d, W, u)
  <2>1. x.ok
      BY <1>4 DEF DecPart
  <2>2. u \in TabSteps(x, own1, D, d, W)
      BY <1>1, <1>4, <1>5, <1>6, <2>1, TabLoop
  <2>3. QED
      BY <2>2 DEF TabSteps
<1> DEFINE blk == d .. d + DirPages - 1
<1> DEFINE own2 == Leaving(own1, d, W)
<1>8. W \in Nat
    BY MemSizes
<1>9. /\ own2 \in [Pages -> Role]
      /\ \A q \in Pages :
            /\ own1[q][1] = d /\ own1[q][2] = "table" =>
                 own2[q] = IF own1[q][3] < W THEN Spare ELSE InHand
            /\ own1[q][1] = d /\ own1[q][2] = "dir" => own2[q] = InHand
            /\ ~(own1[q][1] = d /\ own1[q][2] \in {"dir", "table"}) => own2[q] = own1[q]
    BY <1>5, <1>8, LeavingIs
<1>10. /\ Left(own, d) \in [Pages -> Role]
       /\ \A q \in Pages : Left(own, d)[q] =
             IF own[q][1] = d /\ own[q][2] \in Kinds THEN Spare ELSE own[q]
    BY <1>8, LeavingIs
<1>11. DirsOwned(own1, D) /\ TablesOwned(x, own1, D) /\ PagesOwned(x, own1, D)
    BY <1>5 DEF Layout
<1>12. \A q \in Pages : q \in blk <=> own1[q][1] = d /\ own1[q][2] = "dir"
  <2>1. ASSUME NEW q \in Pages, q \in blk PROVE own1[q][1] = d /\ own1[q][2] = "dir"
    <3> DEFINE i == q - d
    <3>1. i \in 0 .. DirPages - 1 /\ q = d + i
        BY <1>3, <2>1, PageSets, MemSizes
    <3> HIDE DEF i
    <3>2. own1[d + i] = <<d, "dir", i>>
        BY <1>11, <3>1 DEF DirsOwned
    <3>3. own1[q] = <<d, "dir", i>>
        BY <3>1, <3>2
    <3>4. QED
        BY <3>3
  <2>2. ASSUME NEW q \in Pages, own1[q][1] = d, own1[q][2] = "dir" PROVE q \in blk
    <3>1. own1[q][3] \in 0 .. DirPages - 1 /\ q = d + own1[q][3]
        BY <1>11, <2>2 DEF DirsOwned
    <3> DEFINE i == own1[q][3]
    <3> HIDE DEF i
    <3>2. i \in 0 .. DirPages - 1 /\ q = d + i /\ d \in Nat /\ DirPages \in Nat
        BY <1>3, <3>1, PageSets, MemSizes DEF i
    <3>3. QED
        BY <3>2
  <2>3. QED
      BY <2>1, <2>2
<1>13. blk \subseteq Pages
  <2> SUFFICES ASSUME NEW q \in blk PROVE q \in Pages
      OBVIOUS
  <2> DEFINE i == q - d
  <2>1. i \in 0 .. DirPages - 1 /\ q = d + i
      BY <1>3, PageSets, MemSizes
  <2> HIDE DEF i
  <2>2. QED
      BY <1>11, <2>1 DEF DirsOwned
<1>14. Freed(u, blk, t)
  <2> HIDE DEF blk
  <2>1. blk = d .. d + DirPages - 1
      BY DEF blk
  <2>2. QED
      BY <1>2, <1>7, <1>13, <2>1, BlockFreed
<1>15. \A q \in Pages : /\ own1[q] = own[q] \/ (own[q][1] = d /\ own[q][2] = "page" /\ own1[q] = Spare)
                        /\ ~(own[q][1] = d /\ own[q][2] \in Kinds) => x.mem[q] = s.mem[q]
    BY <1>5 DEF Shrinks
<1> HIDE DEF blk, own2
<1>16. \A q \in Pages : Left(own, d)[q] = IF q \in blk THEN Spare ELSE own2[q]
  <2> SUFFICES ASSUME NEW q \in Pages
               PROVE  Left(own, d)[q] = IF q \in blk THEN Spare ELSE own2[q]
      OBVIOUS
  <2>0. Spare[1] = 0 /\ Spare[2] = "free"
      BY DEF Spare
  <2>1. CASE own[q][1] = d /\ own[q][2] = "table"
    <3>1. own1[q] = own[q]
        BY <1>15, <2>1
    <3>2. own1[q][3] < W
        BY <1>8, <1>11, <2>1, <3>1 DEF TablesOwned
    <3>3. own2[q] = Spare /\ q \notin blk
        BY <1>9, <1>12, <2>1, <3>1, <3>2
    <3>4. QED
        BY <1>10, <2>1, <3>3 DEF Kinds
  <2>2. CASE own[q][1] = d /\ own[q][2] = "dir"
    <3>1. own1[q] = own[q]
        BY <1>15, <2>2
    <3>2. QED
        BY <1>10, <1>12, <2>2, <3>1 DEF Kinds
  <2>3. CASE own[q][1] = d /\ own[q][2] = "page"
    <3>1. own1[q] = Spare
      <4>1. ASSUME own1[q] = own[q] PROVE FALSE
        <5>1. own1[q][3] \in UserVPs /\ PageAt(x, d, own1[q][3]) = q
            BY <1>11, <2>3, <4>1 DEF PagesOwned
        <5>2. QED
            BY <1>6, <5>1, PageSets
      <4>2. QED
          BY <1>15, <4>1
    <3>2. own2[q] = Spare /\ q \notin blk
        BY <1>9, <1>12, <2>0, <3>1
    <3>3. QED
        BY <1>10, <2>3, <3>2 DEF Kinds
  <2>4. CASE ~(own[q][1] = d /\ own[q][2] \in Kinds)
    <3>1. own1[q] = own[q]
        BY <1>15, <2>4 DEF Kinds
    <3>2. own2[q] = own1[q] /\ q \notin blk
        BY <1>9, <1>12, <2>4, <3>1 DEF Kinds
    <3>3. QED
        BY <1>10, <2>4, <3>1, <3>2
  <2>5. QED
      BY <2>1, <2>2, <2>3, <2>4 DEF Kinds
<1>17. \A q \in blk : own2[q][2] \in Loose /\ own2[q] # Spare
    BY <1>9, <1>12, <1>13 DEF InHand, Spare, Loose
<1> DEFINE E == D \ {d}
<1>18. Layout(u, own2, E)
    BY <1>7 DEF TabPart, own2
<1> HIDE DEF E
<1>19. Layout(t, Left(own, d), E) /\ \A c \in E : Alike(u, t, c)
  <2> DEFINE own3 == Left(own, d)
  <2>1. own3 \in [Pages -> Role] /\ \A q \in Pages : own3[q] = IF q \in blk THEN Spare ELSE own2[q]
      BY <1>10, <1>16
  <2> HIDE DEF own3
  <2>2. u \in States
      BY <1>7
  <2>3. Layout(t, own3, E) /\ \A c \in E : Alike(u, t, c)
      BY <1>13, <1>14, <1>17, <1>18, <2>1, <2>2, Returned
  <2>4. QED
      BY <2>3 DEF own3
<1>20. \A c \in D, v \in VPs : c # d => Pte(t, c, v) = Pte(s, c, v)
    BY <1>4, <1>7, <1>19 DEF Alike, TabPart, DecPart, E
<1>21. \A q \in Pages : ~(own[q][1] = d /\ own[q][2] \in Kinds) => t.mem[q] = s.mem[q]
  <2> SUFFICES ASSUME NEW q \in Pages, ~(own[q][1] = d /\ own[q][2] \in Kinds)
               PROVE  t.mem[q] = s.mem[q]
      OBVIOUS
  <2>1. own1[q] = own[q] /\ x.mem[q] = s.mem[q]
      BY <1>15 DEF Kinds
  <2>2. u.mem[q] = x.mem[q]
      BY <1>7, <2>1 DEF TabPart
  <2>3. q \notin blk
      BY <1>12, <2>1 DEF Kinds
  <2>4. QED
      BY <1>14, <2>1, <2>2, <2>3 DEF Freed
<1>22. t \in States /\ t.ok
    BY <1>7, <1>14 DEF Freed, TabPart
<1>23. QED
    BY <1>19, <1>20, <1>21, <1>22 DEF DirLeft, E
-----------------------------------------------------------------------------
(* fork's copy                                                              *)

(* A page that is mapped is the directory's.                                *)
LEMMA UserPage ==
    ASSUME NEW s \in States, NEW own, NEW D, Layout(s, own, D), NEW c \in D, NEW v \in UserVPs,
           Present(Pte(s, c, v))
    PROVE  /\ PageOf(Pte(s, c, v)) \in Pages /\ own[PageOf(Pte(s, c, v))] = <<c, "page", v>>
           /\ own[PageOf(Pte(s, c, v))] # Spare /\ own[PageOf(Pte(s, c, v))][2] = "page"
<1> DEFINE i == v \div W
<1> DEFINE j == v % W
<1> DEFINE tbl == TableAt(s, c, i)
<1> DEFINE pg == PageOf(Pte(s, c, v))
<1>1. v \in VPs /\ i \in 0 .. W - 1 /\ j \in 0 .. W - 1
    BY Places, DivMod
<1>2. Pte(s, c, v) = IF tbl = 0 THEN 0 ELSE s.mem[tbl][j]
    BY <1>1, Views
<1>3. TablesOwned(s, own, D) /\ PagesOwned(s, own, D)
    BY DEF Layout
<1>4. tbl # 0 /\ tbl \in Pages
    BY <1>1, <1>2, <1>3, Entries DEF TablesOwned
<1>5. Pte(s, c, v) \in Int
  <2>1. s.mem[tbl] \in Words
      BY <1>4 DEF States
  <2>2. s.mem[tbl][j] \in Int
      BY <1>1, <2>1 DEF Words
  <2>3. QED
      BY <1>2, <1>4, <2>2
<1>6. pg # 0 /\ pg = PageAt(s, c, v)
    BY <1>5, Entries DEF PageAt
<1>7. pg \in Pages /\ own[pg] = <<c, "page", v>>
    BY <1>3, <1>6 DEF PagesOwned
<1> HIDE DEF pg
<1>8. own[pg] # Spare /\ own[pg][2] = "page"
    BY <1>7 DEF Spare
<1>9. QED
    BY <1>7, <1>8 DEF pg

(* After k steps of *_page_clone_pg_dir.                                    *)
Copied(t, dst, src, v) ==
    /\ Present(Pte(t, dst, v)) <=> Present(Pte(t, src, v))
    /\ Present(Pte(t, src, v)) =>
          /\ IsUser(Pte(t, dst, v)) <=> IsUser(Pte(t, src, v))
          /\ t.mem[PageOf(Pte(t, dst, v))] = t.mem[PageOf(Pte(t, src, v))]
CopyPart(s, own, D, dst, src, k, t) ==
    /\ s.ok /\ \E own2 : Layout(t, own2, D) /\ Builds(s, own, t, own2, dst, {})
    /\ \A v \in UserVPs : v < k => Copied(t, dst, src, v)
    /\ \A v \in VPs : ~(v < k) => Pte(t, dst, v) = Pte(s, dst, v)
    /\ \A c \in D, v \in VPs : c # dst => Pte(t, c, v) = Pte(s, c, v)
CopySteps(s, own, D, dst, src, k) ==
    {t \in States : t.ok => CopyPart(s, own, D, dst, src, k, t)}

(* One step of vm_clone.                                                    *)
LEMMA CopyStep ==
    ASSUME NEW s \in States, NEW own, NEW D, s.ok => Layout(s, own, D), NEW dst \in D,
           dst \in Pages, NEW src \in D, src # dst, \A v \in UserVPs : Pte(s, dst, v) = 0,
           NEW k \in UserVPs, NEW x \in CopySteps(s, own, D, dst, src, k)
    PROVE  CopyPage(x, dst, src, k) \in CopySteps(s, own, D, dst, src, k + 1)
<1>0. PICK t : t = CopyPage(x, dst, src, k)
    OBVIOUS
<1> DEFINE n == k + 1
<1> DEFINE w == Pte(x, src, k)
<1>1. x \in States /\ (x.ok => CopyPart(s, own, D, dst, src, k, x))
    BY DEF CopySteps
<1>2. \A v \in VPs : v < n <=> v < k \/ v = k
    BY MemSizes DEF UserVPs, KernelPage, VPs
<1>3. k \in VPs /\ UserVPs \subseteq VPs /\ ~(k < k) /\ dst # 0
    BY Places, PageSets DEF UserVPs
<1> HIDE DEF n
<1>4. CASE ~x.ok
  <2>1. t = x
      BY <1>0, <1>4 DEF CopyPage
  <2>2. t \in CopySteps(s, own, D, dst, src, n)
      BY <1>1, <1>4, <2>1 DEF CopySteps
  <2>3. QED
      BY <1>0, <2>2 DEF n
<1>5. CASE x.ok /\ ~Present(w)
  <2>1. t = x
      BY <1>0, <1>5 DEF CopyPage
  <2>2. CopyPart(s, own, D, dst, src, k, x)
      BY <1>1, <1>5
  <2>3. Copied(x, dst, src, k)
    <3>1. ~Present(Pte(x, dst, k))
        BY <1>3, <2>2, Entries DEF CopyPart
    <3>2. QED
        BY <1>5, <3>1 DEF Copied
  <2>4. \A v \in UserVPs : v < n => Copied(x, dst, src, v)
      BY <1>2, <1>3, <2>2, <2>3 DEF CopyPart
  <2>5. \A v \in VPs : ~(v < n) => Pte(x, dst, v) = Pte(s, dst, v)
      BY <1>2, <2>2 DEF CopyPart
  <2>6. CopyPart(s, own, D, dst, src, n, x)
      BY <2>2, <2>4, <2>5 DEF CopyPart
  <2>7. t \in CopySteps(s, own, D, dst, src, n)
      BY <1>1, <2>1, <2>6 DEF CopySteps
  <2>8. QED
      BY <1>0, <2>7 DEF n
<1>6. CASE x.ok /\ Present(w)
  <2>0. PICK r : r = Alloc(x)
      OBVIOUS
  <2> DEFINE from == PageOf(w)
  <2> DEFINE words == r.s.mem[from]
  <2> DEFINE pg == r.pg
  <2> DEFINE user == IsUser(w)
  <2>a. PICK u : u = PutPage(r.s, pg, words)
      OBVIOUS
  <2>1. t = Map(u, dst, k, pg, user)
      BY <1>0, <1>6, <2>0, <2>a DEF CopyPage, MapCopy, PutPage
  <2>2. CopyPart(s, own, D, dst, src, k, x)
      BY <1>1, <1>6
  <2>3. PICK own1 : Layout(x, own1, D) /\ Builds(s, own, x, own1, dst, {})
      BY <2>2 DEF CopyPart
  <2>4. from \in Pages /\ own1[from] = <<src, "page", k>> /\ own1[from] # Spare
        /\ own1[from][2] = "page"
      BY <1>1, <1>6, <2>3, UserPage
  <2>5. /\ pg \in Pages /\ r.s \in States
        /\ r.s.ok => own1[pg] = Spare /\ \A q \in Pages : q # pg => r.s.mem[q] = x.mem[q]
    <3>1. x.ok => Layout(x, own1, D)
        BY <2>3
    <3>2. QED
        BY <1>1, <2>0, <3>1, PageTaken
  <2>6. words \in Words /\ user \in BOOLEAN
    <3>1. words \in Words
        BY <2>4, <2>5 DEF States
    <3>2. user \in BOOLEAN
        BY DEF IsUser
    <3>3. QED
        BY <3>1, <3>2
  <2> HIDE DEF from, words, pg, user
  <2>7. Wrote(r.s, u, pg) /\ u.mem[pg] = words
      BY <2>a, <2>5, <2>6, WritePage
  <2>8. t \in States /\ (t.ok => r.s.ok /\ PageAdd(x, own1, D, dst, k, pg, user, words, t))
    <3>1. x.ok => Layout(x, own1, D)
        BY <2>3
    <3>2. Wrote(r.s, u, r.pg) /\ t = Map(u, dst, k, r.pg, user)
        BY <2>1, <2>7 DEF pg
    <3>3. t \in States /\ (t.ok => r.s.ok /\ PageAdd(x, own1, D, dst, k, r.pg, user, u.mem[r.pg], t))
        BY <1>1, <2>0, <2>6, <3>1, <3>2, PageAdded
    <3>4. QED
        BY <2>7, <3>3 DEF pg
  <2>9. ASSUME t.ok PROVE CopyPart(s, own, D, dst, src, n, t)
    <3>1. r.s.ok /\ PageAdd(x, own1, D, dst, k, pg, user, words, t)
        BY <2>8, <2>9
    <3>2. PICK own2 : Layout(t, own2, D) /\ Builds(x, own1, t, own2, dst, {})
        BY <3>1 DEF PageAdd
    <3>3. Builds(s, own, t, own2, dst, {})
        BY <1>3, <2>3, <3>2, BuildsOn
    <3>4. /\ t.mem[pg] = words /\ own1[pg] = Spare
          /\ \A c \in D, v \in VPs : Pte(t, c, v) =
                IF c = dst /\ v = k THEN Entry(pg, user) ELSE Pte(x, c, v)
        BY <3>1 DEF PageAdd
    <3>5. words = x.mem[from]
        BY <2>4, <2>5, <3>1, <3>4 DEF words
    <3>6. \A q \in Pages : own1[q] # Spare /\ own1[q][2] = "page" => t.mem[q] = x.mem[q]
        BY <3>2 DEF Builds
    <3>7. \A c \in D, v \in UserVPs : Present(Pte(x, c, v)) =>
             t.mem[PageOf(Pte(x, c, v))] = x.mem[PageOf(Pte(x, c, v))]
        BY <1>1, <2>3, <3>6, UserPage
    <3>8. Copied(t, dst, src, k)
      <4>1. Pte(t, dst, k) = Entry(pg, user) /\ Pte(t, src, k) = w
          BY <1>3, <3>4
      <4>2. /\ Present(Entry(pg, user)) /\ PageOf(Entry(pg, user)) = pg
            /\ IsUser(Entry(pg, user)) <=> user
          BY <2>5, <2>6, Entries, PageSets
      <4>3. t.mem[PageOf(w)] = x.mem[PageOf(w)]
          BY <1>6, <3>7
      <4> HIDE DEF w
      <4>4. QED
          BY <1>6, <3>4, <3>5, <4>1, <4>2, <4>3 DEF Copied, from, user
    <3>9. ASSUME NEW v \in UserVPs, v < k PROVE Copied(t, dst, src, v)
      <4>1. v \in VPs /\ v # k
          BY <1>3, <3>9
      <4>2. Pte(t, dst, v) = Pte(x, dst, v) /\ Pte(t, src, v) = Pte(x, src, v)
          BY <3>4, <4>1
      <4>3. Copied(x, dst, src, v)
          BY <2>2, <3>9 DEF CopyPart
      <4>4. QED
          BY <3>7, <4>2, <4>3 DEF Copied
    <3>10. \A v \in UserVPs : v < n => Copied(t, dst, src, v)
        BY <1>2, <1>3, <3>8, <3>9
    <3>11. \A v \in VPs : ~(v < n) => Pte(t, dst, v) = Pte(s, dst, v)
        BY <1>2, <2>2, <3>4 DEF CopyPart
    <3>12. \A c \in D, v \in VPs : c # dst => Pte(t, c, v) = Pte(s, c, v)
        BY <2>2, <3>4 DEF CopyPart
    <3>13. s.ok
        BY <2>2 DEF CopyPart
    <3>14. QED
        BY <3>2, <3>3, <3>10, <3>11, <3>12, <3>13 DEF CopyPart
  <2>10. t \in CopySteps(s, own, D, dst, src, n)
      BY <2>8, <2>9 DEF CopySteps
  <2>11. QED
      BY <1>0, <2>10 DEF n
<1>7. QED
    BY <1>4, <1>5, <1>6

Copies(s, dst, src, n) == Iterate(LAMBDA t, vp : CopyPage(t, dst, src, vp), s, n)

(* The loop of vm_clone.                                                    *)
LEMMA CopyLoop ==
    ASSUME NEW s \in States, NEW own, NEW D, s.ok => Layout(s, own, D), NEW dst \in D,
           dst \in Pages, NEW src \in D, src # dst, \A v \in UserVPs : Pte(s, dst, v) = 0,
           NEW n \in Nat, n <= KernelPage
    PROVE  Copies(s, dst, src, n) \in CopySteps(s, own, D, dst, src, n)
<1> DEFINE T == [k \in 0 .. n |-> CopySteps(s, own, D, dst, src, k)]
<1> DEFINE Do(x, k) == CopyPage(x, dst, src, k)
<1> DEFINE h == [k \in 0 .. n - 1 |-> [x \in T[k] |-> Do(x, k)]]
<1> DEFINE g == CHOOSE at : at = [k \in 0 .. n |-> IF k = 0 THEN s ELSE Do(at[k - 1], k - 1)]
<1>1. n \in Nat /\ 0 \in 0 .. n /\ n \in 0 .. n
    OBVIOUS
<1>2. s \in T[0]
  <2>1. Builds(s, own, s, own, dst, {})
      BY DEF Builds
  <2>2. \A v \in UserVPs : ~(v < 0)
      BY DEF UserVPs
  <2>3. CopyPart(s, own, D, dst, src, 0, s) \/ ~s.ok
      BY <2>1, <2>2 DEF CopyPart
  <2>4. s \in CopySteps(s, own, D, dst, src, 0)
      BY <2>3 DEF CopySteps
  <2>5. QED
      BY <1>1, <2>4
<1>3. Copies(s, dst, src, n) = g[n]
    BY Zenon DEF Copies, Iterate
<1>4. ASSUME NEW k \in 0 .. n - 1, NEW x \in T[k] PROVE Do(x, k) \in T[k + 1]
  <2>1. x \in CopySteps(s, own, D, dst, src, k) /\ k + 1 \in 0 .. n
      BY <1>1
  <2>2. Do(x, k) \in CopySteps(s, own, D, dst, src, k + 1)
    <3>1. k \in UserVPs
        BY MemSizes DEF KernelPage, UserVPs
    <3>2. QED
        BY <2>1, <3>1, CopyStep
  <2> HIDE DEF Do
  <2>3. QED
      BY <2>1, <2>2
<1>5. T[n] = CopySteps(s, own, D, dst, src, n) /\ \A k \in 0 .. n : T[k] \subseteq States
    BY <1>1 DEF CopySteps
<1> HIDE DEF T, Do, g
<1>6. \A k \in 0 .. n - 1 : \A x \in T[k] : h[k][x] = Do(x, k)
    OBVIOUS
<1> HIDE DEF h
<1>7. PICK f \in [0 .. n -> States] :
         f[0] = s /\ \A k \in 0 .. n - 1 : f[k] \in T[k] /\ f[k + 1] = h[k][f[k]]
  <2>1. \A k \in 0 .. n - 1 : \A x \in T[k] : h[k][x] \in T[k + 1]
      BY <1>4, <1>6
  <2>2. Leads(n, States, T, h, s)
      BY <1>1, <1>2, <1>5, <2>1 DEF Leads
  <2>3. PICK f : Taken(f, n, States, T, h, s)
      BY <2>2, LoopRuns
  <2>4. QED
      BY <2>3 DEF Taken
<1>8. f = [k \in 0 .. n |-> IF k = 0 THEN s ELSE Do(f[k - 1], k - 1)]
  <2>1. ASSUME NEW k \in 0 .. n PROVE f[k] = IF k = 0 THEN s ELSE Do(f[k - 1], k - 1)
    <3>1. k # 0 => k - 1 \in 0 .. n - 1 /\ k - 1 + 1 = k
        BY <1>1
    <3>2. QED
        BY <1>6, <1>7, <3>1
  <2>2. f = [k \in 0 .. n |-> f[k]]
      OBVIOUS
  <2>3. QED
      BY <2>1, <2>2
<1>9. g = [k \in 0 .. n |-> IF k = 0 THEN s ELSE Do(g[k - 1], k - 1)]
    BY <1>8 DEF g
<1>10. g[0] = s /\ \A k \in 0 .. n - 1 : g[k + 1] = Do(g[k], k)
  <2>1. \A k \in 0 .. n : g[k] = IF k = 0 THEN s ELSE Do(g[k - 1], k - 1)
      BY <1>9
  <2>2. ASSUME NEW k \in 0 .. n - 1 PROVE g[k + 1] = Do(g[k], k)
    <3>1. k + 1 \in 0 .. n /\ k + 1 # 0 /\ k + 1 - 1 = k
        BY <1>1
    <3>2. QED
        BY <2>1, <3>1
  <2>3. QED
      BY <1>1, <2>1, <2>2
<1>11. g[n] \in T[n]
    BY <1>1, <1>2, <1>4, <1>10, LoopEnds
<1>12. QED
    BY <1>3, <1>5, <1>11

(* vm_clone copies every page below the size.                               *)
LEMMA Cloned ==
    ASSUME NEW s \in States, NEW own, NEW D, s.ok => Layout(s, own, D), NEW dst \in D,
           dst \in Pages, NEW src \in D, src # dst, \A v \in UserVPs : Pte(s, dst, v) = 0,
           NEW size \in Nat, size <= KernelBase, NEW t, t = Clone(s, dst, src, size)
    PROVE  t \in States /\ (t.ok => CopyPart(s, own, D, dst, src, Ceil(size), t))
<1> DEFINE n == Ceil(size)
<1>1. n \in Nat /\ n <= KernelPage
  <2>1. KernelPage \in Nat /\ KernelBase = W * KernelPage
      BY MemSizes DEF KernelPage, KernelBase
  <2>2. QED
      BY <2>1, Rounding
<1>2. t = Copies(s, dst, src, n)
    BY Zenon DEF Clone, Copies
<1> HIDE DEF n
<1>3. Copies(s, dst, src, n) \in CopySteps(s, own, D, dst, src, n)
    BY <1>1, CopyLoop
<1>4. QED
    BY <1>2, <1>3 DEF CopySteps, n
-----------------------------------------------------------------------------
(* exec's image                                                             *)

(* Words in pages and tables are numbers; an entry that is not there leads  *)
(* to no page.                                                              *)
LEMMA Nowhere ==
    ASSUME NEW s \in States, NEW own, NEW D, Layout(s, own, D), NEW c \in D, NEW v \in VPs,
           ~Present(Pte(s, c, v))
    PROVE  PageOf(Pte(s, c, v)) \notin Pages
<1> DEFINE i == v \div W
<1> DEFINE j == v % W
<1> DEFINE tbl == TableAt(s, c, i)
<1>1. i \in 0 .. W - 1 /\ j \in 0 .. W - 1
    BY DivMod
<1>2. Pte(s, c, v) = IF tbl = 0 THEN 0 ELSE s.mem[tbl][j]
    BY Views
<1>3. tbl # 0 => tbl \in Pages
    BY <1>1 DEF Layout, TablesOwned
<1> HIDE DEF tbl, i, j
<1>4. Pte(s, c, v) \in Int
  <2>1. tbl # 0 => s.mem[tbl] \in Words
      BY <1>3 DEF States
  <2>2. tbl # 0 => s.mem[tbl][j] \in Int
      BY <1>1, <2>1 DEF Words
  <2>3. QED
      BY <1>2, <2>2
<1> DEFINE w == Pte(s, c, v)
<1>5. w \in Int /\ ~Present(w)
    BY <1>4
<1> HIDE DEF w
<1>6. PageOf(w) \notin Nat \ {0}
    BY <1>5 DEF Present, PageOf
<1>7. QED
    BY <1>6, PageSets DEF w

(* What of the file goes to one page.                                       *)
LEMMA PageFilled ==
    ASSUME NEW s \in States, NEW pg, NEW n, NEW word \in Int
    PROVE  /\ Wrote(s, LoadPage(s, pg, n, word), pg)
           /\ pg \in Pages => \A j \in 0 .. W - 1 : LoadPage(s, pg, n, word).mem[pg][j] =
                IF j < n THEN word ELSE s.mem[pg][j]
<1> DEFINE x == [j \in 0 .. W - 1 |-> IF j < n THEN word ELSE s.mem[pg][j]]
<1>1. CASE pg \in Pages
  <2>1. x \in Words
    <3>1. s.mem[pg] \in Words
        BY <1>1 DEF States
    <3>2. \A j \in 0 .. W - 1 : s.mem[pg][j] \in Int
        BY <3>1 DEF Words
    <3>3. QED
        BY <3>2 DEF Words
  <2>2. LoadPage(s, pg, n, word) = PutPage(s, pg, x)
      BY <1>1 DEF LoadPage, PutPage, States
  <2>3. \A j \in 0 .. W - 1 : x[j] = IF j < n THEN word ELSE s.mem[pg][j]
      OBVIOUS
  <2> HIDE DEF x
  <2>4. QED
      BY <1>1, <2>1, <2>2, <2>3, WritePage
<1>2. CASE pg \notin Pages
  <2>1. LoadPage(s, pg, n, word) = s
      BY <1>2 DEF LoadPage, States
  <2>2. Wrote(s, s, pg)
      BY DEF Wrote
  <2>3. QED
      BY <1>2, <2>1, <2>2
<1>3. QED
    BY <1>1, <1>2

(* The pages of a segment that the file fills are below the process's size. *)
LEMMA FilledBelow ==
    ASSUME NEW vaddr \in Nat, NEW filesz \in Nat, NEW size \in Nat, vaddr + filesz <= size,
           size < KernelBase, NEW k \in 0 .. Ceil(filesz) - 1
    PROVE  /\ vaddr \div W + k \in UserVPs /\ vaddr \div W + k < Ceil(size)
           /\ W * (vaddr \div W + k) < size
<1> DEFINE a == vaddr \div W
<1> DEFINE m == vaddr % W
<1>1. W \in Nat \ {0} /\ Ceil(filesz) \in Nat /\ Ceil(size) \in Nat
    BY MemSizes, Rounding
<1>2. a \in Nat /\ m \in 0 .. W - 1 /\ vaddr = W * a + m
    BY <1>1, Quotient
<1> HIDE DEF a, m
<1>3. k \in Nat /\ ~(Ceil(filesz) <= k)
    BY <1>1
<1>4. ~(filesz <= W * k)
    BY <1>3, Rounding
<1>5. W * (a + k) = W * a + W * k /\ W * a \in Nat /\ W * k \in Nat /\ a + k \in Nat
    BY <1>1, <1>2, <1>3
<1>6. W * (a + k) < size
    BY <1>2, <1>4, <1>5
<1>7. ~(Ceil(size) <= a + k)
    BY <1>5, <1>6, Rounding
<1>8. Ceil(size) <= KernelPage /\ KernelPage \in Nat
  <2>1. KernelPage \in Nat /\ KernelBase = W * KernelPage
      BY MemSizes DEF KernelPage, KernelBase
  <2>2. QED
      BY <2>1, Rounding
<1>9. a + k < Ceil(size) /\ a + k \in UserVPs
    BY <1>1, <1>5, <1>7, <1>8 DEF UserVPs
<1>10. QED
    BY <1>6, <1>9 DEF a

(* After k pages of vm_prog_load.                                           *)
FillPart(s, own, D, d, k, t) ==
    /\ t.ok /\ Layout(t, own, D)
    /\ \A c \in D, v \in VPs : Pte(t, c, v) = Pte(s, c, v)
    /\ \A q \in Pages : ~(own[q][1] = d /\ own[q][2] = "page") => t.mem[q] = s.mem[q]
FillSteps(s, own, D, d, k) == {t \in States : FillPart(s, own, D, d, k, t)}

(* One page of vm_prog_load.                                                *)
LEMMA FillStep ==
    ASSUME NEW s \in States, NEW own, NEW D, NEW d \in D, NEW v \in UserVPs, NEW n,
           NEW word \in Int, NEW k, NEW k2, NEW x \in FillSteps(s, own, D, d, k)
    PROVE  LoadPage(x, PageOf(Pte(x, d, v)), n, word) \in FillSteps(s, own, D, d, k2)
<1> DEFINE pg == PageOf(Pte(x, d, v))
<1>0. PICK t : t = LoadPage(x, pg, n, word)
    OBVIOUS
<1>1. x \in States /\ FillPart(s, own, D, d, k, x) /\ Layout(x, own, D)
    BY DEF FillSteps, FillPart
<1>2. pg \in Pages => own[pg][1] = d /\ own[pg][2] = "page"
  <2>1. CASE Present(Pte(x, d, v))
      BY <1>1, <2>1, UserPage
  <2>2. CASE ~Present(Pte(x, d, v))
      BY <1>1, <2>2, Nowhere, Places
  <2>3. QED
      BY <2>1, <2>2
<1> HIDE DEF pg
<1>3. Wrote(x, t, pg)
    BY <1>0, <1>1, PageFilled
<1>4. Layout(t, own, D) /\ \A c \in D, u \in VPs : Pte(t, c, u) = Pte(x, c, u)
    BY <1>1, <1>2, <1>3, Written
<1>5. \A q \in Pages : ~(own[q][1] = d /\ own[q][2] = "page") => t.mem[q] = s.mem[q]
    BY <1>1, <1>2, <1>3 DEF FillPart, Wrote
<1>6. t \in States /\ FillPart(s, own, D, d, k2, t)
    BY <1>1, <1>3, <1>4, <1>5 DEF FillPart, Wrote
<1>7. QED
    BY <1>0, <1>6 DEF FillSteps, pg

Fills(s, d, first, filesz, n, word) ==
    Iterate(LAMBDA t, i : LoadPage(t, PageOf(Pte(t, d, first + i)), filesz - i * W, word), s, n)

(* The loop of vm_prog_load.                                                *)
LEMMA FillLoop ==
    ASSUME NEW s \in States, s.ok, NEW own, NEW D, Layout(s, own, D), NEW d \in D, NEW first,
           NEW filesz, NEW n \in Nat, \A k \in 0 .. n - 1 : first + k \in UserVPs,
           NEW word \in Int
    PROVE  Fills(s, d, first, filesz, n, word) \in FillSteps(s, own, D, d, n)
<1> DEFINE T == [k \in 0 .. n |-> FillSteps(s, own, D, d, k)]
<1> DEFINE Do(x, k) == LoadPage(x, PageOf(Pte(x, d, first + k)), filesz - k * W, word)
<1> DEFINE h == [k \in 0 .. n - 1 |-> [x \in T[k] |-> Do(x, k)]]
<1> DEFINE g == CHOOSE at : at = [k \in 0 .. n |-> IF k = 0 THEN s ELSE Do(at[k - 1], k - 1)]
<1>1. n \in Nat /\ 0 \in 0 .. n /\ n \in 0 .. n
    OBVIOUS
<1>2. s \in T[0]
  <2>1. FillPart(s, own, D, d, 0, s)
      BY DEF FillPart
  <2>2. s \in FillSteps(s, own, D, d, 0)
      BY <2>1 DEF FillSteps
  <2>3. QED
      BY <1>1, <2>2
<1>3. Fills(s, d, first, filesz, n, word) = g[n]
    BY Zenon DEF Fills, Iterate
<1>4. ASSUME NEW k \in 0 .. n - 1, NEW x \in T[k] PROVE Do(x, k) \in T[k + 1]
  <2>1. x \in FillSteps(s, own, D, d, k) /\ k + 1 \in 0 .. n
      BY <1>1
  <2>2. Do(x, k) \in FillSteps(s, own, D, d, k + 1)
    <3> DEFINE m == filesz - k * W
    <3> DEFINE v == first + k
    <3>1. v \in UserVPs
        OBVIOUS
    <3> HIDE DEF m, v
    <3>2. LoadPage(x, PageOf(Pte(x, d, v)), m, word) \in FillSteps(s, own, D, d, k + 1)
        BY <2>1, <3>1, FillStep
    <3>3. QED
        BY <3>2 DEF m, v
  <2> HIDE DEF Do
  <2>3. QED
      BY <2>1, <2>2
<1>5. T[n] = FillSteps(s, own, D, d, n) /\ \A k \in 0 .. n : T[k] \subseteq States
    BY <1>1 DEF FillSteps
<1> HIDE DEF T, Do, g
<1>6. \A k \in 0 .. n - 1 : \A x \in T[k] : h[k][x] = Do(x, k)
    OBVIOUS
<1> HIDE DEF h
<1>7. PICK f \in [0 .. n -> States] :
         f[0] = s /\ \A k \in 0 .. n - 1 : f[k] \in T[k] /\ f[k + 1] = h[k][f[k]]
  <2>1. \A k \in 0 .. n - 1 : \A x \in T[k] : h[k][x] \in T[k + 1]
      BY <1>4, <1>6
  <2>2. Leads(n, States, T, h, s)
      BY <1>1, <1>2, <1>5, <2>1 DEF Leads
  <2>3. PICK f : Taken(f, n, States, T, h, s)
      BY <2>2, LoopRuns
  <2>4. QED
      BY <2>3 DEF Taken
<1>8. f = [k \in 0 .. n |-> IF k = 0 THEN s ELSE Do(f[k - 1], k - 1)]
  <2>1. ASSUME NEW k \in 0 .. n PROVE f[k] = IF k = 0 THEN s ELSE Do(f[k - 1], k - 1)
    <3>1. k # 0 => k - 1 \in 0 .. n - 1 /\ k - 1 + 1 = k
        BY <1>1
    <3>2. QED
        BY <1>6, <1>7, <3>1
  <2>2. f = [k \in 0 .. n |-> f[k]]
      OBVIOUS
  <2>3. QED
      BY <2>1, <2>2
<1>9. g = [k \in 0 .. n |-> IF k = 0 THEN s ELSE Do(g[k - 1], k - 1)]
    BY <1>8 DEF g
<1>10. g[0] = s /\ \A k \in 0 .. n - 1 : g[k + 1] = Do(g[k], k)
  <2>1. \A k \in 0 .. n : g[k] = IF k = 0 THEN s ELSE Do(g[k - 1], k - 1)
      BY <1>9
  <2>2. ASSUME NEW k \in 0 .. n - 1 PROVE g[k + 1] = Do(g[k], k)
    <3>1. k + 1 \in 0 .. n /\ k + 1 # 0 /\ k + 1 - 1 = k
        BY <1>1
    <3>2. QED
        BY <2>1, <3>1
  <2>3. QED
      BY <1>1, <2>1, <2>2
<1>11. g[n] \in T[n]
    BY <1>1, <1>2, <1>4, <1>10, LoopEnds
<1>12. QED
    BY <1>3, <1>5, <1>11

(* vm_prog_load writes to pages of the new image only.                      *)
LEMMA ProgLoaded ==
    ASSUME NEW s \in States, s.ok, NEW own, NEW D, Layout(s, own, D), NEW d \in D,
           NEW ph \in Headers, NEW size \in Nat, ph.vaddr + ph.filesz <= size,
           size < KernelBase, NEW word \in Int, NEW t, t = ProgLoad(s, d, ph, word)
    PROVE  t \in States /\ FillPart(s, own, D, d, Ceil(ph.filesz), t)
<1> DEFINE first == ph.vaddr \div W
<1> DEFINE n == Ceil(ph.filesz)
<1>1. ph.vaddr \in Nat /\ ph.filesz \in Nat
    BY DEF Headers
<1>2. n \in Nat /\ \A k \in 0 .. n - 1 : first + k \in UserVPs
    BY <1>1, Rounding, FilledBelow
<1>3. t = Fills(s, d, first, ph.filesz, n, word)
    BY Zenon DEF ProgLoad, LoadPages, Fills
<1> HIDE DEF first, n
<1>4. Fills(s, d, first, ph.filesz, n, word) \in FillSteps(s, own, D, d, n)
    BY <1>2, FillLoop
<1>5. QED
    BY <1>3, <1>4 DEF FillSteps, n
-----------------------------------------------------------------------------
(* A new image in directory d, after some steps from s.                     *)
Held(s, own, D, d, x) ==
    /\ s.ok /\ \E own2 : Layout(x, own2, D) /\ Grows(s, own, x, own2, d)
    /\ KernelIn(x, d)
    /\ \A c \in D, v \in VPs : c # d => Pte(x, c, v) = Pte(s, c, v)
Below(x, d, sz) == \A v \in UserVPs : Present(Pte(x, d, v)) => v < Ceil(sz)

SamePtes(x, y, D, d) == \A c \in D, v \in VPs : c # d \/ v \notin UserVPs => Pte(y, c, v) = Pte(x, c, v)
Goes(x, y, D, d) ==
    \A own1 : Layout(x, own1, D) => \E own2 : Layout(y, own2, D) /\ Grows(x, own1, y, own2, d)

(* A step on the new directory keeps what is held of the rest.              *)
LEMMA HeldOn ==
    ASSUME NEW s, NEW own, NEW D, NEW d \in D, NEW x, NEW y, Held(s, own, D, d, x),
           Goes(x, y, D, d), SamePtes(x, y, D, d)
    PROVE  Held(s, own, D, d, y)
<1>1. PICK own1 : Layout(x, own1, D) /\ Grows(s, own, x, own1, d)
    BY DEF Held
<1>2. PICK own2 : Layout(y, own2, D) /\ Grows(x, own1, y, own2, d)
    BY <1>1 DEF Goes
<1>3. Grows(s, own, y, own2, d)
    BY <1>1, <1>2, GrowsOn
<1>4. KernelIn(y, d)
  <2>1. ASSUME NEW i \in 0 .. W - 1 PROVE Pte(y, d, KernelPage + i) = Entry(i + 1, FALSE)
    <3> DEFINE v == KernelPage + i
    <3>1. v \in VPs /\ v \notin UserVPs /\ Pte(x, d, v) = Entry(i + 1, FALSE)
        BY Places DEF Held, KernelIn
    <3> HIDE DEF v
    <3>2. Pte(y, d, v) = Pte(x, d, v)
        BY <3>1 DEF SamePtes
    <3>3. QED
        BY <3>1, <3>2 DEF v
  <2>2. QED
      BY <2>1 DEF KernelIn
<1>5. \A c \in D, v \in VPs : c # d => Pte(y, c, v) = Pte(s, c, v)
    BY DEF Held, SamePtes
<1>6. QED
    BY <1>2, <1>3, <1>4, <1>5 DEF Held

(* vm_resize and vm_prog_load go on with an image.                          *)
LEMMA GrowGoes ==
    ASSUME NEW x \in States, x.ok, NEW D, NEW d \in D, NEW old \in Nat, NEW new \in Nat,
           old <= new, new < KernelBase, NEW own1, Layout(x, own1, D), NEW r,
           r = ResizeInc(x, d, old, new), Below(x, d, old)
    PROVE  /\ r.sz = new /\ r.s \in States
           /\ r.s.ok => Goes(x, r.s, D, d) /\ SamePtes(x, r.s, D, d) /\ Below(r.s, d, new)
<1> DEFINE first == Ceil(old)
<1> DEFINE k == Ceil(new) - Ceil(old)
<1>1. d \in Pages
    BY DEF Layout, DirsOwned
<1>2. first \in Nat /\ k \in Nat /\ Ceil(new) \in Nat /\ Ceil(new) = first + k
    BY Rounding
<1>3. Ceil(new) <= KernelPage /\ KernelPage \in Nat
  <2>1. KernelPage \in Nat
      BY MemSizes DEF KernelPage
  <2>2. KernelBase = W * KernelPage
      BY MemSizes DEF KernelPage, KernelBase
  <2>3. new <= W * KernelPage
      BY <2>1, <2>2, MemSizes
  <2>4. QED
      BY <2>1, <2>3, Rounding
<1>4. r.sz = new
    BY <1>1, Resized
<1>5. ASSUME NEW own2, Layout(x, own2, D)
      PROVE  r.s \in GrowSteps(x, own2, D, d, first, k)
    BY <1>1, <1>5, Resized
<1> HIDE DEF first, k
<1>6. r.s \in States
    BY <1>5 DEF GrowSteps
<1>7. ASSUME r.s.ok, NEW own2, Layout(x, own2, D)
      PROVE  \E own3 : Layout(r.s, own3, D) /\ Grows(x, own2, r.s, own3, d)
  <2>1. GrowPart(x, own2, D, d, first, k, r.s)
      BY <1>5, <1>7 DEF GrowSteps
  <2>2. PICK own3 : Layout(r.s, own3, D) /\ Builds(x, own2, r.s, own3, d, {})
      BY <2>1 DEF GrowPart
  <2>3. QED
      BY <2>2, GrowsOn
<1>8. ASSUME r.s.ok PROVE SamePtes(x, r.s, D, d) /\ Below(r.s, d, new)
  <2>1. GrowPart(x, own1, D, d, first, k, r.s)
      BY <1>5, <1>8 DEF GrowSteps
  <2>2. \A c \in D, v \in VPs : c # d \/ v \notin first .. first + k - 1 =>
           Pte(r.s, c, v) = Pte(x, c, v)
      BY <2>1 DEF GrowPart
  <2>3. \A v \in VPs : v \notin UserVPs => v \notin first .. first + k - 1
      BY <1>2, <1>3 DEF UserVPs, VPs
  <2>4. SamePtes(x, r.s, D, d)
      BY <2>2, <2>3 DEF SamePtes
  <2>5. ASSUME NEW v \in UserVPs, Present(Pte(r.s, d, v)) PROVE v < Ceil(new)
    <3>1. CASE v \in first .. first + k - 1
        BY <1>2, <3>1
    <3>2. CASE v \notin first .. first + k - 1
      <4>1. v \in VPs
          BY Places
      <4>2. Present(Pte(x, d, v))
          BY <2>2, <2>5, <3>2, <4>1
      <4>3. v < first
          BY <4>2 DEF Below, first
      <4>4. QED
          BY <1>2, <4>3 DEF UserVPs
    <3>3. QED
        BY <3>1, <3>2
  <2>6. QED
      BY <2>4, <2>5 DEF Below
<1>9. QED
    BY <1>4, <1>6, <1>7, <1>8 DEF Goes

(* vm_prog_load is such a step.                                             *)
LEMMA FillGoes ==
    ASSUME NEW x \in States, x.ok, NEW D, NEW d \in D, NEW own1, Layout(x, own1, D),
           NEW ph \in Headers, NEW size \in Nat, ph.vaddr + ph.filesz <= size,
           size < KernelBase, NEW word \in Int, NEW y, y = ProgLoad(x, d, ph, word),
           Below(x, d, size)
    PROVE  y \in States /\ y.ok /\ Goes(x, y, D, d) /\ SamePtes(x, y, D, d) /\ Below(y, d, size)
<1>1. \A own2 : Layout(x, own2, D) => y \in States /\ FillPart(x, own2, D, d, Ceil(ph.filesz), y)
    BY ProgLoaded
<1>2. y \in States /\ y.ok /\ \A c \in D, v \in VPs : Pte(y, c, v) = Pte(x, c, v)
    BY <1>1 DEF FillPart
<1>3. ASSUME NEW own2, Layout(x, own2, D) PROVE Layout(y, own2, D) /\ Grows(x, own2, y, own2, d)
  <2>1. /\ Layout(y, own2, D)
        /\ \A q \in Pages : ~(own2[q][1] = d /\ own2[q][2] = "page") => y.mem[q] = x.mem[q]
      BY <1>1, <1>3 DEF FillPart
  <2>2. QED
      BY <2>1 DEF Grows, Kinds
<1>4. Below(y, d, size)
    BY <1>2, Places DEF Below
<1>5. QED
    BY <1>2, <1>3, <1>4 DEF Goes, SamePtes

(* After some program headers of do_exec.                                   *)
SegBox == [s : States, sz : 0 .. KernelBase - 1, bad : BOOLEAN]
SegPart(s, own, D, d, t) ==
    /\ Held(s, own, D, d, t.s)
    /\ t.bad \/ Below(t.s, d, t.sz)
SegSteps(s, own, D, d) == {t \in SegBox : t.s.ok => SegPart(s, own, D, d, t)}

(* A segment that has been given pages is read from the file.               *)
LEMMA SegmentFilled ==
    ASSUME NEW s, NEW own, NEW D, NEW d \in D, NEW x \in States, NEW size \in 0 .. KernelBase - 1,
           x.ok => Held(s, own, D, d, x) /\ (size = 0 \/ Below(x, d, size)),
           NEW ph \in Headers, size = 0 \/ ph.vaddr + ph.filesz <= size,
           NEW word \in Int, NEW big, big.s = x, big.sz = size,
           NEW t, t = FilledSegment(big, ph, d, word)
    PROVE  t \in SegSteps(s, own, D, d)
<1>0. 0 \in 0 .. KernelBase - 1 /\ size \in Nat /\ size < KernelBase
    BY MemSizes DEF KernelBase
<1>1. CASE size = 0 \/ ~x.ok
  <2>1. t = [s |-> x, sz |-> 0, bad |-> TRUE]
      BY <1>1 DEF FilledSegment
  <2>2. t \in SegBox /\ t.s = x /\ t.bad
      BY <1>0, <2>1 DEF SegBox
  <2>3. x.ok => SegPart(s, own, D, d, t)
      BY <2>2 DEF SegPart
  <2>4. QED
      BY <2>2, <2>3 DEF SegSteps
<1>2. CASE size # 0 /\ x.ok
  <2> DEFINE y == ProgLoad(x, d, ph, word)
  <2>1. t = [s |-> y, sz |-> size, bad |-> ~ph.whole]
      BY <1>2 DEF FilledSegment
  <2>2. PICK own1 : Layout(x, own1, D)
      BY <1>2 DEF Held
  <2>3. y \in States /\ y.ok /\ Goes(x, y, D, d) /\ SamePtes(x, y, D, d) /\ Below(y, d, size)
      BY <1>0, <1>2, <2>2, FillGoes
  <2>4. Held(s, own, D, d, y)
      BY <1>2, <2>3, HeldOn
  <2> HIDE DEF y
  <2>5. t \in SegBox /\ t.s = y /\ t.sz = size
      BY <2>1, <2>3 DEF SegBox
  <2>6. SegPart(s, own, D, d, t)
      BY <2>3, <2>4, <2>5 DEF SegPart
  <2>7. QED
      BY <2>5, <2>6 DEF SegSteps
<1>3. QED
    BY <1>1, <1>2

(* One program header of do_exec.                                           *)
LEMMA SegmentLoaded ==
    ASSUME NEW s, NEW own, NEW D, NEW d \in D, NEW x \in SegSteps(s, own, D, d),
           NEW ph \in Headers, NEW word \in Int, NEW t, t = LoadSegment(x, ph, d, word)
    PROVE  t \in SegSteps(s, own, D, d)
<1> DEFINE end == (ph.vaddr + ph.memsz) % AddrMod
<1>0. /\ x \in SegBox /\ (x.s.ok => SegPart(s, own, D, d, x))
      /\ x.s \in States /\ x.sz \in 0 .. KernelBase - 1 /\ x.bad \in BOOLEAN
    BY DEF SegSteps, SegBox
<1>1. /\ ph.vaddr \in Nat /\ ph.filesz \in Nat /\ ph.memsz \in Nat
      /\ ph.vaddr < AddrMod /\ ph.memsz < AddrMod /\ AddrMod \in Nat \ {0}
  <2>1. AddrMod \in Nat \ {0}
      BY MemSizes DEF AddrMod
  <2>2. QED
      BY <2>1 DEF Headers
<1>2. end \in Nat /\ (end >= ph.vaddr => end = ph.vaddr + ph.memsz)
  <2> DEFINE sum == ph.vaddr + ph.memsz
  <2>1. sum \in Nat /\ sum < AddrMod + AddrMod
      BY <1>1
  <2>2. CASE sum < AddrMod
    <3>1. sum % AddrMod = sum
        BY <1>1, <2>1, <2>2
    <3>2. QED
        BY <2>1, <3>1
  <2>3. CASE sum >= AddrMod
    <3> DEFINE rest == sum - AddrMod
    <3>1. rest \in 0 .. AddrMod - 1 /\ sum = AddrMod * 1 + rest
        BY <1>1, <2>1, <2>3
    <3>2. sum % AddrMod = rest
        BY <1>1, <2>1, <3>1
    <3>3. rest < ph.vaddr
        BY <1>1
    <3>4. QED
        BY <1>1, <3>1, <3>2, <3>3
  <2>4. QED
      BY <1>1, <2>1, <2>2, <2>3
<1> HIDE DEF end
<1>3. CASE x.bad \/ ~ph.load \/ ~x.s.ok
  <2>1. t = x
      BY Zenon, <1>3 DEF LoadSegment
  <2>2. QED
      BY <2>1
<1>4. CASE ~(x.bad \/ ~ph.load \/ ~x.s.ok) /\ (ph.memsz < ph.filesz \/ end < ph.vaddr)
  <2>1. t = [x EXCEPT !.bad = TRUE]
      BY Zenon, <1>4 DEF LoadSegment, end
  <2>2. t \in SegBox /\ t.s = x.s /\ t.bad
      BY <1>0, <2>1 DEF SegBox
  <2>3. SegPart(s, own, D, d, t)
      BY <1>0, <1>4, <2>2 DEF SegPart
  <2>4. QED
      BY <2>2, <2>3 DEF SegSteps
<1>5. CASE ~(x.bad \/ ~ph.load \/ ~x.s.ok) /\ ~(ph.memsz < ph.filesz \/ end < ph.vaddr)
  <2>0. x.s.ok /\ SegPart(s, own, D, d, x) /\ Held(s, own, D, d, x.s) /\ Below(x.s, d, x.sz)
      BY <1>0, <1>5 DEF SegPart
  <2>1. ph.vaddr + ph.filesz <= end
      BY <1>1, <1>2, <1>5
  <2>2. CASE end > x.sz
    <3>1. PICK big : big = ResizeInc(x.s, d, x.sz, end)
        OBVIOUS
    <3>2. t = FilledSegment(big, ph, d, word)
        BY Zenon, <1>5, <2>2, <3>1 DEF LoadSegment, end
    <3>3. /\ big.s \in States /\ big.sz \in 0 .. KernelBase - 1
          /\ big.sz = 0 \/ ph.vaddr + ph.filesz <= big.sz
          /\ big.s.ok => Held(s, own, D, d, big.s) /\ (big.sz = 0 \/ Below(big.s, d, big.sz))
      <4>1. PICK own1 : Layout(x.s, own1, D)
          BY <2>0 DEF Held
      <4>2. CASE end >= KernelBase
        <5>1. big = [s |-> x.s, sz |-> 0]
            BY <3>1, <4>2 DEF ResizeInc
        <5>2. 0 \in 0 .. KernelBase - 1
            BY MemSizes DEF KernelBase
        <5>3. big.s = x.s /\ big.sz = 0
            BY <5>1
        <5>4. QED
            BY <1>0, <2>0, <5>2, <5>3
      <4>3. CASE ~(end >= KernelBase)
        <5>1. end < KernelBase /\ x.sz \in Nat /\ x.sz <= end
            BY <1>0, <1>2, <2>2, <4>3, MemSizes DEF KernelBase
        <5>2. /\ big.sz = end /\ big.s \in States
              /\ big.s.ok => Goes(x.s, big.s, D, d) /\ SamePtes(x.s, big.s, D, d)
                               /\ Below(big.s, d, end)
            BY <1>0, <1>2, <2>0, <3>1, <4>1, <5>1, GrowGoes
        <5>3. big.s.ok => Held(s, own, D, d, big.s)
            BY <2>0, <5>2, HeldOn
        <5>4. end \in 0 .. KernelBase - 1
            BY <1>2, <5>1, MemSizes DEF KernelBase
        <5>5. QED
            BY <2>1, <5>2, <5>3, <5>4
      <4>4. QED
          BY <4>2, <4>3
    <3>4. QED
        BY <3>2, <3>3, SegmentFilled
  <2>3. CASE ~(end > x.sz)
    <3>1. PICK big : big = [s |-> x.s, sz |-> x.sz]
        OBVIOUS
    <3>2. t = FilledSegment(big, ph, d, word)
        BY Zenon, <1>5, <2>3, <3>1 DEF LoadSegment, end
    <3>3. big.s = x.s /\ big.sz = x.sz
        BY <3>1
    <3>4. ph.vaddr + ph.filesz <= x.sz
        BY <1>0, <1>1, <1>2, <2>1, <2>3
    <3>5. QED
        BY <1>0, <2>0, <3>2, <3>3, <3>4, SegmentFilled
  <2>4. QED
      BY <2>2, <2>3
<1>6. QED
    BY <1>3, <1>4, <1>5

(* All program headers of do_exec.                                          *)
LEMMA SegmentsLoaded ==
    ASSUME NEW s, NEW own, NEW D, NEW d \in D, NEW y \in States,
           y.ok => Held(s, own, D, d, y) /\ Below(y, d, 0),
           NEW prog \in Programs
    PROVE  Segments(y, d, prog) \in SegSteps(s, own, D, d)
<1> DEFINE n == Len(prog.phs)
<1> DEFINE a == [s |-> y, sz |-> 0, bad |-> FALSE]
<1>0. prog.phs \in Seq(Headers) /\ prog.word \in Int
    BY FilesAssumption DEF Files
<1>01. n \in Nat
    BY <1>0
<1> HIDE DEF n, a
<1> DEFINE T == [k \in 0 .. n |-> SegSteps(s, own, D, d)]
<1> DEFINE Do(x, k) == LoadSegment(x, prog.phs[k + 1], d, prog.word)
<1> DEFINE h == [k \in 0 .. n - 1 |-> [x \in T[k] |-> Do(x, k)]]
<1> DEFINE g == CHOOSE at : at = [k \in 0 .. n |-> IF k = 0 THEN a ELSE Do(at[k - 1], k - 1)]
<1>1. n \in Nat /\ 0 \in 0 .. n /\ n \in 0 .. n
    BY <1>01
<1>2. a \in T[0]
  <2>1. a \in SegBox /\ a.s = y /\ a.sz = 0
    <3>1. 0 \in 0 .. KernelBase - 1
        BY MemSizes DEF KernelBase
    <3>2. QED
        BY <3>1 DEF SegBox, a
  <2>2. y.ok => SegPart(s, own, D, d, a)
      BY <2>1 DEF SegPart
  <2>3. a \in SegSteps(s, own, D, d)
      BY <2>1, <2>2 DEF SegSteps
  <2>4. QED
      BY <1>1, <2>3
<1>3. Segments(y, d, prog) = g[n]
    BY Zenon DEF Segments, Iterate, n, a
<1>4. ASSUME NEW k \in 0 .. n - 1, NEW x \in T[k] PROVE Do(x, k) \in T[k + 1]
  <2>1. x \in SegSteps(s, own, D, d) /\ k + 1 \in 0 .. n
      BY <1>1
  <2>2. Do(x, k) \in SegSteps(s, own, D, d)
    <3> DEFINE ph == prog.phs[k + 1]
    <3>1. ph \in Headers /\ prog.word \in Int
      <4>1. k + 1 \in 1 .. n
          BY <1>1
      <4>2. QED
          BY <1>0, <4>1 DEF n
    <3> HIDE DEF ph
    <3>2. QED
        BY <2>1, <3>1, SegmentLoaded DEF ph
  <2> HIDE DEF Do
  <2>3. QED
      BY <2>1, <2>2
<1>5. T[n] = SegSteps(s, own, D, d) /\ \A k \in 0 .. n : T[k] \subseteq SegBox
    BY <1>1 DEF SegSteps
<1> HIDE DEF T, Do, g
<1>6. \A k \in 0 .. n - 1 : \A x \in T[k] : h[k][x] = Do(x, k)
    OBVIOUS
<1> HIDE DEF h
<1>7. PICK f \in [0 .. n -> SegBox] :
         f[0] = a /\ \A k \in 0 .. n - 1 : f[k] \in T[k] /\ f[k + 1] = h[k][f[k]]
  <2>1. \A k \in 0 .. n - 1 : \A x \in T[k] : h[k][x] \in T[k + 1]
      BY <1>4, <1>6
  <2>2. Leads(n, SegBox, T, h, a)
      BY <1>1, <1>2, <1>5, <2>1 DEF Leads
  <2>3. PICK f : Taken(f, n, SegBox, T, h, a)
      BY <2>2, LoopRuns
  <2>4. QED
      BY <2>3 DEF Taken
<1>8. f = [k \in 0 .. n |-> IF k = 0 THEN a ELSE Do(f[k - 1], k - 1)]
  <2>1. ASSUME NEW k \in 0 .. n PROVE f[k] = IF k = 0 THEN a ELSE Do(f[k - 1], k - 1)
    <3>1. k # 0 => k - 1 \in 0 .. n - 1 /\ k - 1 + 1 = k
        BY <1>1
    <3>2. QED
        BY <1>6, <1>7, <3>1
  <2>2. f = [k \in 0 .. n |-> f[k]]
      OBVIOUS
  <2>3. QED
      BY <2>1, <2>2
<1>9. g = [k \in 0 .. n |-> IF k = 0 THEN a ELSE Do(g[k - 1], k - 1)]
    BY <1>8 DEF g
<1>10. g[0] = a /\ \A k \in 0 .. n - 1 : g[k + 1] = Do(g[k], k)
  <2>1. \A k \in 0 .. n : g[k] = IF k = 0 THEN a ELSE Do(g[k - 1], k - 1)
      BY <1>9
  <2>2. ASSUME NEW k \in 0 .. n - 1 PROVE g[k + 1] = Do(g[k], k)
    <3>1. k + 1 \in 0 .. n /\ k + 1 # 0 /\ k + 1 - 1 = k
        BY <1>1
    <3>2. QED
        BY <2>1, <3>1
  <2>3. QED
      BY <1>1, <2>1, <2>2
<1>11. g[n] \in T[n]
    BY <1>1, <1>2, <1>4, <1>10, LoopEnds
<1>12. QED
    BY <1>3, <1>5, <1>11
-----------------------------------------------------------------------------
(* The stack above the segments                                             *)

(* A page in hand is mapped, which fails above the user's pages.            *)
LEMMA HandMapped ==
    ASSUME NEW s \in States, NEW own, NEW D, s.ok => Layout(s, own, D), NEW d \in D,
           d \in Pages, NEW vp \in VPs, s.ok => KernelIn(s, d), NEW pg \in Pages,
           s.ok => own[pg] = InHand, NEW user \in BOOLEAN, NEW t, t = Map(s, d, vp, pg, user)
    PROVE  t \in States /\ (t.ok => vp \in UserVPs /\ UserMap(s, own, D, d, vp, pg, user, t))
<1>1. CASE vp \in UserVPs
    BY <1>1, UserMapped
<1>2. CASE vp \notin UserVPs
  <2>1. pg \in Nat \ {0}
      BY DEF Pages
  <2>2. t \in States /\ (t.ok => s.ok /\ ~Present(Pte(s, d, vp)))
      BY <2>1, EntryMade
  <2>3. ASSUME s.ok PROVE Present(Pte(s, d, vp))
    <3> DEFINE i == vp - KernelPage
    <3>0. KernelPage \in Nat /\ vp \in Int /\ W \in Nat /\ W * W = KernelPage + W
        BY MemSizes DEF KernelPage, VPs
    <3>1. i \in 0 .. W - 1 /\ vp = KernelPage + i
        BY <1>2, <3>0 DEF UserVPs, VPs
    <3> HIDE DEF i
    <3>2. Pte(s, d, vp) = Entry(i + 1, FALSE)
        BY <2>3, <3>1 DEF KernelIn
    <3> DEFINE n == i + 1
    <3> DEFINE no == FALSE
    <3>3. n \in Nat /\ n # 0 /\ no \in BOOLEAN
        BY <3>1
    <3>4. Pte(s, d, vp) = Entry(n, no)
        BY <3>2
    <3> HIDE DEF n, no
    <3>5. QED
        BY <3>3, <3>4, Entries
  <2>4. QED
      BY <2>2, <2>3
<1>3. QED
    BY <1>1, <1>2

Stacked(x, own, D, d, top, y) ==
    /\ top \in Nat /\ top + 1 \in UserVPs
    /\ \E own2 : Layout(y, own2, D) /\ Grows(x, own, y, own2, d)
    /\ \A c \in D, v \in VPs : ~(c = d /\ v \in {top, top + 1}) => Pte(y, c, v) = Pte(x, c, v)

(* The guard page and the stack are two more pages of the image.            *)
LEMMA StackAdded ==
    ASSUME NEW x \in States, x.ok, NEW own, NEW D, Layout(x, own, D), NEW d \in D,
           KernelIn(x, d), NEW top \in Nat, top <= KernelPage, NEW args,
           NEW guard, guard = Alloc(x), NEW y, y = AddGuard(d, top, guard, args)
    PROVE  y \in States /\ (y.ok => Stacked(x, own, D, d, top, y))
<1> DEFINE up == top + 1
<1> DEFINE no == FALSE
<1> DEFINE yes == TRUE
<1>0. /\ up \in VPs /\ top \in VPs /\ up # top /\ d \in Pages /\ no \in BOOLEAN /\ yes \in BOOLEAN
      /\ \A i \in 0 .. W - 1 : KernelPage + i \in VPs
  <2>1. KernelPage \in Nat /\ W \in Nat /\ W >= 2 /\ W * W = KernelPage + W
      BY MemSizes DEF KernelPage
  <2>2. QED
      BY <2>1 DEF VPs, Layout, DirsOwned
<1>1. PICK stack : stack = Alloc(guard.s)
    OBVIOUS
<1> HIDE DEF up, no, yes
<1>2. PICK t : t = Map(stack.s, d, top, guard.pg, no)
    OBVIOUS
<1>3. PICK u : u = Map(t, d, up, stack.pg, yes)
    OBVIOUS
<1>4. y = PushArgs(u, stack.pg, args)
    BY <1>1, <1>2, <1>3 DEF AddGuard, AddStack, up, no, yes
<1> DEFINE own1 == Give(own, guard.pg, InHand)
<1>5. /\ guard.pg \in Pages /\ guard.s \in States
      /\ guard.s.ok => /\ own[guard.pg] = Spare /\ Layout(guard.s, own1, D)
                       /\ \A c \in D : Alike(x, guard.s, c)
                       /\ \A q \in Pages : q # guard.pg => guard.s.mem[q] = x.mem[q]
    BY PageTaken
<1>6. own \in [Pages -> Role] /\ InHand \in Role /\ InHand # Spare /\ InHand[2] = "hand"
    BY Apartness DEF Layout
<1>7. /\ own1 \in [Pages -> Role] /\ own1[guard.pg] = InHand
      /\ \A q \in Pages : q # guard.pg => own1[q] = own[q]
    BY <1>5, <1>6, Given
<1> HIDE DEF own1
<1> DEFINE own2 == Give(own1, stack.pg, InHand)
<1>8. /\ stack.pg \in Pages /\ stack.s \in States
      /\ stack.s.ok => /\ guard.s.ok /\ own1[stack.pg] = Spare /\ Layout(stack.s, own2, D)
                       /\ \A c \in D : Alike(guard.s, stack.s, c)
                       /\ \A q \in Pages : q # stack.pg => stack.s.mem[q] = guard.s.mem[q]
    BY <1>1, <1>5, PageTaken
<1>9. /\ own2 \in [Pages -> Role] /\ own2[stack.pg] = InHand
      /\ \A q \in Pages : q # stack.pg => own2[q] = own1[q]
  <2>1. stack.pg \in Pages /\ InHand \in Role /\ own1 \in [Pages -> Role]
      BY <1>6, <1>7, <1>8
  <2>2. QED
      BY <2>1, Given
<1> HIDE DEF own2
<1>10. ASSUME stack.s.ok
       PROVE  /\ Layout(stack.s, own2, D)
              /\ \A c \in D, v \in VPs : Pte(stack.s, c, v) = Pte(x, c, v)
              /\ own2[guard.pg] = InHand /\ guard.pg # stack.pg
              /\ own[guard.pg] = Spare /\ own[stack.pg] = Spare
              /\ \A q \in Pages : q # guard.pg /\ q # stack.pg =>
                    own2[q] = own[q] /\ stack.s.mem[q] = x.mem[q]
    BY <1>5, <1>6, <1>7, <1>8, <1>9, <1>10 DEF Alike
<1>11. stack.s.ok => KernelIn(stack.s, d)
    BY <1>0, <1>10 DEF KernelIn
<1>12. t \in States /\ (t.ok => top \in UserVPs /\ UserMap(stack.s, own2, D, d, top, guard.pg, no, t))
  <2>1. PICK z, pg : z = stack.s /\ pg = guard.pg
      OBVIOUS
  <2>2. /\ z \in States /\ pg \in Pages /\ (z.ok => Layout(z, own2, D)) /\ (z.ok => KernelIn(z, d))
        /\ z.ok => own2[pg] = InHand
      BY <1>5, <1>8, <1>10, <1>11, <2>1
  <2>3. t = Map(z, d, top, pg, no)
      BY <1>2, <2>1
  <2>4. t \in States /\ (t.ok => top \in UserVPs /\ UserMap(z, own2, D, d, top, pg, no, t))
      BY <1>0, <2>2, <2>3, HandMapped
  <2>5. QED
      BY <2>1, <2>4
<1>13. PICK own3 : t.ok =>
          /\ stack.s.ok /\ top \in UserVPs /\ Layout(t, own3, D)
          /\ own3[guard.pg] = <<d, "page", top>> /\ BuildsBut(stack.s, own2, t, own3, d, guard.pg)
          /\ \A c \in D, v \in VPs : Pte(t, c, v) =
                IF c = d /\ v = top THEN Entry(guard.pg, no) ELSE Pte(stack.s, c, v)
    BY <1>12 DEF UserMap
<1>14. ASSUME t.ok PROVE KernelIn(t, d)
  <2>1. ASSUME NEW i \in 0 .. W - 1 PROVE Pte(t, d, KernelPage + i) = Entry(i + 1, FALSE)
    <3> DEFINE v == KernelPage + i
    <3>1. v \in VPs /\ v # top /\ Pte(stack.s, d, v) = Entry(i + 1, FALSE)
      <4>1. KernelPage \in Nat /\ top \in 0 .. KernelPage - 1 /\ i \in Nat
          BY <1>13, <1>14, MemSizes DEF KernelPage, UserVPs
      <4>2. v \in VPs /\ v # top
          BY <1>0, <4>1
      <4>3. QED
          BY <1>11, <1>13, <1>14, <4>2 DEF KernelIn
    <3> HIDE DEF v
    <3>2. Pte(t, d, v) = Pte(stack.s, d, v)
        BY <1>13, <1>14, <3>1
    <3>3. QED
        BY <3>1, <3>2 DEF v
  <2>2. QED
      BY <2>1 DEF KernelIn
<1>15. t.ok => own3[stack.pg] = InHand
  <2>1. t.ok => Builds(stack.s, own2, t, own3, d, {guard.pg})
      BY <1>13 DEF BuildsBut
  <2>2. QED
      BY <1>6, <1>8, <1>9, <1>10, <1>13, <2>1 DEF Builds
<1>16. u \in States /\ (u.ok => up \in UserVPs /\ UserMap(t, own3, D, d, up, stack.pg, yes, u))
  <2>1. PICK pg : pg = stack.pg
      OBVIOUS
  <2>2. /\ t \in States /\ pg \in Pages /\ (t.ok => Layout(t, own3, D)) /\ (t.ok => KernelIn(t, d))
        /\ t.ok => own3[pg] = InHand
      BY <1>8, <1>12, <1>13, <1>14, <1>15, <2>1
  <2>3. u = Map(t, d, up, pg, yes)
      BY <1>3, <2>1
  <2>4. u \in States /\ (u.ok => up \in UserVPs /\ UserMap(t, own3, D, d, up, pg, yes, u))
      BY <1>0, <2>2, <2>3, HandMapped
  <2>5. QED
      BY <2>1, <2>4
<1>17. PICK own4 : u.ok =>
          /\ t.ok /\ up \in UserVPs /\ Layout(u, own4, D)
          /\ own4[stack.pg] = <<d, "page", up>> /\ BuildsBut(t, own3, u, own4, d, stack.pg)
          /\ \A c \in D, v \in VPs : Pte(u, c, v) =
                IF c = d /\ v = up THEN Entry(stack.pg, yes) ELSE Pte(t, c, v)
    BY <1>16 DEF UserMap
<1>18. Wrote(u, y, stack.pg)
  <2> DEFINE words == [j \in 0 .. W - 1 |-> IF j >= W - args THEN -3 ELSE u.mem[stack.pg][j]]
  <2>1. words \in Words
    <3>1. u.mem[stack.pg] \in Words
        BY <1>8, <1>16 DEF States
    <3>2. ASSUME NEW j \in 0 .. W - 1
          PROVE  (IF j >= W - args THEN -3 ELSE u.mem[stack.pg][j]) \in Int
      <4>1. u.mem[stack.pg][j] \in Int
          BY <3>1, MemSizes DEF Words
      <4>2. CASE j >= W - args
          BY <4>2
      <4>3. CASE ~(j >= W - args)
          BY <4>1, <4>3
      <4>4. QED
          BY <4>2, <4>3
    <3>3. QED
        BY <3>2 DEF Words
  <2>2. y = PutPage(u, stack.pg, words)
      BY <1>4, <1>8, <1>16 DEF PushArgs, PutPage, States, Words
  <2> HIDE DEF words
  <2>3. QED
      BY <1>16, <2>1, <2>2, WritePage
<1>19. y \in States /\ (y.ok <=> u.ok)
    BY <1>18 DEF Wrote
<1>20. ASSUME y.ok PROVE Stacked(x, own, D, d, top, y)
  <2>0. u.ok /\ t.ok /\ stack.s.ok
      BY <1>13, <1>17, <1>19, <1>20
  <2>1. own4[stack.pg][2] = "page"
      BY <1>17, <2>0
  <2>2. Layout(y, own4, D) /\ \A c \in D, v \in VPs : Pte(y, c, v) = Pte(u, c, v)
      BY <1>16, <1>17, <1>18, <2>0, <2>1, Written
  <2>3. \A c \in D, v \in VPs : ~(c = d /\ v \in {top, up}) => Pte(y, c, v) = Pte(x, c, v)
      BY <1>10, <1>13, <1>17, <2>0, <2>2
  <2>4. Grows(x, own, y, own4, d)
    <3>1. /\ Builds(stack.s, own2, t, own3, d, {guard.pg}) /\ Builds(t, own3, u, own4, d, {stack.pg})
          /\ \A q \in Pages : q # stack.pg => y.mem[q] = u.mem[q]
        BY <1>13, <1>17, <1>18, <2>0 DEF BuildsBut, Wrote
    <3>2. \A pg : <<d, "page", pg>>[1] = d /\ <<d, "page", pg>>[2] = "page" /\ Spare[2] = "free"
        BY DEF Spare
    <3>3. own3[guard.pg][1] = d /\ own3[guard.pg][2] = "page" /\ own3[guard.pg] # Spare
        BY <1>13, <2>0, <3>2
    <3>4. own4[guard.pg] = own3[guard.pg] /\ own4[stack.pg][1] = d /\ own4[stack.pg][2] = "page"
        BY <1>5, <1>10, <1>17, <2>0, <3>1, <3>2, <3>3 DEF Builds
    <3>5. ASSUME NEW q \in Pages, q # guard.pg, q # stack.pg
          PROVE  /\ own[q] # Spare => own4[q] = own[q]
                 /\ own[q] = Spare => own4[q] = Spare \/ (own4[q][1] = d /\ own4[q][2] \in Kinds)
                 /\ own[q] # Spare /\ ~(own[q][1] = d /\ own[q][2] \in Kinds) => y.mem[q] = x.mem[q]
      <4>1. own2[q] = own[q] /\ stack.s.mem[q] = x.mem[q] /\ y.mem[q] = u.mem[q]
          BY <1>10, <2>0, <3>1, <3>5
      <4>2. q \in Pages \ {guard.pg} /\ q \in Pages \ {stack.pg}
          BY <3>5
      <4>3. /\ own2[q] # Spare => own3[q] = own2[q]
            /\ own2[q] = Spare => own3[q] = Spare \/ (own3[q][1] = d /\ own3[q][2] \in {"table", "page"})
            /\ own2[q] # Spare /\ ~(own2[q][1] = d /\ own2[q][2] \in {"dir", "table"})
                  => t.mem[q] = stack.s.mem[q]
          BY <3>1, <4>2 DEF Builds
      <4>4. /\ own3[q] # Spare => own4[q] = own3[q]
            /\ own3[q] = Spare => own4[q] = Spare \/ (own4[q][1] = d /\ own4[q][2] \in {"table", "page"})
            /\ own3[q] # Spare /\ ~(own3[q][1] = d /\ own3[q][2] \in {"dir", "table"})
                  => u.mem[q] = t.mem[q]
          BY <3>1, <4>2 DEF Builds
      <4>5. QED
          BY <4>1, <4>3, <4>4 DEF Kinds
    <3>6. QED
        BY <1>10, <2>0, <3>3, <3>4, <3>5 DEF Grows, Kinds
  <2>5. QED
      BY <1>17, <2>0, <2>2, <2>3, <2>4 DEF Stacked, up
<1>21. QED
    BY <1>19, <1>20
-----------------------------------------------------------------------------

(* The directory a new image starts from.                                   *)
LEMMA ImageBegun ==
    ASSUME NEW s \in States, NEW own, NEW D, s.ok => Layout(s, own, D), NEW r, r = NewDir(s)
    PROVE  /\ r.pg \in Pages /\ r.s \in States
           /\ r.s.ok => /\ r.pg \notin D /\ Held(s, own, D \cup {r.pg}, r.pg, r.s)
                        /\ Below(r.s, r.pg, 0) /\ \A v \in UserVPs : Pte(r.s, r.pg, v) = 0
<1>1. r.pg \in Pages /\ r.s \in States /\ (r.s.ok => DirNew(s, own, D, r.pg, r.s))
    BY DirMade
<1>2. /\ r.s.ok => /\ s.ok /\ r.pg \notin D
                   /\ \E own2 : /\ Layout(r.s, own2, D \cup {r.pg})
                                /\ Grows(s, own, r.s, own2, r.pg)
                   /\ KernelIn(r.s, r.pg)
                   /\ \A v \in UserVPs : Pte(r.s, r.pg, v) = 0
                   /\ \A c \in D, v \in VPs : Pte(r.s, c, v) = Pte(s, c, v)
    BY <1>1 DEF DirNew
<1>3. r.s.ok => Held(s, own, D \cup {r.pg}, r.pg, r.s)
    BY <1>2 DEF Held
<1>4. r.s.ok => Below(r.s, r.pg, 0)
    BY <1>2, Entries DEF Below
<1>5. QED
    BY <1>1, <1>2, <1>3, <1>4

(* An image given up leaves everything as it was.                           *)
Undone(s, own, D, t) ==
    /\ t.ok /\ Layout(t, own, D)
    /\ \A c \in D, v \in VPs : Pte(t, c, v) = Pte(s, c, v)
    /\ \A q \in Pages : own[q] # Spare => t.mem[q] = s.mem[q]

(* vm_free_pg_dir of an image that failed undoes it.                        *)
LEMMA GivenUp ==
    ASSUME NEW s \in States, NEW own, NEW D, Layout(s, own, D), NEW d \in Pages \ D,
           NEW x \in States, x.ok, Held(s, own, D \cup {d}, d, x), NEW t, t = FreeDir(x, d)
    PROVE  t \in States /\ Undone(s, own, D, t)
<1>1. PICK own1 : Layout(x, own1, D \cup {d}) /\ Grows(s, own, x, own1, d)
    BY DEF Held
<1> DEFINE D2 == D \cup {d}
<1>2. d \in D2 /\ D2 \ {d} = D /\ D \subseteq D2 /\ d # 0 /\ \A c \in D : c # d
    BY DEF Pages
<1>3. Layout(x, own1, D2) /\ Held(s, own, D2, d, x)
    BY <1>1
<1> HIDE DEF D2
<1>4. t \in States /\ DirLeft(x, own1, D2, d, t)
    BY <1>2, <1>3, DirFreed
<1>5. /\ t.ok /\ Layout(t, Left(own1, d), D)
      /\ \A c \in D2, v \in VPs : c # d => Pte(t, c, v) = Pte(x, c, v)
      /\ \A q \in Pages : ~(own1[q][1] = d /\ own1[q][2] \in Kinds) => t.mem[q] = x.mem[q]
    BY <1>2, <1>4 DEF DirLeft
<1>6. \A q \in Pages : ~(own[q][1] = d /\ own[q][2] \in Kinds)
    BY DEF Layout, DirsOwned, TablesOwned, PagesOwned, Kinds
<1>7. Left(own1, d) = own
  <2>1. /\ Left(own1, d) \in [Pages -> Role]
        /\ \A q \in Pages : Left(own1, d)[q] =
              IF own1[q][1] = d /\ own1[q][2] \in Kinds THEN Spare ELSE own1[q]
      BY <1>3, LeavingIs
  <2>2. own \in [Pages -> Role]
      BY DEF Layout
  <2>3. \A q \in Pages : Left(own1, d)[q] = own[q]
      BY <1>1, <1>6, <2>1 DEF Grows
  <2>4. QED
      BY <2>1, <2>2, <2>3
<1>8. \A c \in D, v \in VPs : Pte(t, c, v) = Pte(s, c, v)
    BY <1>2, <1>3, <1>5 DEF Held
<1>9. \A q \in Pages : own[q] # Spare => t.mem[q] = s.mem[q]
    BY <1>1, <1>5, <1>6 DEF Grows
<1>10. QED
    BY <1>4, <1>5, <1>7, <1>8, <1>9 DEF Undone

(* What do_exec makes of a file.                                            *)
Loaded(s, own, D, r) ==
    \/ r.dir = 0 /\ Undone(s, own, D, r.s)
    \/ /\ r.dir \in Pages \ D /\ Held(s, own, D \cup {r.dir}, r.dir, r.s)
       /\ Below(r.s, r.dir, r.sz) /\ r.sz \in W .. KernelBase

(* The end of do_exec, for an image that failed and one that did not.       *)
LEMMA ImageFinished ==
    ASSUME NEW s \in States, NEW own, NEW D, Layout(s, own, D), NEW d \in Pages,
           NEW segs \in SegSteps(s, own, D \cup {d}, d), segs.s.ok => d \notin D,
           NEW args, NEW r, r = Finish(segs, d, args)
    PROVE  r.s \in States /\ (r.s.ok => Loaded(s, own, D, r))
<1> DEFINE x == segs.s
<1> DEFINE D2 == D \cup {d}
<1>0. d \in D2
    OBVIOUS
<1>1. /\ x \in States /\ segs.sz \in 0 .. KernelBase - 1 /\ segs.bad \in BOOLEAN
      /\ x.ok => Held(s, own, D2, d, x) /\ (segs.bad \/ Below(x, d, segs.sz))
    BY DEF SegSteps, SegPart, SegBox
<1>2. CASE ~x.ok
  <2>1. r = [s |-> x, dir |-> 0, sz |-> 0]
      BY <1>2 DEF Finish
  <2>2. QED
      BY <1>1, <1>2, <2>1
<1>3. CASE x.ok /\ segs.bad
  <2>1. PICK t : t = FreeDir(x, d)
      OBVIOUS
  <2>2. r = [s |-> t, dir |-> 0, sz |-> 0]
      BY <1>3, <2>1 DEF Finish
  <2>3. d \in Pages \ D
      BY <1>3
  <2> HIDE DEF x
  <2>4. t \in States /\ Undone(s, own, D, t)
      BY <1>1, <1>3, <2>1, <2>3, GivenUp
  <2>5. QED
      BY <2>2, <2>4 DEF Loaded
<1>4. CASE x.ok /\ ~segs.bad
  <2> DEFINE top == Ceil(segs.sz)
  <2>1. PICK guard : guard = Alloc(x)
      OBVIOUS
  <2>2. PICK y : y = AddGuard(d, top, guard, args)
      OBVIOUS
  <2>3. r = [s |-> y, dir |-> d, sz |-> (top + 2) * W]
      BY <1>4, <2>1, <2>2 DEF Finish
  <2>4. top \in Nat /\ top <= KernelPage
    <3>1. KernelPage \in Nat /\ KernelBase = W * KernelPage
        BY MemSizes DEF KernelPage, KernelBase
    <3>2. segs.sz \in Nat /\ segs.sz <= W * KernelPage
        BY <1>1, <3>1, MemSizes
    <3>3. QED
        BY <3>1, <3>2, Rounding
  <2>5. d \notin D /\ Held(s, own, D2, d, x) /\ Below(x, d, segs.sz) /\ KernelIn(x, d)
      BY <1>1, <1>4 DEF Held
  <2>6. PICK own0 : Layout(x, own0, D2)
      BY <2>5 DEF Held
  <2> HIDE DEF x, D2
  <2>7. Below(x, d, segs.sz) => \A v \in UserVPs : Present(Pte(x, d, v)) => v < top
      BY DEF Below
  <2>71. segs.sz \in Nat
      BY <1>1, MemSizes DEF KernelBase
  <2> HIDE DEF top
  <2>8. \A own1 : Layout(x, own1, D2) => y \in States /\ (y.ok => Stacked(x, own1, D2, d, top, y))
      BY <1>0, <1>1, <1>4, <2>1, <2>2, <2>4, <2>5, StackAdded
  <2>9. y \in States
      BY <2>6, <2>8
  <2>10. ASSUME y.ok PROVE Loaded(s, own, D, r)
    <3>1. /\ top + 1 \in UserVPs
          /\ \A c \in D2, v \in VPs : ~(c = d /\ v \in {top, top + 1}) => Pte(y, c, v) = Pte(x, c, v)
        BY <2>6, <2>8, <2>10 DEF Stacked
    <3>2. Goes(x, y, D2, d)
        BY <2>8, <2>10 DEF Stacked, Goes
    <3>3. KernelPage \in Nat /\ W \in Nat /\ W >= 2 /\ KernelBase = W * KernelPage
        BY MemSizes DEF KernelPage, KernelBase
    <3>4. top \in UserVPs /\ top + 2 \in 1 .. KernelPage
        BY <2>4, <3>1, <3>3 DEF UserVPs
    <3>5. SamePtes(x, y, D2, d)
        BY <3>1, <3>4 DEF SamePtes
    <3>6. Held(s, own, D2, d, y)
        BY <1>0, <2>5, <3>2, <3>5, HeldOn
    <3> DEFINE n == top + 2
    <3> DEFINE sz == n * W
    <3>7. sz \in W .. KernelBase /\ sz = W * n /\ n \in Nat
      <4>1. n \in 1 .. KernelPage
          BY <3>4
      <4> HIDE DEF n
      <4>2. sz = W * n /\ W * n >= W /\ W * n <= W * KernelPage
          BY <3>3, <4>1
      <4>3. QED
          BY <3>3, <4>1, <4>2
    <3>8. \A v \in UserVPs : Present(Pte(y, d, v)) => v < n
      <4>1. ASSUME NEW v \in UserVPs, Present(Pte(y, d, v)) PROVE v < n
        <5>1. CASE v \in {top, top + 1}
            BY <2>4, <5>1
        <5>2. CASE v \notin {top, top + 1}
          <6>1. v \in VPs
              BY Places
          <6>2. Present(Pte(x, d, v))
              BY <1>0, <3>1, <4>1, <5>2, <6>1
          <6>3. v < top
              BY <2>5, <2>7, <6>2
          <6>4. QED
              BY <2>4, <6>3 DEF UserVPs
        <5>3. QED
            BY <5>1, <5>2
      <4>2. QED
          BY <4>1
    <3>9. r = [s |-> y, dir |-> d, sz |-> sz]
        BY <2>3
    <3> HIDE DEF n, sz
    <3>10. Ceil(sz) = n
        BY <3>7, Rounding
    <3>11. Below(y, d, sz)
        BY <3>8, <3>10 DEF Below
    <3>12. QED
        BY <2>5, <3>6, <3>7, <3>9, <3>11 DEF Loaded, D2
  <2>11. QED
      BY <2>3, <2>9, <2>10
<1>5. QED
    BY <1>1, <1>2, <1>3, <1>4

(* do_exec makes a complete image or leaves no trace.                       *)
LEMMA ImageLoaded ==
    ASSUME NEW s \in States, NEW own, NEW D, Layout(s, own, D), NEW prog \in Programs,
           NEW r, r = Load(s, prog)
    PROVE  r.s \in States /\ (r.s.ok => Loaded(s, own, D, r))
<1>1. PICK dir : dir = NewDir(s)
    OBVIOUS
<1> DEFINE d == dir.pg
<1> DEFINE D2 == D \cup {d}
<1>2. /\ d \in Pages /\ dir.s \in States /\ d \in D2
      /\ dir.s.ok => d \notin D /\ Held(s, own, D2, d, dir.s) /\ Below(dir.s, d, 0)
    BY <1>1, ImageBegun
<1>3. PICK segs : segs = Segments(dir.s, d, prog)
    OBVIOUS
<1>4. r = Finish(segs, d, prog.args)
    BY <1>1, <1>3 DEF Load, LoadInto
<1> HIDE DEF d, D2
<1>5. segs \in SegSteps(s, own, D2, d)
    BY <1>2, <1>3, SegmentsLoaded
<1>6. segs.s.ok => d \notin D
  <2>1. ASSUME segs.s.ok, ~dir.s.ok PROVE FALSE
    <3> DEFINE z == Fail(s)
    <3>1. z \in States /\ z.ok = FALSE
        BY FailStops
    <3> HIDE DEF z
    <3>2. segs \in SegSteps(z, own, D2, d)
        BY <1>2, <1>3, <2>1, SegmentsLoaded
    <3>3. Held(z, own, D2, d, segs.s)
        BY <2>1, <3>2 DEF SegSteps, SegPart
    <3>4. QED
        BY <3>1, <3>3 DEF Held
  <2>2. QED
      BY <1>2, <2>1
<1>7. QED
  <2>1. /\ segs \in SegSteps(s, own, D \cup {d}, d) /\ d \in Pages
        /\ r = Finish(segs, d, prog.args)
      BY <1>2, <1>4, <1>5 DEF D2
  <2>2. QED
      BY <1>6, <2>1, ImageFinished
-----------------------------------------------------------------------------
(* Processes                                                                *)

LiveIn(pr) == {p \in Slots : pr[p].state # "UNUSED"}
DirsIn(pr, kd) == {kd} \cup {pr[p].pg_dir : p \in LiveIn(pr)}
StackOf(p) == <<0, "stack", p>>

(* The stacks are the processes', and no page is in anybody's hand.         *)
StacksOwned(own, pr) ==
    /\ \A p \in LiveIn(pr) : pr[p].kstack \in Pages /\ own[pr[p].kstack] = StackOf(p)
    /\ \A pg \in Pages :
          /\ own[pg][2] = "stack" => \E p \in LiveIn(pr) : own[pg] = StackOf(p) /\ pr[p].kstack = pg
          /\ own[pg][2] # "hand" /\ (own[pg][2] = "free" => own[pg] = Spare)
(* No two of them share a directory.                                        *)
DirsApart(pr, kd) ==
    /\ kd \in Pages
    /\ \A p \in LiveIn(pr) :
          /\ pr[p].pg_dir \in Pages /\ pr[p].pg_dir # kd /\ pr[p].pid \in Nat \ {0}
          /\ \A q \in LiveIn(pr) : pr[q].pg_dir = pr[p].pg_dir => q = p
(* Nothing is mapped between a process's size and the kernel.               *)
Sizes(s, pr) ==
    \A p \in LiveIn(pr) : Below(s, pr[p].pg_dir, pr[p].mem_size) /\ pr[p].mem_size \in W .. KernelBase

Book(s, own, pr, kd) ==
    /\ Layout(s, own, DirsIn(pr, kd))
    /\ StacksOwned(own, pr) /\ DirsApart(pr, kd) /\ Sizes(s, pr)
    /\ \A d \in DirsIn(pr, kd) : KernelIn(s, d)

SomeBook(s, pr, kd) == \E own : Book(s, own, pr, kd)

(* A step that leaves directories, tables and owners as they are.           *)
SameProcs(pr, pr2) ==
    /\ LiveIn(pr2) = LiveIn(pr)
    /\ \A p \in LiveIn(pr) : /\ pr2[p].pg_dir = pr[p].pg_dir /\ pr2[p].kstack = pr[p].kstack
                             /\ pr2[p].mem_size = pr[p].mem_size /\ pr2[p].pid = pr[p].pid
SameViews(s, t, D) == \A c \in D, v \in VPs : Pte(t, c, v) = Pte(s, c, v)

(* What holds of a directory's entries holds while they stay.               *)
LEMMA ViewsStay ==
    ASSUME NEW s, NEW t, NEW D, NEW d \in D, SameViews(s, t, D)
    PROVE  /\ KernelIn(s, d) => KernelIn(t, d)
           /\ \A sz : Below(s, d, sz) => Below(t, d, sz)
<1>1. ASSUME KernelIn(s, d), NEW i \in 0 .. W - 1
      PROVE  Pte(t, d, KernelPage + i) = Entry(i + 1, FALSE)
  <2> DEFINE v == KernelPage + i
  <2>1. v \in VPs /\ Pte(s, d, v) = Entry(i + 1, FALSE)
      BY <1>1, Places DEF KernelIn
  <2> HIDE DEF v
  <2>2. Pte(t, d, v) = Pte(s, d, v)
      BY <2>1 DEF SameViews
  <2>3. QED
      BY <2>1, <2>2 DEF v
<1>2. QED
    BY <1>1, Places DEF KernelIn, Below, SameViews

(* The books stay right when owners and entries stay.                       *)
LEMMA BookKept ==
    ASSUME NEW s, NEW t, NEW own, NEW pr, NEW pr2, NEW kd, Book(s, own, pr, kd),
           SameProcs(pr, pr2), Layout(t, own, DirsIn(pr, kd)), SameViews(s, t, DirsIn(pr, kd))
    PROVE  Book(t, own, pr2, kd)
<1> DEFINE D == DirsIn(pr, kd)
<1>1. DirsIn(pr2, kd) = D
    BY DEF SameProcs, DirsIn
<1>2. StacksOwned(own, pr2) /\ DirsApart(pr2, kd)
    BY DEF Book, SameProcs, StacksOwned, DirsApart
<1>3. \A p \in LiveIn(pr) : pr[p].pg_dir \in D
    BY DEF DirsIn
<1> HIDE DEF D
<1>4. \A d \in D : KernelIn(t, d)
    BY ViewsStay DEF Book, D
<1>5. ASSUME NEW p \in LiveIn(pr), NEW sz, Below(s, pr[p].pg_dir, sz)
      PROVE  Below(t, pr[p].pg_dir, sz)
    BY <1>3, <1>5, ViewsStay DEF D
<1>6. Sizes(t, pr2)
    BY <1>5 DEF Book, Sizes, SameProcs
<1>7. QED
    BY <1>1, <1>2, <1>4, <1>6 DEF Book, D

(* A stack is a role.                                                       *)
LEMMA StackRole == \A q \in Slots : StackOf(q) \in Role
<1>1. ASSUME NEW q \in Slots PROVE StackOf(q) \in Role
  <2>1. q \in Int /\ 0 \in 0 .. NPages
      BY MemSizes, ProcSizes DEF Slots
  <2>2. QED
      BY <2>1 DEF StackOf, Role
<1>2. QED
    BY <1>1

(* A page becomes a kernel stack.                                           *)
LEMMA StackTaken ==
    ASSUME NEW s \in States, NEW own, NEW D, s.ok => Layout(s, own, D), NEW r, r = NewStack(s),
           NEW q \in Slots
    PROVE  /\ r.pg \in Pages /\ r.s \in States
           /\ r.s.ok => /\ s.ok /\ own[r.pg] = Spare /\ SameViews(s, r.s, D)
                        /\ Layout(r.s, Give(own, r.pg, StackOf(q)), D)
                        /\ \A pg \in Pages : pg # r.pg => r.s.mem[pg] = s.mem[pg]
<1>1. /\ r.pg \in Pages /\ r.s \in States
      /\ r.s.ok => /\ s.ok /\ own[r.pg] = Spare
                   /\ Layout(r.s, Give(own, r.pg, InHand), D)
                   /\ \A d \in D : Alike(s, r.s, d)
                   /\ \A pg \in Pages : pg # r.pg => r.s.mem[pg] = s.mem[pg]
    BY PageTaken DEF NewStack
<1> DEFINE own1 == Give(own, r.pg, InHand)
<1> DEFINE own2 == Give(own, r.pg, StackOf(q))
<1>2. ASSUME r.s.ok PROVE Layout(r.s, own2, D)
  <2>1. own \in [Pages -> Role] /\ InHand \in Role /\ StackOf(q) \in Role
      BY <1>1, <1>2, StackRole, Apartness DEF Layout
  <2>2. /\ own1[r.pg] = InHand /\ \A pg \in Pages : pg # r.pg => own1[pg] = own[pg]
        /\ own2 \in [Pages -> Role] /\ own2[r.pg] = StackOf(q)
        /\ \A pg \in Pages : pg # r.pg => own2[pg] = own[pg]
      BY <1>1, <2>1, Given
  <2>3. Layout(r.s, own1, D)
      BY <1>1, <1>2
  <2> HIDE DEF own1, own2
  <2>4. InHand[2] \in Loose /\ StackOf(q)[2] \in Loose /\ InHand # Spare /\ StackOf(q) # Spare
      BY DEF InHand, StackOf, Loose, Spare
  <2>5. \A pg \in Pages : /\ pg \in r.s.free <=> own2[pg] = Spare
                          /\ own2[pg] = own1[pg] \/ (own1[pg][2] \in Loose /\ own2[pg][2] \in Loose)
    <3>1. \A pg \in Pages : pg \in r.s.free <=> own1[pg] = Spare
        BY <2>3 DEF Layout
    <3>2. QED
        BY <2>2, <2>4, <3>1
  <2>6. r.s.twice = FALSE
      BY <2>3 DEF Layout
  <2>7. \A d \in D : Alike(r.s, r.s, d)
      BY DEF Alike
  <2>8. QED
      BY <2>2, <2>3, <2>5, <2>6, <2>7, Relabelled
<1>3. QED
    BY <1>1, <1>2 DEF Alike, SameViews

(* The stacks of the processes and of one more.                             *)
LEMMA StacksAdded ==
    ASSUME NEW own \in [Pages -> Role], NEW pr, NEW pr2, StacksOwned(own, pr),
           NEW q \in Slots, q \notin LiveIn(pr), NEW pg \in Pages, own[pg] = Spare,
           LiveIn(pr2) = LiveIn(pr) \cup {q}, pr2[q].kstack = pg,
           \A p \in LiveIn(pr) : pr2[p].kstack = pr[p].kstack
    PROVE  StacksOwned(Give(own, pg, StackOf(q)), pr2)
<1> DEFINE own2 == Give(own, pg, StackOf(q))
<1>1. StackOf(q) \in Role
    BY StackRole
<1>2. own2[pg] = StackOf(q) /\ \A g \in Pages : g # pg => own2[g] = own[g]
    BY <1>1, Given
<1> HIDE DEF own2
<1>3. StackOf(q)[2] = "stack" /\ Spare[2] = "free" /\ \A p : StackOf(p) # Spare
    BY DEF StackOf, Spare
<1>4. \A p \in LiveIn(pr) : pr[p].kstack \in Pages /\ pr[p].kstack # pg /\ own[pr[p].kstack] = StackOf(p)
    BY <1>3 DEF StacksOwned
<1>5. \A p \in LiveIn(pr2) : pr2[p].kstack \in Pages /\ own2[pr2[p].kstack] = StackOf(p)
    BY <1>2, <1>4
<1>6. ASSUME NEW g \in Pages
      PROVE  /\ own2[g][2] = "stack" => \E p \in LiveIn(pr2) : own2[g] = StackOf(p) /\ pr2[p].kstack = g
             /\ own2[g][2] # "hand" /\ (own2[g][2] = "free" => own2[g] = Spare)
  <2>1. CASE g = pg
      BY <1>2, <1>3, <2>1
  <2>2. CASE g # pg
    <3>1. own2[g] = own[g]
        BY <1>2, <2>2
    <3>2. own[g][2] = "stack" => \E p \in LiveIn(pr) : own[g] = StackOf(p) /\ pr[p].kstack = g
        BY DEF StacksOwned
    <3>3. own[g][2] # "hand" /\ (own[g][2] = "free" => own[g] = Spare)
        BY DEF StacksOwned
    <3>4. QED
        BY <3>1, <3>2, <3>3
  <2>3. QED
      BY <2>1, <2>2
<1>7. QED
    BY <1>5, <1>6 DEF StacksOwned, own2

(* Growing a directory takes no stack.                                      *)
LEMMA StacksGrown ==
    ASSUME NEW own, NEW own2, NEW pr, StacksOwned(own, pr), NEW s, NEW t, NEW d,
           Grows(s, own, t, own2, d)
    PROVE  StacksOwned(own2, pr)
<1>1. Spare[2] = "free" /\ \A p : StackOf(p) # Spare /\ StackOf(p)[2] = "stack"
    BY DEF Spare, StackOf
<1>2. \A p \in LiveIn(pr) : pr[p].kstack \in Pages /\ own2[pr[p].kstack] = StackOf(p)
    BY <1>1 DEF StacksOwned, Grows
<1>3. ASSUME NEW g \in Pages
      PROVE  /\ own2[g][2] = "stack" => \E p \in LiveIn(pr) : own2[g] = StackOf(p) /\ pr[p].kstack = g
             /\ own2[g][2] # "hand" /\ (own2[g][2] = "free" => own2[g] = Spare)
  <2>1. CASE own[g] = Spare
      BY <1>1, <2>1 DEF Grows, Kinds
  <2>2. CASE own[g] # Spare
    <3>1. own2[g] = own[g]
        BY <2>2 DEF Grows
    <3>2. QED
        BY <3>1 DEF StacksOwned
  <2>3. QED
      BY <2>1, <2>2
<1>4. QED
    BY <1>2, <1>3 DEF StacksOwned
-----------------------------------------------------------------------------
(* fork                                                                     *)

(* A copy that begins after the kernel has stopped does nothing.            *)
LEMMA CopiesNothing ==
    ASSUME NEW s \in States, ~s.ok, NEW dst, NEW src, NEW n \in Nat
    PROVE  Copies(s, dst, src, n) \in {s}
<1> DEFINE T == [k \in 0 .. n |-> {s}]
<1> DEFINE Do(x, k) == CopyPage(x, dst, src, k)
<1> DEFINE h == [k \in 0 .. n - 1 |-> [x \in T[k] |-> Do(x, k)]]
<1> DEFINE g == CHOOSE at : at = [k \in 0 .. n |-> IF k = 0 THEN s ELSE Do(at[k - 1], k - 1)]
<1>1. n \in Nat /\ 0 \in 0 .. n /\ n \in 0 .. n
    OBVIOUS
<1>2. s \in T[0]
  <2>1. QED
      BY <1>1
<1>3. Copies(s, dst, src, n) = g[n]
    BY Zenon DEF Copies, Iterate
<1>4. ASSUME NEW k \in 0 .. n - 1, NEW x \in T[k] PROVE Do(x, k) \in T[k + 1]
  <2>1. x \in {s} /\ k + 1 \in 0 .. n
      BY <1>1
  <2>2. Do(x, k) \in {s}
    <3>1. x = s
        BY <2>1
    <3>2. CopyPage(s, dst, src, k) = s
        BY Zenon DEF CopyPage
    <3>3. QED
        BY <3>1, <3>2
  <2> HIDE DEF Do
  <2>3. QED
      BY <2>1, <2>2
<1>5. T[n] = {s} /\ \A k \in 0 .. n : T[k] \subseteq States
    BY <1>1
<1> HIDE DEF T, Do, g
<1>6. \A k \in 0 .. n - 1 : \A x \in T[k] : h[k][x] = Do(x, k)
    OBVIOUS
<1> HIDE DEF h
<1>7. PICK f \in [0 .. n -> States] :
         f[0] = s /\ \A k \in 0 .. n - 1 : f[k] \in T[k] /\ f[k + 1] = h[k][f[k]]
  <2>1. \A k \in 0 .. n - 1 : \A x \in T[k] : h[k][x] \in T[k + 1]
      BY <1>4, <1>6
  <2>2. Leads(n, States, T, h, s)
      BY <1>1, <1>2, <1>5, <2>1 DEF Leads
  <2>3. PICK f : Taken(f, n, States, T, h, s)
      BY <2>2, LoopRuns
  <2>4. QED
      BY <2>3 DEF Taken
<1>8. f = [k \in 0 .. n |-> IF k = 0 THEN s ELSE Do(f[k - 1], k - 1)]
  <2>1. ASSUME NEW k \in 0 .. n PROVE f[k] = IF k = 0 THEN s ELSE Do(f[k - 1], k - 1)
    <3>1. k # 0 => k - 1 \in 0 .. n - 1 /\ k - 1 + 1 = k
        BY <1>1
    <3>2. QED
        BY <1>6, <1>7, <3>1
  <2>2. f = [k \in 0 .. n |-> f[k]]
      OBVIOUS
  <2>3. QED
      BY <2>1, <2>2
<1>9. g = [k \in 0 .. n |-> IF k = 0 THEN s ELSE Do(g[k - 1], k - 1)]
    BY <1>8 DEF g
<1>10. g[0] = s /\ \A k \in 0 .. n - 1 : g[k + 1] = Do(g[k], k)
  <2>1. \A k \in 0 .. n : g[k] = IF k = 0 THEN s ELSE Do(g[k - 1], k - 1)
      BY <1>9
  <2>2. ASSUME NEW k \in 0 .. n - 1 PROVE g[k + 1] = Do(g[k], k)
    <3>1. k + 1 \in 0 .. n /\ k + 1 # 0 /\ k + 1 - 1 = k
        BY <1>1
    <3>2. QED
        BY <2>1, <3>1
  <2>3. QED
      BY <1>1, <2>1, <2>2
<1>11. g[n] \in T[n]
    BY <1>1, <1>2, <1>4, <1>10, LoopEnds
<1>12. QED
    BY <1>3, <1>5, <1>11

(* vm_clone after the kernel has stopped does nothing.                      *)
LEMMA CloneNothing ==
    ASSUME NEW s \in States, ~s.ok, NEW dst, NEW src, NEW size \in Nat
    PROVE  Clone(s, dst, src, size) = s
<1> DEFINE n == Ceil(size)
<1>1. n \in Nat
    BY Rounding
<1>2. Clone(s, dst, src, size) = Copies(s, dst, src, n)
    BY Zenon DEF Clone, Copies
<1> HIDE DEF n
<1>3. QED
    BY <1>1, <1>2, CopiesNothing

(* The child's directory is a copy of the parent's.                         *)
LEMMA CopyGoes ==
    ASSUME NEW x \in States, x.ok, NEW D, NEW d \in D, NEW src \in D, src # d,
           NEW own0, Layout(x, own0, D), \A v \in UserVPs : Pte(x, d, v) = 0,
           NEW size \in Nat, size <= KernelBase, Below(x, src, size),
           NEW y, y = Clone(x, d, src, size)
    PROVE  /\ y \in States
           /\ y.ok => /\ Goes(x, y, D, d) /\ SamePtes(x, y, D, d) /\ Below(y, d, size)
                      /\ \A v \in UserVPs : Copied(y, d, src, v)
<1> DEFINE k == Ceil(size)
<1>0. d \in Pages /\ k \in Nat /\ k <= KernelPage /\ KernelPage \in Nat
  <2>1. KernelPage \in Nat /\ KernelBase = W * KernelPage
      BY MemSizes DEF KernelPage, KernelBase
  <2>2. k \in Nat /\ k <= KernelPage
      BY <2>1, Rounding
  <2>3. QED
      BY <2>1, <2>2 DEF Layout, DirsOwned
<1>1. \A own1 : Layout(x, own1, D) => y \in States /\ (y.ok => CopyPart(x, own1, D, d, src, k, y))
    BY <1>0, Cloned
<1>2. y \in States
    BY <1>1
<1> HIDE DEF k
<1>3. ASSUME y.ok PROVE Goes(x, y, D, d)
  <2>1. ASSUME NEW own1, Layout(x, own1, D)
        PROVE  \E own2 : Layout(y, own2, D) /\ Grows(x, own1, y, own2, d)
    <3>1. PICK own2 : Layout(y, own2, D) /\ Builds(x, own1, y, own2, d, {})
        BY <1>1, <1>3, <2>1 DEF CopyPart
    <3>2. QED
        BY <3>1, GrowsOn
  <2>2. QED
      BY <2>1 DEF Goes
<1>4. ASSUME y.ok
      PROVE  /\ \A v \in UserVPs : v < k => Copied(y, d, src, v)
             /\ \A v \in VPs : ~(v < k) => Pte(y, d, v) = Pte(x, d, v)
             /\ \A c \in D, v \in VPs : c # d => Pte(y, c, v) = Pte(x, c, v)
    BY <1>1, <1>4 DEF CopyPart
<1>5. ASSUME y.ok, NEW v \in UserVPs, ~(v < k)
      PROVE  ~Present(Pte(y, d, v)) /\ ~Present(Pte(y, src, v))
  <2>1. v \in VPs
      BY Places
  <2>2. Pte(y, d, v) = 0 /\ Pte(y, src, v) = Pte(x, src, v)
      BY <1>4, <1>5, <2>1
  <2>3. QED
      BY <1>5, <2>2, Entries DEF Below, k
<1>6. ASSUME y.ok PROVE SamePtes(x, y, D, d)
  <2>1. \A v \in VPs : v \notin UserVPs => ~(v < k)
      BY <1>0 DEF VPs, UserVPs
  <2>2. QED
      BY <1>4, <1>6, <2>1 DEF SamePtes
<1>7. ASSUME y.ok PROVE Below(y, d, size) /\ \A v \in UserVPs : Copied(y, d, src, v)
    BY <1>4, <1>5, <1>7 DEF Below, k, Copied
<1>8. QED
    BY <1>2, <1>3, <1>6, <1>7

(* A copy stays one when pages that belong to no process are written.       *)
LEMMA CopiedStays ==
    ASSUME NEW s \in States, NEW own, NEW D, Layout(s, own, D), NEW a \in D, NEW b \in D,
           NEW t, SameViews(s, t, D),
           \A pg \in Pages : own[pg][2] = "page" => t.mem[pg] = s.mem[pg],
           NEW v \in UserVPs, Copied(s, a, b, v)
    PROVE  Copied(t, a, b, v)
<1>1. v \in VPs
    BY Places
<1>2. Pte(t, a, v) = Pte(s, a, v) /\ Pte(t, b, v) = Pte(s, b, v)
    BY <1>1 DEF SameViews
<1>3. ASSUME NEW c \in {a, b}, Present(Pte(s, c, v))
      PROVE  t.mem[PageOf(Pte(s, c, v))] = s.mem[PageOf(Pte(s, c, v))]
    BY <1>3, UserPage
<1>4. QED
    BY <1>2, <1>3 DEF Copied

(* What a system call leaves as it was: all directories but d, and all that *)
(* is in use but d's pages and those in K.                                  *)
Kept(s, own, t, D, d, K) ==
    /\ \A c \in D, v \in VPs : c # d => Pte(t, c, v) = Pte(s, c, v)
    /\ \A pg \in Pages : own[pg] # Spare /\ pg \notin K /\ ~(own[pg][1] = d /\ own[pg][2] \in Kinds)
                           => t.mem[pg] = s.mem[pg]

(* The memory of the child: its stack, its directory and its pages.         *)
ForkMem(s, own, D, q, src, size, stack, d, copy) ==
    /\ stack \in Pages /\ own[stack] = Spare /\ d \in Pages \ D
    /\ Kept(s, own, copy, D, 0, {}) /\ Below(copy, d, size) /\ KernelIn(copy, d)
    /\ \A v \in UserVPs : Copied(copy, d, src, v)
    /\ \E own2, z : /\ Layout(copy, own2, D \cup {d})
                    /\ Grows(z, Give(own, stack, StackOf(q)), copy, own2, d)

(* What fork's stack, directory and copy are.                               *)
LEMMA ForkCopies ==
    ASSUME NEW s \in States, NEW own, NEW D, Layout(s, own, D), NEW q \in Slots,
           NEW src \in D, NEW size \in Nat, size <= KernelBase, Below(s, src, size),
           NEW stack, stack = NewStack(s), NEW dir, dir = NewDir(stack.s),
           NEW copy, copy = Clone(dir.s, dir.pg, src, size)
    PROVE  /\ stack.pg \in Pages /\ dir.pg \in Pages
           /\ copy.ok => copy \in States /\ ForkMem(s, own, D, q, src, size, stack.pg, dir.pg, copy)
<1> DEFINE own1 == Give(own, stack.pg, StackOf(q))
<1> DEFINE d == dir.pg
<1> DEFINE D2 == D \cup {d}
<1>1. /\ stack.pg \in Pages /\ stack.s \in States
      /\ stack.s.ok => /\ own[stack.pg] = Spare /\ SameViews(s, stack.s, D)
                       /\ Layout(stack.s, own1, D)
                       /\ \A pg \in Pages : pg # stack.pg => stack.s.mem[pg] = s.mem[pg]
    BY StackTaken
<1>2. own1 = Give(own, stack.pg, StackOf(q))
    OBVIOUS
<1> HIDE DEF own1
<1>3. /\ dir.pg \in Pages /\ dir.s \in States
      /\ dir.s.ok => /\ dir.pg \notin D /\ Held(stack.s, own1, D \cup {dir.pg}, dir.pg, dir.s)
                     /\ \A v \in UserVPs : Pte(dir.s, dir.pg, v) = 0
  <2>1. PICK z : z = stack.s
      OBVIOUS
  <2>2. z \in States /\ (z.ok => Layout(z, own1, D)) /\ dir = NewDir(z)
      BY <1>1, <2>1
  <2>3. /\ dir.pg \in Pages /\ dir.s \in States
        /\ dir.s.ok => /\ dir.pg \notin D /\ Held(z, own1, D \cup {dir.pg}, dir.pg, dir.s)
                       /\ Below(dir.s, dir.pg, 0) /\ \A v \in UserVPs : Pte(dir.s, dir.pg, v) = 0
      BY <2>2, ImageBegun
  <2>4. QED
      BY <2>1, <2>3
<1>4. CASE ~dir.s.ok
  <2>1. copy = dir.s
      BY <1>3, <1>4, CloneNothing
  <2>2. QED
      BY <1>1, <1>3, <1>4, <2>1
<1>5. CASE dir.s.ok
  <2>1. /\ d \in Pages \ D /\ d \in D2 /\ src \in D2 /\ src # d /\ D \subseteq D2
        /\ \A c1 \in D : c1 # d
      BY <1>3, <1>5
  <2>2. Held(stack.s, own1, D2, d, dir.s) /\ \A v \in UserVPs : Pte(dir.s, d, v) = 0
      BY <1>3, <1>5
  <2> HIDE DEF D2
  <2>3. /\ \A c1 \in D, v \in VPs : Pte(dir.s, c1, v) = Pte(stack.s, c1, v)
        /\ stack.s.ok
      BY <2>1, <2>2 DEF Held
  <2>4. \A c1 \in D, v \in VPs : Pte(dir.s, c1, v) = Pte(s, c1, v)
      BY <1>1, <2>3 DEF SameViews
  <2>5. Below(dir.s, src, size)
      BY <2>4, Places DEF Below
  <2>6. PICK own0 : Layout(dir.s, own0, D2)
      BY <2>2 DEF Held
  <2>7. copy = Clone(dir.s, d, src, size)
      OBVIOUS
  <2> HIDE DEF d
  <2>8. /\ copy \in States
        /\ copy.ok => /\ Goes(dir.s, copy, D2, d) /\ SamePtes(dir.s, copy, D2, d)
                      /\ Below(copy, d, size) /\ \A v \in UserVPs : Copied(copy, d, src, v)
    <3>1. PICK x : x = dir.s
        OBVIOUS
    <3>2. /\ x \in States /\ x.ok /\ Layout(x, own0, D2) /\ Below(x, src, size)
          /\ \A v \in UserVPs : Pte(x, d, v) = 0
        BY <1>3, <1>5, <2>2, <2>5, <2>6, <3>1
    <3>3. copy = Clone(x, d, src, size)
        BY <2>7, <3>1
    <3>4. /\ copy \in States
          /\ copy.ok => /\ Goes(x, copy, D2, d) /\ SamePtes(x, copy, D2, d)
                        /\ Below(copy, d, size) /\ \A v \in UserVPs : Copied(copy, d, src, v)
        BY <2>1, <3>2, <3>3, CopyGoes
    <3>5. QED
        BY <3>1, <3>4
  <2>9. ASSUME copy.ok PROVE ForkMem(s, own, D, q, src, size, stack.pg, d, copy)
    <3>1. Held(stack.s, own1, D2, d, copy)
        BY <2>1, <2>2, <2>8, <2>9, HeldOn
    <3>2. PICK own2 : Layout(copy, own2, D2) /\ Grows(stack.s, own1, copy, own2, d)
        BY <3>1 DEF Held
    <3>3. KernelIn(copy, d) /\ \A c1 \in D, v \in VPs : Pte(copy, c1, v) = Pte(stack.s, c1, v)
        BY <2>1, <3>1 DEF Held
    <3>4. \A c1 \in D, v \in VPs : Pte(copy, c1, v) = Pte(s, c1, v)
        BY <1>1, <2>3, <3>3 DEF SameViews
    <3>5. \A pg \in Pages : own[pg] # Spare => copy.mem[pg] = s.mem[pg]
      <4>1. ASSUME NEW pg \in Pages, own[pg] # Spare PROVE copy.mem[pg] = s.mem[pg]
        <5>1. pg # stack.pg /\ own[stack.pg] = Spare
            BY <1>1, <2>3, <4>1
        <5>2. own1[pg] = own[pg]
          <6>1. own \in [Pages -> Role] /\ StackOf(q) \in Role
              BY StackRole DEF Layout
          <6>2. QED
              BY <1>1, <1>2, <5>1, <6>1, Given
        <5>3. ~(own[pg][1] = d /\ own[pg][2] \in Kinds)
            BY <2>1 DEF Layout, DirsOwned, TablesOwned, PagesOwned, Kinds
        <5>4. copy.mem[pg] = stack.s.mem[pg]
            BY <3>2, <4>1, <5>2, <5>3 DEF Grows
        <5>5. QED
            BY <1>1, <2>3, <5>1, <5>4
      <4>2. QED
          BY <4>1
    <3>6. Kept(s, own, copy, D, 0, {})
        BY <3>4, <3>5 DEF Kept
    <3>7. \E own3, z : Layout(copy, own3, D2) /\ Grows(z, Give(own, stack.pg, StackOf(q)), copy, own3, d)
        BY <1>2, <3>2
    <3>8. stack.pg \in Pages /\ own[stack.pg] = Spare
        BY <1>1, <2>3
    <3>9. QED
        BY <2>1, <2>8, <2>9, <3>3, <3>6, <3>7, <3>8 DEF ForkMem, D2
  <2>10. QED
      BY <1>1, <1>3, <2>8, <2>9 DEF d
<1>6. QED
    BY <1>4, <1>5

(* The child's frame is the parent's but for the result.                    *)
Child(pr, pr2, c, q, stack, d) ==
    /\ LiveIn(pr2) = LiveIn(pr) \cup {q} /\ \A p \in LiveIn(pr) : pr2[p] = pr[p]
    /\ pr2[q].pg_dir = d /\ pr2[q].kstack = stack /\ pr2[q].mem_size = pr[c].mem_size
    /\ pr2[q].pid \in Nat \ {0}
Frames(s, t, stack, parent, n) ==
    /\ t.mem[stack] = [s.mem[parent] EXCEPT ![2] = 0]
    /\ t.mem[parent] = [s.mem[parent] EXCEPT ![2] = n]
Forked(s, own, t, pr, kd, c, stack, d) ==
    /\ Kept(s, own, t, DirsIn(pr, kd), 0, {pr[c].kstack})
    /\ \A v \in UserVPs : Copied(t, d, pr[c].pg_dir, v)
    /\ SameViews(s, t, DirsIn(pr, kd))

(* trap_fork_proc and the parent's result.                                  *)
LEMMA FramesMade ==
    ASSUME NEW s \in States, NEW copy \in States, NEW stack \in Pages, NEW parent \in Pages,
           stack # parent, copy.mem[parent] = s.mem[parent], NEW n \in Int,
           NEW f, f = ForkFrame(copy, stack, parent), NEW t, t = PutWord(f, parent, 2, n)
    PROVE  Wrote(copy, f, stack) /\ Wrote(f, t, parent) /\ Frames(s, t, stack, parent, n)
<1> DEFINE x == [copy.mem[parent] EXCEPT ![2] = 0]
<1>1. copy.mem[parent] \in Words
    BY DEF States
<1>2. x \in Words
  <2>1. PICK w, j, v : w = copy.mem[parent] /\ j = 2 /\ v = 0
      OBVIOUS
  <2>2. w \in [0 .. W - 1 -> Int] /\ v \in Int
      BY <1>1, <2>1 DEF Words
  <2>3. [w EXCEPT ![j] = v] \in [0 .. W - 1 -> Int]
      BY <2>2
  <2>4. QED
      BY <2>1, <2>3 DEF Words
<1>3. f = PutPage(copy, stack, x)
    BY DEF ForkFrame, PutPage
<1>4. x = [s.mem[parent] EXCEPT ![2] = 0]
    OBVIOUS
<1> HIDE DEF x
<1>5. Wrote(copy, f, stack) /\ f.mem[stack] = x
    BY <1>2, <1>3, WritePage
<1>6. f \in States
    BY <1>5 DEF Wrote
<1>7. Wrote(f, t, parent)
    BY <1>6, WriteWord
<1>8. t.mem[parent] = [f.mem[parent] EXCEPT ![2] = n]
    BY <1>6 DEF PutWord, States
<1>9. f.mem[parent] = s.mem[parent] /\ t.mem[stack] = f.mem[stack]
    BY <1>5, <1>7 DEF Wrote
<1>10. QED
    BY <1>4, <1>5, <1>7, <1>8, <1>9 DEF Frames

(* The books after fork.                                                    *)
LEMMA ForkBook ==
    ASSUME NEW s \in States, NEW own, NEW pr, NEW kd, Book(s, own, pr, kd),
           NEW c \in LiveIn(pr), NEW q \in Slots, q \notin LiveIn(pr), NEW stack, NEW d,
           NEW copy \in States,
           copy.ok, ForkMem(s, own, DirsIn(pr, kd), q, pr[c].pg_dir, pr[c].mem_size, stack, d, copy),
           NEW n \in Int, NEW f, f = ForkFrame(copy, stack, pr[c].kstack),
           NEW t, t = PutWord(f, pr[c].kstack, 2, n), NEW pr2, Child(pr, pr2, c, q, stack, d)
    PROVE  /\ t \in States /\ t.ok /\ SomeBook(t, pr2, kd)
           /\ Forked(s, own, t, pr, kd, c, stack, d)
           /\ Frames(s, t, stack, pr[c].kstack, n)
<1> DEFINE D == DirsIn(pr, kd)
<1> DEFINE own1 == Give(own, stack, StackOf(q))
<1> DEFINE D2 == D \cup {d}
<1> DEFINE parent == pr[c].kstack
<1> DEFINE src == pr[c].pg_dir
<1> DEFINE size == pr[c].mem_size
<1>1. /\ stack \in Pages /\ own[stack] = Spare /\ d \in Pages \ D
      /\ Kept(s, own, copy, D, 0, {}) /\ Below(copy, d, size) /\ KernelIn(copy, d)
      /\ \A v \in UserVPs : Copied(copy, d, src, v)
      /\ \E own2, z : Layout(copy, own2, D2) /\ Grows(z, own1, copy, own2, d)
    BY DEF ForkMem
<1>2. PICK own2, z : Layout(copy, own2, D2) /\ Grows(z, own1, copy, own2, d)
    BY <1>1
<1>3. /\ Layout(s, own, D) /\ StacksOwned(own, pr) /\ DirsApart(pr, kd) /\ Sizes(s, pr)
      /\ \A e \in D : KernelIn(s, e)
    BY DEF Book
<1>4. src \in D /\ src \in D2 /\ d \in D2 /\ D \subseteq D2 /\ \A p \in LiveIn(pr) : pr[p].pg_dir \in D
    BY DEF DirsIn
<1>5. own \in [Pages -> Role] /\ parent \in Pages /\ own[parent] = StackOf(c)
    BY <1>3 DEF Layout, StacksOwned
<1>6. \A p : StackOf(p) # Spare /\ StackOf(p)[2] = "stack" /\ StackOf(p)[1] = 0
    BY DEF StackOf, Spare
<1>7. parent # stack /\ copy.mem[parent] = s.mem[parent]
    BY <1>1, <1>5, <1>6 DEF Kept, Kinds
<1>8. StacksOwned(own2, pr2)
  <2>1. StacksOwned(own1, pr2)
      BY <1>1, <1>3, <1>5, StacksAdded DEF Child
  <2> HIDE DEF own1
  <2>2. QED
      BY <1>2, <2>1, StacksGrown
<1>9. DirsIn(pr2, kd) = D2
    BY DEF DirsIn, Child
<1>10. own2[stack] = StackOf(q) /\ own2[parent] = StackOf(c)
  <2>1. /\ pr2[q].kstack = stack /\ q \in LiveIn(pr2)
        /\ pr2[c].kstack = parent /\ c \in LiveIn(pr2)
      BY DEF Child
  <2>2. QED
      BY <1>8, <2>1 DEF StacksOwned
<1>11. Wrote(copy, f, stack) /\ Wrote(f, t, parent) /\ Frames(s, t, stack, parent, n)
    BY <1>1, <1>5, <1>7, FramesMade
<1> HIDE DEF D, D2, own1, src, parent, size
<1>12. Layout(f, own2, D2) /\ SameViews(copy, f, D2) /\ f \in States
    BY <1>2, <1>6, <1>10, <1>11, Written DEF SameViews, Wrote
<1>13. Layout(t, own2, D2) /\ SameViews(f, t, D2) /\ t \in States
    BY <1>6, <1>10, <1>11, <1>12, Written DEF SameViews, Wrote
<1>14. SameViews(copy, t, D2)
    BY <1>12, <1>13 DEF SameViews
<1>15. \A g \in Pages : g # stack /\ g # parent => t.mem[g] = copy.mem[g]
    BY <1>11 DEF Wrote
<1>16. t.ok
    BY <1>11 DEF Wrote
<1>17. SameViews(s, t, D)
  <2>1. \A e \in D : e # 0
      BY <1>3 DEF Layout, DirsOwned, Pages
  <2>2. \A e \in D, v \in VPs : Pte(copy, e, v) = Pte(s, e, v)
      BY <1>1, <2>1 DEF Kept
  <2>3. QED
      BY <1>4, <1>14, <2>2 DEF SameViews
<1>18. Kept(s, own, t, D, 0, {parent})
  <2>1. \A g \in Pages : own[g] # Spare /\ ~(own[g][1] = 0 /\ own[g][2] \in Kinds) =>
           copy.mem[g] = s.mem[g]
      BY <1>1 DEF Kept
  <2>2. QED
      BY <1>1, <1>15, <1>17, <2>1 DEF Kept, SameViews
<1>19. \A v \in UserVPs : Copied(t, d, src, v)
  <2>1. \A g \in Pages : own2[g][2] = "page" => t.mem[g] = copy.mem[g]
      BY <1>6, <1>10, <1>15
  <2>2. QED
      BY <1>1, <1>2, <1>4, <1>14, <2>1, CopiedStays
<1>20. DirsApart(pr2, kd)
  <2>1. kd \in D /\ kd \in Pages
      BY <1>3 DEF DirsApart, D, DirsIn
  <2>2. \A p \in LiveIn(pr2) : p = q \/ (p \in LiveIn(pr) /\ pr2[p] = pr[p] /\ pr[p].pg_dir \in D)
      BY <1>4 DEF Child
  <2>3. QED
      BY <1>1, <1>3, <2>1, <2>2 DEF Child, DirsApart
<1>21. Sizes(t, pr2)
  <2>1. ASSUME NEW p \in LiveIn(pr)
        PROVE  Below(t, pr2[p].pg_dir, pr2[p].mem_size) /\ pr2[p].mem_size \in W .. KernelBase
    <3>1. pr2[p] = pr[p] /\ pr[p].pg_dir \in D /\ Below(s, pr[p].pg_dir, pr[p].mem_size)
          /\ pr[p].mem_size \in W .. KernelBase
        BY <1>3, <1>4 DEF Child, Sizes
    <3>2. QED
        BY <1>17, <3>1, ViewsStay
  <2>2. Below(t, d, size)
      BY <1>1, <1>4, <1>14, ViewsStay
  <2>3. size \in W .. KernelBase
      BY <1>3 DEF Sizes, size
  <2>4. pr2[q].pg_dir = d /\ pr2[q].mem_size = size /\ LiveIn(pr2) = LiveIn(pr) \cup {q}
      BY DEF Child, size
  <2>5. QED
      BY <2>1, <2>2, <2>3, <2>4 DEF Sizes
<1>22. \A e \in D2 : KernelIn(t, e)
  <2>1. KernelIn(t, d)
      BY <1>1, <1>4, <1>14, ViewsStay
  <2>2. \A e \in D : KernelIn(t, e)
      BY <1>3, <1>17, ViewsStay
  <2>3. QED
      BY <2>1, <2>2 DEF D2
<1>23. Book(t, own2, pr2, kd)
    BY <1>8, <1>9, <1>13, <1>20, <1>21, <1>22 DEF Book
<1>24. Forked(s, own, t, pr, kd, c, stack, d)
    BY <1>17, <1>18, <1>19 DEF Forked, D, src, parent
<1>25. QED
    BY <1>11, <1>13, <1>16, <1>23, <1>24 DEF parent, SomeBook
-----------------------------------------------------------------------------
(* exec and wait                                                            *)

(* trap_syscall's result changes the caller's frame and nothing else.       *)
LEMMA ReturnBook ==
    ASSUME NEW s \in States, NEW own, NEW pr, NEW kd, Book(s, own, pr, kd),
           NEW c \in LiveIn(pr), NEW v \in Int, NEW t, t = PutWord(s, pr[c].kstack, 2, v)
    PROVE  /\ t \in States /\ (t.ok <=> s.ok) /\ Book(t, own, pr, kd)
           /\ SameViews(s, t, DirsIn(pr, kd))
           /\ \A g \in Pages : g # pr[c].kstack => t.mem[g] = s.mem[g]
<1> DEFINE k == pr[c].kstack
<1>1. /\ Layout(s, own, DirsIn(pr, kd)) /\ own[k] = StackOf(c)
    BY DEF Book, StacksOwned
<1>2. StackOf(c)[2] = "stack"
    BY DEF StackOf
<1>3. t = PutWord(s, k, 2, v)
    OBVIOUS
<1>4. SameProcs(pr, pr)
    BY DEF SameProcs
<1> HIDE DEF k
<1>5. Wrote(s, t, k)
    BY <1>3, WriteWord
<1>6. Layout(t, own, DirsIn(pr, kd)) /\ SameViews(s, t, DirsIn(pr, kd))
    BY <1>1, <1>2, <1>5, Written DEF SameViews
<1>7. Book(t, own, pr, kd)
    BY <1>4, <1>6, BookKept
<1>8. QED
    BY <1>5, <1>6, <1>7 DEF Wrote, k

(* The stacks stay when a directory is given back.                          *)
LEMMA StacksLeft ==
    ASSUME NEW s, NEW own, NEW D, Layout(s, own, D), NEW pr, StacksOwned(own, pr), NEW d
    PROVE  StacksOwned(Left(own, d), pr)
<1> DEFINE own2 == Left(own, d)
<1>1. \A g \in Pages : own2[g] = IF own[g][1] = d /\ own[g][2] \in Kinds THEN Spare ELSE own[g]
  <2>1. 0 \in Nat
      OBVIOUS
  <2>2. QED
      BY <2>1, LeavingIs
<1> HIDE DEF own2
<1>2. Spare[2] = "free" /\ \A p : StackOf(p)[2] = "stack"
    BY DEF Spare, StackOf
<1>3. \A p \in LiveIn(pr) : pr[p].kstack \in Pages /\ own2[pr[p].kstack] = StackOf(p)
    BY <1>1, <1>2 DEF StacksOwned, Kinds
<1>4. ASSUME NEW g \in Pages
      PROVE  /\ own2[g][2] = "stack" => \E p \in LiveIn(pr) : own2[g] = StackOf(p) /\ pr[p].kstack = g
             /\ own2[g][2] # "hand" /\ (own2[g][2] = "free" => own2[g] = Spare)
  <2>1. CASE own2[g] = Spare
      BY <1>2, <2>1
  <2>2. CASE own2[g] = own[g]
      BY <2>2 DEF StacksOwned
  <2>3. QED
      BY <1>1, <2>1, <2>2
<1>5. QED
    BY <1>3, <1>4 DEF StacksOwned, own2

(* A process goes on with another image.                                    *)
Moved(pr, pr2, c, d, sz) ==
    /\ LiveIn(pr2) = LiveIn(pr) /\ \A p \in LiveIn(pr) : p # c => pr2[p] = pr[p]
    /\ pr2[c].pg_dir = d /\ pr2[c].mem_size = sz /\ pr2[c].kstack = pr[c].kstack
    /\ pr2[c].pid = pr[c].pid

(* The directories after exec.                                              *)
LEMMA ExecMoved ==
    ASSUME NEW pr, NEW pr2, NEW c \in LiveIn(pr), NEW d, NEW sz, NEW kd, Moved(pr, pr2, c, d, sz),
           DirsApart(pr, kd), d \in Pages \ DirsIn(pr, kd)
    PROVE  /\ DirsIn(pr2, kd) = (DirsIn(pr, kd) \cup {d}) \ {pr[c].pg_dir}
           /\ DirsApart(pr2, kd)
           /\ \A own : StacksOwned(own, pr) => StacksOwned(own, pr2)
<1>1. \A p \in LiveIn(pr) : pr[p].pg_dir \in DirsIn(pr, kd)
    BY DEF DirsIn
<1>2. kd \in DirsIn(pr, kd) /\ kd # pr[c].pg_dir
    BY DEF DirsIn, DirsApart
<1>3. DirsApart(pr2, kd)
    BY <1>1, <1>2 DEF DirsApart, Moved
<1>4. \A p \in LiveIn(pr) : p # c => pr[p].pg_dir # pr[c].pg_dir
    BY DEF DirsApart
<1>5. ASSUME NEW x PROVE x \in DirsIn(pr2, kd) <=> x \in (DirsIn(pr, kd) \cup {d}) \ {pr[c].pg_dir}
  <2>1. x \in DirsIn(pr2, kd) <=> x = kd \/ \E p \in LiveIn(pr) : x = pr2[p].pg_dir
      BY DEF DirsIn, Moved
  <2>2. x \in DirsIn(pr, kd) <=> x = kd \/ \E p \in LiveIn(pr) : x = pr[p].pg_dir
      BY DEF DirsIn
  <2>3. CASE x = d
      BY <1>1, <2>1, <2>3 DEF Moved
  <2>4. CASE x # d
      BY <1>2, <1>4, <2>1, <2>2, <2>4 DEF Moved
  <2>5. QED
      BY <2>3, <2>4
<1>6. \A own : StacksOwned(own, pr) => StacksOwned(own, pr2)
  <2>1. \A p \in LiveIn(pr) : pr2[p].kstack = pr[p].kstack
      BY DEF Moved
  <2>2. QED
      BY <2>1 DEF StacksOwned, Moved
<1>7. QED
    BY <1>3, <1>5, <1>6

ExecKept(s, own, t, pr, kd, c) ==
    Kept(s, own, t, DirsIn(pr, kd), pr[c].pg_dir, {pr[c].kstack})

(* The books after exec.                                                    *)
LEMMA ExecBook ==
    ASSUME NEW s \in States, NEW own, NEW pr, NEW kd, Book(s, own, pr, kd),
           NEW c \in LiveIn(pr), NEW x \in States, x.ok, NEW d \in Pages \ DirsIn(pr, kd),
           Held(s, own, DirsIn(pr, kd) \cup {d}, d, x), NEW sz \in W .. KernelBase, Below(x, d, sz),
           NEW pc \in Int, NEW sp \in Int, NEW e, e = ExecFrame(x, pr[c].kstack, pc, sp),
           NEW y, y = FreeDir(e, pr[c].pg_dir), NEW t, t = PutWord(y, pr[c].kstack, 2, 0),
           NEW pr2, Moved(pr, pr2, c, d, sz)
    PROVE  t \in States /\ t.ok /\ SomeBook(t, pr2, kd) /\ ExecKept(s, own, t, pr, kd, c)
<1> DEFINE D == DirsIn(pr, kd)
<1> DEFINE D2 == D \cup {d}
<1> DEFINE k == pr[c].kstack
<1> DEFINE old == pr[c].pg_dir
<1> DEFINE D3 == D2 \ {old}
<1>1. PICK own1 : Layout(x, own1, D2) /\ Grows(s, own, x, own1, d)
    BY DEF Held
<1>2. /\ KernelIn(x, d) /\ \A a \in D, v \in VPs : Pte(x, a, v) = Pte(s, a, v)
    BY DEF Held
<1>3. /\ Layout(s, own, D) /\ StacksOwned(own, pr) /\ DirsApart(pr, kd) /\ Sizes(s, pr)
      /\ \A a \in D : KernelIn(s, a)
    BY DEF Book
<1>4. /\ old \in D /\ old \in D2 /\ d \in D2 /\ d # old /\ d \in D3 /\ D \subseteq D2
      /\ \A p \in LiveIn(pr) : pr[p].pg_dir \in D
    BY DEF DirsIn
<1>5. StacksOwned(own1, pr) /\ k \in Pages /\ own1[k] = StackOf(c)
  <2>1. StacksOwned(own1, pr)
      BY <1>1, <1>3, StacksGrown
  <2>2. QED
      BY <2>1 DEF StacksOwned
<1>6. /\ DirsIn(pr2, kd) = D3 /\ DirsApart(pr2, kd)
      /\ \A own2 : StacksOwned(own2, pr) => StacksOwned(own2, pr2)
    BY <1>3, ExecMoved
<1>7. \A p : StackOf(p) # Spare /\ StackOf(p)[2] = "stack" /\ StackOf(p)[1] = 0
    BY DEF StackOf, Spare
<1>8. PICK e1 : e1 = PutWord(x, k, 0, pc)
    OBVIOUS
<1>9. e = PutWord(e1, k, 1, sp)
  <2>1. x.mem \in [Pages -> Words] /\ DOMAIN x = {"mem", "free", "twice", "ok"}
      BY DEF States
  <2>2. QED
      BY <1>8 DEF ExecFrame, PutWord
<1>10. y = FreeDir(e, old) /\ t = PutWord(y, k, 2, 0)
    OBVIOUS
<1> DEFINE own2 == Left(own1, old)
<1>11. own2 = Left(own1, old) /\ D3 = D2 \ {old}
    OBVIOUS
<1> HIDE DEF D, D2, D3, k, old, own2
<1>12. Wrote(x, e1, k) /\ Layout(e1, own1, D2) /\ SameViews(x, e1, D2) /\ e1 \in States /\ e1.ok
  <2>1. Wrote(x, e1, k)
      BY <1>8, WriteWord
  <2>2. QED
      BY <1>1, <1>5, <1>7, <2>1, Written DEF SameViews, Wrote
<1>13. Wrote(e1, e, k) /\ Layout(e, own1, D2) /\ SameViews(e1, e, D2) /\ e \in States /\ e.ok
  <2>1. Wrote(e1, e, k)
      BY <1>9, <1>12, WriteWord
  <2>2. QED
      BY <1>12, <1>5, <1>7, <2>1, Written DEF SameViews, Wrote
<1>14. y \in States /\ DirLeft(e, own1, D2, old, y)
    BY <1>4, <1>10, <1>13, DirFreed
<1>15. /\ y.ok /\ Layout(y, own2, D3)
       /\ \A a \in D2, v \in VPs : a # old => Pte(y, a, v) = Pte(e, a, v)
       /\ \A g \in Pages : ~(own1[g][1] = old /\ own1[g][2] \in Kinds) => y.mem[g] = e.mem[g]
    BY <1>11, <1>14 DEF DirLeft
<1>16. StacksOwned(own2, pr) /\ own2[k] = StackOf(c)
  <2>1. StacksOwned(own2, pr)
      BY <1>5, <1>11, <1>13, StacksLeft
  <2>2. QED
      BY <2>1 DEF StacksOwned, k
<1>17. Wrote(y, t, k) /\ Layout(t, own2, D3) /\ SameViews(y, t, D3) /\ t \in States /\ t.ok
  <2>1. Wrote(y, t, k)
      BY <1>10, <1>14, WriteWord
  <2>2. Layout(y, own2, D3) /\ y.ok /\ own2[k][2] = "stack"
      BY <1>7, <1>15, <1>16
  <2>3. Layout(t, own2, D3) /\ \A a \in D3, v \in VPs : Pte(t, a, v) = Pte(y, a, v)
      BY <1>14, <2>1, <2>2, Written
  <2>4. QED
      BY <2>1, <2>2, <2>3 DEF SameViews, Wrote
<1>18. \A a \in D3, v \in VPs : Pte(t, a, v) = Pte(x, a, v)
    BY <1>11, <1>12, <1>13, <1>15, <1>17 DEF SameViews
<1>19. SameViews(x, t, D3)
    BY <1>18 DEF SameViews
<1>20. \A a \in D, v \in VPs : a # old => Pte(t, a, v) = Pte(s, a, v)
    BY <1>2, <1>4, <1>11, <1>18
<1>21. \A g \in Pages : own[g] # Spare /\ g # k /\ ~(own[g][1] = old /\ own[g][2] \in Kinds)
                          => t.mem[g] = s.mem[g]
  <2>1. ASSUME NEW g \in Pages, own[g] # Spare, g # k, ~(own[g][1] = old /\ own[g][2] \in Kinds)
        PROVE  t.mem[g] = s.mem[g]
    <3>1. ~(own[g][1] = d /\ own[g][2] \in Kinds)
        BY <1>3 DEF Layout, DirsOwned, TablesOwned, PagesOwned, Kinds, D
    <3>2. own1[g] = own[g] /\ x.mem[g] = s.mem[g]
        BY <1>1, <2>1, <3>1 DEF Grows
    <3>3. t.mem[g] = y.mem[g] /\ e.mem[g] = e1.mem[g] /\ e1.mem[g] = x.mem[g]
        BY <1>12, <1>13, <1>17, <2>1 DEF Wrote
    <3>4. y.mem[g] = e.mem[g]
        BY <1>15, <2>1, <3>2
    <3>5. QED
        BY <3>2, <3>3, <3>4
  <2>2. QED
      BY <2>1
<1>22. Kept(s, own, t, D, old, {k})
    BY <1>20, <1>21 DEF Kept
<1>23. KernelIn(t, d) /\ Below(t, d, sz)
    BY <1>2, <1>4, <1>19, ViewsStay
<1>24. SameViews(s, t, D \ {old})
    BY <1>20 DEF SameViews
<1>25. \A a \in D3 : KernelIn(t, a)
  <2>1. ASSUME NEW a \in D \ {old} PROVE KernelIn(t, a)
      BY <1>3, <1>24, <2>1, ViewsStay
  <2>2. \A a \in D3 : a = d \/ a \in D \ {old}
      BY <1>11 DEF D2
  <2>3. QED
      BY <1>23, <2>1, <2>2
<1>26. Sizes(t, pr2)
  <2>1. ASSUME NEW p \in LiveIn(pr), p # c
        PROVE  Below(t, pr2[p].pg_dir, pr2[p].mem_size) /\ pr2[p].mem_size \in W .. KernelBase
    <3>1. pr2[p] = pr[p] /\ Below(s, pr[p].pg_dir, pr[p].mem_size)
          /\ pr[p].mem_size \in W .. KernelBase
        BY <1>3, <2>1 DEF Moved, Sizes
    <3>2. pr[p].pg_dir \in D \ {old}
        BY <1>3, <1>4, <2>1 DEF DirsApart, old
    <3>3. QED
        BY <1>24, <3>1, <3>2, ViewsStay
  <2>2. pr2[c].pg_dir = d /\ pr2[c].mem_size = sz /\ LiveIn(pr2) = LiveIn(pr)
      BY DEF Moved
  <2>3. QED
      BY <1>23, <2>1, <2>2 DEF Sizes
<1>27. Book(t, own2, pr2, kd)
    BY <1>6, <1>16, <1>17, <1>25, <1>26 DEF Book
<1>28. QED
    BY <1>17, <1>22, <1>27 DEF D, old, k, SomeBook, ExecKept

(* A process goes.                                                          *)
Removed(pr, pr2, q) ==
    LiveIn(pr2) = LiveIn(pr) \ {q} /\ \A p \in LiveIn(pr) : p # q => pr2[p] = pr[p]

(* The processes after wait.                                                *)
LEMMA WaitRemoved ==
    ASSUME NEW pr, NEW pr2, NEW q \in LiveIn(pr), NEW kd, Removed(pr, pr2, q), DirsApart(pr, kd)
    PROVE  DirsIn(pr2, kd) = DirsIn(pr, kd) \ {pr[q].pg_dir} /\ DirsApart(pr2, kd)
<1>1. kd # pr[q].pg_dir /\ \A p \in LiveIn(pr) : p # q => pr[p].pg_dir # pr[q].pg_dir
    BY DEF DirsApart
<1>2. ASSUME NEW x PROVE x \in DirsIn(pr2, kd) <=> x \in DirsIn(pr, kd) \ {pr[q].pg_dir}
  <2>1. x \in DirsIn(pr2, kd) <=> x = kd \/ \E p \in LiveIn(pr) : p # q /\ x = pr[p].pg_dir
      BY DEF DirsIn, Removed
  <2>2. x \in DirsIn(pr, kd) <=> x = kd \/ \E p \in LiveIn(pr) : x = pr[p].pg_dir
      BY DEF DirsIn
  <2>3. QED
      BY <1>1, <2>1, <2>2
<1>3. DirsApart(pr2, kd)
    BY DEF DirsApart, Removed
<1>4. QED
    BY <1>2, <1>3

(* free of a stack, by wait.                                                *)
LEMMA StackFreed ==
    ASSUME NEW s \in States, NEW own, NEW D, Layout(s, own, D), NEW pr, StacksOwned(own, pr),
           NEW q \in LiveIn(pr), NEW pr2, Removed(pr, pr2, q), NEW k, k = pr[q].kstack,
           NEW t, t = FreeStack(s, k)
    PROVE  /\ t \in States /\ (t.ok <=> s.ok) /\ k \in Pages /\ own[k] = StackOf(q)
           /\ Layout(t, Give(own, k, Spare), D) /\ StacksOwned(Give(own, k, Spare), pr2)
           /\ SameViews(s, t, D)
           /\ \A g \in Pages : g # k => t.mem[g] = s.mem[g] /\ Give(own, k, Spare)[g] = own[g]
<1> DEFINE own1 == Give(own, k, Spare)
<1> DEFINE blk == {k}
<1>1. k \in Pages /\ own[k] = StackOf(q)
    BY DEF StacksOwned
<1>2. own \in [Pages -> Role] /\ Spare \in Role
    BY Apartness DEF Layout
<1>3. /\ own1 \in [Pages -> Role] /\ own1[k] = Spare
      /\ \A g \in Pages : g # k => own1[g] = own[g]
    BY <1>1, <1>2, Given
<1>4. Freed(s, {k}, t)
    BY <1>1, PageFreed DEF FreeStack
<1> HIDE DEF own1
<1>5. \A p : StackOf(p)[2] = "stack" /\ StackOf(p) # Spare /\ StackOf(p)[3] = p
    BY DEF StackOf, Spare
<1>6. /\ blk \subseteq Pages /\ \A g \in blk : own[g][2] \in Loose /\ own[g] # Spare
      /\ Freed(s, blk, t) /\ \A g \in Pages : own1[g] = IF g \in blk THEN Spare ELSE own[g]
    BY <1>1, <1>3, <1>4, <1>5 DEF Loose
<1> HIDE DEF blk
<1>7. Layout(t, own1, D) /\ \A c \in D : Alike(s, t, c)
    BY <1>3, <1>6, Returned
<1>8. StacksOwned(own1, pr2)
  <2>1. \A p \in LiveIn(pr) : own[pr[p].kstack] = StackOf(p) /\ pr[p].kstack \in Pages
      BY DEF StacksOwned
  <2>2. \A p \in LiveIn(pr) : p # q => pr[p].kstack # k
      BY <1>1, <1>5, <2>1
  <2>3. \A p \in LiveIn(pr2) : pr2[p].kstack \in Pages /\ own1[pr2[p].kstack] = StackOf(p)
      BY <1>3, <2>1, <2>2 DEF Removed
  <2>4. ASSUME NEW g \in Pages
        PROVE  /\ own1[g][2] = "stack" => \E p \in LiveIn(pr2) : own1[g] = StackOf(p) /\ pr2[p].kstack = g
               /\ own1[g][2] # "hand" /\ (own1[g][2] = "free" => own1[g] = Spare)
    <3>1. CASE g = k
      <4>1. own1[g] = Spare /\ Spare[2] = "free"
          BY <1>3, <3>1 DEF Spare
      <4>2. QED
          BY <4>1
    <3>2. CASE g # k
      <4>1. own1[g] = own[g]
          BY <1>3, <3>2
      <4>2. own[g][2] # "hand" /\ (own[g][2] = "free" => own[g] = Spare)
          BY DEF StacksOwned
      <4>3. own[g][2] = "stack" => \E p \in LiveIn(pr) : own[g] = StackOf(p) /\ pr[p].kstack = g
          BY DEF StacksOwned
      <4>4. own[g][2] = "stack" => \E p \in LiveIn(pr2) : own[g] = StackOf(p) /\ pr2[p].kstack = g
          BY <1>1, <3>2, <4>3 DEF Removed
      <4>5. QED
          BY <4>1, <4>2, <4>4
    <3>3. QED
        BY <3>1, <3>2
  <2>5. QED
      BY <2>3, <2>4 DEF StacksOwned
<1>9. QED
    BY <1>1, <1>3, <1>4, <1>7, <1>8 DEF Freed, own1, Alike, SameViews

WaitKept(s, own, t, pr, kd, c, q) ==
    Kept(s, own, t, DirsIn(pr, kd), pr[q].pg_dir, {pr[c].kstack, pr[q].kstack})

(* The books after wait.                                                    *)
LEMMA WaitBook ==
    ASSUME NEW s \in States, s.ok, NEW own, NEW pr, NEW kd, Book(s, own, pr, kd),
           NEW c \in LiveIn(pr), NEW q \in LiveIn(pr), q # c,
           NEW x, x = FreeStack(s, pr[q].kstack), NEW y, y = FreeDir(x, pr[q].pg_dir),
           NEW v \in Int, NEW t, t = PutWord(y, pr[c].kstack, 2, v),
           NEW pr2, Removed(pr, pr2, q)
    PROVE  t \in States /\ t.ok /\ SomeBook(t, pr2, kd) /\ WaitKept(s, own, t, pr, kd, c, q)
<1> DEFINE D == DirsIn(pr, kd)
<1> DEFINE k == pr[c].kstack
<1> DEFINE j == pr[q].kstack
<1> DEFINE old == pr[q].pg_dir
<1> DEFINE D3 == D \ {old}
<1> DEFINE own1 == Give(own, j, Spare)
<1> DEFINE own2 == Left(own1, old)
<1>1. /\ Layout(s, own, D) /\ StacksOwned(own, pr) /\ DirsApart(pr, kd) /\ Sizes(s, pr)
      /\ \A a \in D : KernelIn(s, a)
    BY DEF Book
<1>2. old \in D /\ \A p \in LiveIn(pr) : pr[p].pg_dir \in D
    BY DEF DirsIn
<1>3. DirsIn(pr2, kd) = D3 /\ DirsApart(pr2, kd)
    BY <1>1, WaitRemoved
<1>4. c \in LiveIn(pr2) /\ pr2[c] = pr[c]
    BY DEF Removed
<1>5. own2 = Left(own1, old) /\ D3 = D \ {old} /\ y = FreeDir(x, old) /\ t = PutWord(y, k, 2, v)
    OBVIOUS
<1>6. /\ x \in States /\ (x.ok <=> s.ok) /\ j \in Pages /\ own[j] = StackOf(q)
      /\ Layout(x, own1, D) /\ StacksOwned(own1, pr2) /\ SameViews(s, x, D)
      /\ \A g \in Pages : g # j => x.mem[g] = s.mem[g] /\ own1[g] = own[g]
  <2> HIDE DEF D
  <2>1. PICK i : i = j
      OBVIOUS
  <2>2. i = pr[q].kstack /\ x = FreeStack(s, i)
      BY <2>1
  <2>3. /\ x \in States /\ (x.ok <=> s.ok) /\ i \in Pages /\ own[i] = StackOf(q)
        /\ Layout(x, Give(own, i, Spare), D) /\ StacksOwned(Give(own, i, Spare), pr2)
        /\ SameViews(s, x, D)
        /\ \A g \in Pages : g # i => x.mem[g] = s.mem[g] /\ Give(own, i, Spare)[g] = own[g]
      BY <1>1, <2>2, StackFreed
  <2>4. QED
      BY <2>1, <2>3
<1> HIDE DEF D, k, j, old, D3, own1, own2
<1>7. x.ok /\ y \in States /\ DirLeft(x, own1, D, old, y)
    BY <1>2, <1>5, <1>6, DirFreed
<1>8. /\ y.ok /\ Layout(y, own2, D3)
      /\ \A a \in D, u \in VPs : a # old => Pte(y, a, u) = Pte(x, a, u)
      /\ \A g \in Pages : ~(own1[g][1] = old /\ own1[g][2] \in Kinds) => y.mem[g] = x.mem[g]
    BY <1>5, <1>7 DEF DirLeft
<1>9. StacksOwned(own2, pr2)
    BY <1>5, <1>6, StacksLeft
<1>10. own2[k] = StackOf(c) /\ StackOf(c)[2] = "stack"
    BY <1>4, <1>9 DEF StacksOwned, k, StackOf
<1>11. Wrote(y, t, k)
    BY <1>5, <1>7, WriteWord
<1>12. own2[k][2] = "stack"
    BY <1>10
<1>13. Layout(t, own2, D3) /\ \A a \in D3, u \in VPs : Pte(t, a, u) = Pte(y, a, u)
    BY <1>7, <1>8, <1>11, <1>12, Written
<1>14. \A a \in D, u \in VPs : a # old => Pte(t, a, u) = Pte(s, a, u)
    BY <1>5, <1>6, <1>8, <1>13 DEF SameViews
<1>15. \A g \in Pages : own[g] # Spare /\ g \notin {k, j} /\ ~(own[g][1] = old /\ own[g][2] \in Kinds)
                          => t.mem[g] = s.mem[g]
  <2>1. ASSUME NEW g \in Pages, g # k, g # j, ~(own[g][1] = old /\ own[g][2] \in Kinds)
        PROVE  t.mem[g] = s.mem[g]
    <3>1. own1[g] = own[g] /\ x.mem[g] = s.mem[g]
        BY <1>6, <2>1
    <3>2. t.mem[g] = y.mem[g]
        BY <1>11, <2>1 DEF Wrote
    <3>3. QED
        BY <1>8, <2>1, <3>1, <3>2
  <2>2. QED
      BY <2>1
<1>16. Kept(s, own, t, D, old, {k, j})
    BY <1>14, <1>15 DEF Kept
<1>17. SameViews(s, t, D3)
    BY <1>5, <1>14 DEF SameViews
<1>18. \A a \in D3 : KernelIn(t, a)
    BY <1>1, <1>5, <1>17, ViewsStay
<1>19. Sizes(t, pr2)
  <2>1. ASSUME NEW p \in LiveIn(pr), p # q
        PROVE  Below(t, pr2[p].pg_dir, pr2[p].mem_size) /\ pr2[p].mem_size \in W .. KernelBase
    <3>1. pr2[p] = pr[p] /\ Below(s, pr[p].pg_dir, pr[p].mem_size)
          /\ pr[p].mem_size \in W .. KernelBase
        BY <1>1, <2>1 DEF Removed, Sizes
    <3>2. pr[p].pg_dir \in D3
        BY <1>1, <1>2, <1>5, <2>1 DEF DirsApart, old
    <3>3. QED
        BY <1>17, <3>1, <3>2, ViewsStay
  <2>2. QED
      BY <2>1 DEF Sizes, Removed
<1>20. Book(t, own2, pr2, kd)
    BY <1>3, <1>9, <1>13, <1>18, <1>19 DEF Book
<1>21. QED
    BY <1>8, <1>11, <1>16, <1>20 DEF Wrote, D, old, k, j, SomeBook, WaitKept
-----------------------------------------------------------------------------
(* Images                                                                   *)

ImageOf(s, dir) ==
    [vp \in {v \in UserVPs : Present(Pte(s, dir, v))} |->
       [user |-> IsUser(Pte(s, dir, vp)), words |-> s.mem[PageOf(Pte(s, dir, vp))]]]

(* An image stays when its entries and their pages do.                      *)
LEMMA ImageStays ==
    ASSUME NEW s, NEW t, NEW a, NEW b,
           \A v \in UserVPs : Pte(t, b, v) = Pte(s, a, v),
           \A v \in UserVPs : Present(Pte(s, a, v)) =>
              t.mem[PageOf(Pte(s, a, v))] = s.mem[PageOf(Pte(s, a, v))]
    PROVE  ImageOf(t, b) = ImageOf(s, a)
<1> DEFINE A == {v \in UserVPs : Present(Pte(s, a, v))}
<1> DEFINE B == {v \in UserVPs : Present(Pte(t, b, v))}
<1> DEFINE F(v) == [user |-> IsUser(Pte(s, a, v)), words |-> s.mem[PageOf(Pte(s, a, v))]]
<1> DEFINE G(v) == [user |-> IsUser(Pte(t, b, v)), words |-> t.mem[PageOf(Pte(t, b, v))]]
<1>1. A = B
    OBVIOUS
<1>2. \A v \in A : F(v) = G(v)
    OBVIOUS
<1>3. ImageOf(s, a) = [v \in A |-> F(v)] /\ ImageOf(t, b) = [v \in B |-> G(v)]
    BY DEF ImageOf
<1> HIDE DEF A, B, F, G
<1>4. QED
    BY <1>1, <1>2, <1>3

(* A system call leaves the images of directories it does not touch.        *)
LEMMA ImagesKept ==
    ASSUME NEW s \in States, NEW own, NEW D, Layout(s, own, D), NEW t, NEW d, NEW K,
           Kept(s, own, t, D, d, K), \A g \in K : own[g][2] = "stack", NEW c \in D, c # d
    PROVE  ImageOf(t, c) = ImageOf(s, c)
<1>1. \A v \in UserVPs : Pte(t, c, v) = Pte(s, c, v)
    BY Places DEF Kept
<1>2. ASSUME NEW v \in UserVPs, Present(Pte(s, c, v))
      PROVE  t.mem[PageOf(Pte(s, c, v))] = s.mem[PageOf(Pte(s, c, v))]
  <2> DEFINE g == PageOf(Pte(s, c, v))
  <2>1. g \in Pages /\ own[g] = <<c, "page", v>> /\ own[g] # Spare /\ own[g][2] = "page"
      BY <1>2, UserPage
  <2>2. own[g][1] = c
      BY <2>1
  <2> HIDE DEF g
  <2>3. t.mem[g] = s.mem[g]
      BY <2>1, <2>2 DEF Kept
  <2>4. QED
      BY <2>3 DEF g
<1>3. QED
    BY <1>1, <1>2, ImageStays

(* What ImagesPrivate says of a step from s and pr to t and pr2.            *)
Private(s, pr, c, t, pr2) ==
    \A p \in LiveIn(pr) : pr2[p].pid = pr[p].pid =>
        /\ p # c => t.mem[pr2[p].kstack] = s.mem[pr[p].kstack]
        /\ ImageOf(t, pr2[p].pg_dir) # ImageOf(s, pr[p].pg_dir)
             => p = c /\ (t.mem[pr2[p].kstack] = s.mem[pr[p].kstack] \/ pr2[p].pg_dir # pr[p].pg_dir)

(* What it leaves is what ImagesPrivate asks for.                           *)
LEMMA KeptPrivate ==
    ASSUME NEW s \in States, NEW own, NEW pr, NEW kd, Book(s, own, pr, kd), NEW t, NEW d, NEW K,
           Kept(s, own, t, DirsIn(pr, kd), d, K), \A g \in K : own[g][2] = "stack",
           NEW c, NEW pr2,
           \A p \in LiveIn(pr) : pr2[p].pid = pr[p].pid =>
              /\ pr2[p].kstack = pr[p].kstack
              /\ pr2[p].pg_dir = pr[p].pg_dir => pr[p].pg_dir # d
              /\ p # c => pr2[p].pg_dir = pr[p].pg_dir /\ pr[p].kstack \notin K
    PROVE  Private(s, pr, c, t, pr2)
<1> DEFINE D == DirsIn(pr, kd)
<1>1. Layout(s, own, D) /\ StacksOwned(own, pr) /\ \A p \in LiveIn(pr) : pr[p].pg_dir \in D
    BY DEF Book, DirsIn
<1> HIDE DEF D
<1>2. ASSUME NEW p \in LiveIn(pr), pr2[p].pid = pr[p].pid
      PROVE  /\ p # c => t.mem[pr2[p].kstack] = s.mem[pr[p].kstack]
             /\ pr2[p].pg_dir = pr[p].pg_dir =>
                  ImageOf(t, pr2[p].pg_dir) = ImageOf(s, pr[p].pg_dir)
  <2>1. /\ pr2[p].kstack = pr[p].kstack
        /\ pr2[p].pg_dir = pr[p].pg_dir => pr[p].pg_dir # d
        /\ p # c => pr[p].kstack \notin K
      BY <1>2
  <2>2. ASSUME p # c PROVE t.mem[pr2[p].kstack] = s.mem[pr[p].kstack]
    <3> DEFINE k == pr[p].kstack
    <3>1. k \in Pages /\ own[k] = StackOf(p) /\ StackOf(p) # Spare /\ StackOf(p)[2] = "stack"
        BY <1>1 DEF StacksOwned, StackOf, Spare
    <3>2. k \notin K /\ pr2[p].kstack = k
        BY <2>1, <2>2
    <3> HIDE DEF k
    <3>3. t.mem[k] = s.mem[k]
        BY <3>1, <3>2 DEF Kept, Kinds, D
    <3>4. QED
        BY <3>2, <3>3 DEF k
  <2>3. ASSUME pr2[p].pg_dir = pr[p].pg_dir
        PROVE  ImageOf(t, pr2[p].pg_dir) = ImageOf(s, pr[p].pg_dir)
    <3>1. PICK a : a = pr[p].pg_dir
        OBVIOUS
    <3>2. a \in D /\ a # d
        BY <1>1, <2>1, <2>3, <3>1
    <3>3. ImageOf(t, a) = ImageOf(s, a)
        BY <1>1, <3>2, ImagesKept DEF D
    <3>4. QED
        BY <2>3, <3>1, <3>3
  <2>4. QED
      BY <2>2, <2>3
<1>3. QED
    BY <1>2 DEF Private

-----------------------------------------------------------------------------
(* The invariant                                                            *)

ProcSet == [state : {"UNUSED", "RUNNABLE", "RUNNING", "ZOMBIE"}, parent : 0 .. NPROC,
            pid : Nat, pg_dir : 0 .. NPages, mem_size : Nat, kstack : 0 .. NPages]

Typed ==
    /\ mem \in [Pages -> Words] /\ free \in SUBSET Pages
    /\ twice \in BOOLEAN /\ wild \in BOOLEAN
    /\ proc \in [Slots -> ProcSet]
    /\ cur \in 0 .. NPROC /\ nextpid \in 2 .. MaxPid + 1
    /\ cr3 \in Pages /\ esp0 \in 0 .. NPages /\ kdir \in Pages
    /\ \A p \in Slots : proc[p].state = "RUNNING" <=> p = cur
    /\ \A p \in Live : proc[p].mem_size \in W .. KernelBase
OnCpu ==
    /\ cr3 = IF cur = 0 THEN kdir ELSE proc[cur].pg_dir
    /\ cur # 0 => esp0 = proc[cur].kstack
Booked == SomeBook(Now, proc, kdir)
IInv == Typed /\ (~wild => Booked /\ OnCpu)

MemStep == ~wild' => Private(Now, proc, cur, Now', proc')

(* The state of the memory as a computation.                                *)
LEMMA NowStates ==
    /\ Typed => Now \in States /\ Now.ok
    /\ Live = LiveIn(proc) /\ Live' = LiveIn(proc')
    BY DEF Typed, Now, States, Live, LiveIn

(* A computation that has not stopped is its memory and its free list.      *)
LEMMA Whole ==
    ASSUME NEW t \in States, t.ok
    PROVE  t = [mem |-> t.mem, free |-> t.free, twice |-> t.twice, ok |-> TRUE]
    BY DEF States

(* Only the state of a process changes.                                     *)
SetState(pr, p, st) == [pr EXCEPT ![p].state = st]

(* A change of a process's state keeps its directory and its stack.         *)
LEMMA StateSet ==
    ASSUME NEW pr \in [Slots -> ProcSet], NEW p \in LiveIn(pr),
           NEW st \in {"RUNNABLE", "RUNNING", "ZOMBIE"}, NEW pr2, pr2 = SetState(pr, p, st)
    PROVE  /\ pr2 \in [Slots -> ProcSet] /\ SameProcs(pr, pr2) /\ pr2[p].state = st
           /\ \A q \in Slots : q # p => pr2[q] = pr[q]
<1>1. p \in Slots
    BY DEF LiveIn
<1>2. pr2[p] = [pr[p] EXCEPT !.state = st] /\ \A q \in Slots : q # p => pr2[q] = pr[q]
    BY <1>1 DEF SetState
<1>3. /\ pr2[p] \in ProcSet /\ pr2[p].state = st /\ pr2[p].pg_dir = pr[p].pg_dir
      /\ pr2[p].kstack = pr[p].kstack /\ pr2[p].mem_size = pr[p].mem_size
      /\ pr2[p].pid = pr[p].pid
    BY <1>1, <1>2 DEF ProcSet
<1>4. pr2 \in [Slots -> ProcSet]
    BY <1>2, <1>3 DEF SetState
<1>5. LiveIn(pr2) = LiveIn(pr)
    BY <1>1, <1>2, <1>3 DEF LiveIn
<1>6. ASSUME NEW q \in LiveIn(pr)
      PROVE  /\ pr2[q].pg_dir = pr[q].pg_dir /\ pr2[q].kstack = pr[q].kstack
             /\ pr2[q].mem_size = pr[q].mem_size /\ pr2[q].pid = pr[q].pid
  <2>1. CASE q = p
      BY <1>3, <2>1
  <2>2. CASE q # p
      BY <1>2, <2>2 DEF LiveIn
  <2>3. QED
      BY <2>1, <2>2
<1>7. SameProcs(pr, pr2)
    BY <1>5, <1>6 DEF SameProcs
<1>8. QED
    BY <1>2, <1>3, <1>4, <1>7

(* The scheduler's steps touch no memory.                                   *)
LEMMA SchedBook ==
    ASSUME Typed, Booked, SameProcs(proc, proc'), UNCHANGED <<mem, free, twice, kdir>>
    PROVE  Booked' /\ Private(Now, proc, cur, Now', proc')
<1>1. Now' = Now
    BY DEF Now
<1>2. PICK own : Book(Now, own, proc, kdir)
    BY DEF Booked, SomeBook
<1>3. Layout(Now, own, DirsIn(proc, kdir)) /\ SameViews(Now, Now, DirsIn(proc, kdir))
    BY <1>2 DEF Book, SameViews
<1>4. Book(Now, own, proc', kdir)
    BY <1>2, <1>3, BookKept
<1>5. Private(Now, proc, cur, Now, proc')
    BY DEF SameProcs, Private
<1>6. QED
    BY <1>1, <1>4, <1>5 DEF Booked, SomeBook

(* What the CPU uses, and that it exists.                                   *)
LEMMA CpuIs ==
    ASSUME Typed, Booked, OnCpu
    PROVE  /\ \A p \in Live : proc[p].pg_dir \in Pages /\ proc[p].kstack \in Pages
           /\ 0 \notin Slots /\ Live \subseteq Slots
           /\ cur # 0 => cur \in Live /\ cr3 = proc[cur].pg_dir /\ esp0 = proc[cur].kstack
           /\ cur = 0 => cr3 = kdir
<1>1. PICK own : Book(Now, own, proc, kdir)
    BY DEF Booked, SomeBook
<1>2. \A p \in Live : proc[p].pg_dir \in Pages /\ proc[p].kstack \in Pages
    BY <1>1, NowStates DEF Book, StacksOwned, DirsApart
<1>3. 0 \notin Slots /\ Live \subseteq Slots
    BY DEF Slots, Live
<1>4. cur # 0 => cur \in Live
  <2>1. cur # 0 => cur \in Slots
      BY ProcSizes DEF Typed, Slots
  <2>2. cur # 0 => proc[cur].state = "RUNNING"
      BY <2>1 DEF Typed
  <2>3. QED
      BY <2>1, <2>2 DEF Live
<1>5. QED
    BY <1>2, <1>3, <1>4 DEF OnCpu

(* The scheduler takes a process.                                           *)
LEMMA JoinStep ==
    ASSUME IInv, NEW p \in Slots, Join(p)
    PROVE  IInv' /\ MemStep
<1>1. /\ Typed /\ Booked /\ OnCpu /\ cur = 0 /\ cur' = p /\ p \in LiveIn(proc)
      /\ proc' = [proc EXCEPT ![p].state = "RUNNING"]
      /\ esp0' = proc[p].kstack /\ cr3' = proc[p].pg_dir
      /\ UNCHANGED <<mem, free, twice, kdir, nextpid, wild>>
    BY DEF IInv, Join, SwitchUvm, LiveIn
<1>2. /\ \A q \in Live : proc[q].pg_dir \in Pages /\ proc[q].kstack \in Pages
      /\ 0 \notin Slots /\ p \in Live
    BY <1>1, CpuIs, NowStates
<1>3. proc \in [Slots -> ProcSet]
    BY <1>1 DEF Typed
<1>4. /\ proc' \in [Slots -> ProcSet] /\ SameProcs(proc, proc') /\ proc'[p].state = "RUNNING"
      /\ \A q \in Slots : q # p => proc'[q] = proc[q]
  <2>1. PICK pr2 : pr2 = proc'
      OBVIOUS
  <2>2. pr2 = SetState(proc, p, "RUNNING")
      BY <1>1, <2>1 DEF SetState
  <2>3. /\ pr2 \in [Slots -> ProcSet] /\ SameProcs(proc, pr2) /\ pr2[p].state = "RUNNING"
        /\ \A q \in Slots : q # p => pr2[q] = proc[q]
      BY <1>1, <1>3, <2>2, StateSet
  <2>4. QED
      BY <2>1, <2>3
<1>5. Booked' /\ Private(Now, proc, cur, Now', proc')
    BY <1>1, <1>4, SchedBook
<1>6. \A q \in Slots : proc'[q].state = "RUNNING" <=> q = cur'
    BY <1>1, <1>2, <1>4 DEF Typed
<1>7. \A q \in Live' : proc'[q].mem_size \in W .. KernelBase
    BY <1>1, <1>4, NowStates DEF Typed, SameProcs
<1>8. p \in 0 .. NPROC /\ proc[p].kstack \in 0 .. NPages
    BY <1>2 DEF Slots, Pages
<1>9. Typed'
    BY <1>1, <1>2, <1>4, <1>6, <1>7, <1>8 DEF Typed
<1>10. OnCpu'
    BY <1>1, <1>2, <1>4 DEF OnCpu, SameProcs
<1>11. QED
    BY <1>5, <1>9, <1>10 DEF IInv, MemStep

(* A process leaves the CPU, by yield or exit.                              *)
LEMMA LeaveStep ==
    ASSUME IInv, ~wild, cur # 0, cur' = 0, NEW st \in {"RUNNABLE", "ZOMBIE"},
           proc' = [proc EXCEPT ![cur].state = st], SwitchKvm,
           UNCHANGED <<mem, free, twice, kdir, nextpid, wild>>
    PROVE  IInv' /\ MemStep
<1>1. Typed /\ Booked /\ OnCpu /\ esp0' = esp0 /\ cr3' = kdir
    BY DEF IInv, SwitchKvm
<1>2. cur \in Live /\ cur \in LiveIn(proc) /\ 0 \notin Slots
    BY <1>1, CpuIs, NowStates
<1>3. proc \in [Slots -> ProcSet]
    BY <1>1 DEF Typed
<1>4. /\ proc' \in [Slots -> ProcSet] /\ SameProcs(proc, proc') /\ proc'[cur].state = st
      /\ \A q \in Slots : q # cur => proc'[q] = proc[q]
  <2>1. PICK pr2 : pr2 = proc'
      OBVIOUS
  <2>2. pr2 = SetState(proc, cur, st)
      BY <2>1 DEF SetState
  <2>3. /\ pr2 \in [Slots -> ProcSet] /\ SameProcs(proc, pr2) /\ pr2[cur].state = st
        /\ \A q \in Slots : q # cur => pr2[q] = proc[q]
      BY <1>2, <1>3, <2>2, StateSet
  <2>4. QED
      BY <2>1, <2>3
<1>5. Booked' /\ Private(Now, proc, cur, Now', proc')
    BY <1>1, <1>4, SchedBook
<1>6. \A q \in Slots : proc'[q].state = "RUNNING" <=> q = cur'
    BY <1>1, <1>2, <1>4 DEF Typed
<1>7. \A q \in Live' : proc'[q].mem_size \in W .. KernelBase
    BY <1>1, <1>4, NowStates DEF Typed, SameProcs
<1>8. 0 \in 0 .. NPROC
    BY ProcSizes
<1>9. Typed'
    BY <1>1, <1>4, <1>6, <1>7, <1>8 DEF Typed
<1>10. OnCpu'
    BY <1>1 DEF OnCpu
<1>11. QED
    BY <1>5, <1>9, <1>10 DEF IInv, MemStep

(* A step of the process on the CPU that keeps it there.                    *)
LEMMA CallStep ==
    ASSUME IInv, ~wild, cur # 0, NEW t \in States, Commit(t), UNCHANGED <<cur, kdir>>,
           nextpid' \in 2 .. MaxPid + 1, proc' \in [Slots -> ProcSet],
           \A q \in Slots : proc'[q].state = "RUNNING" <=> q = cur,
           \A q \in LiveIn(proc') : proc'[q].mem_size \in W .. KernelBase,
           cr3' = proc'[cur].pg_dir, esp0' = proc'[cur].kstack, cr3' \in Pages,
           t.ok => /\ SomeBook(t, proc', kdir)
                   /\ Private(Now, proc, cur, t, proc')
    PROVE  IInv' /\ MemStep
<1>1. Typed /\ mem' = t.mem /\ free' = t.free /\ twice' = t.twice /\ (wild' <=> ~t.ok)
    BY DEF IInv, Commit
<1>2. t.mem \in [Pages -> Words] /\ t.free \in SUBSET Pages /\ t.twice \in BOOLEAN
    BY DEF States
<1>3. wild' \in BOOLEAN
    BY DEF Commit
<1>4. esp0' \in 0 .. NPages
  <2>1. cur \in Slots
      BY <1>1, ProcSizes DEF Typed, Slots
  <2>2. QED
      BY <2>1 DEF ProcSet
<1>5. Typed'
    BY <1>1, <1>2, <1>3, <1>4, NowStates DEF Typed
<1>6. OnCpu'
    BY DEF OnCpu
<1>7. ASSUME ~wild' PROVE Now' = t
  <2>1. t.ok
      BY <1>1, <1>7
  <2>2. QED
      BY <1>1, <2>1, Whole DEF Now
<1>8. ASSUME ~wild' PROVE Booked' /\ Private(Now, proc, cur, Now', proc')
  <2>1. t.ok
      BY <1>1, <1>8
  <2>2. QED
      BY <1>7, <1>8, <2>1 DEF Booked
<1>9. QED
    BY <1>5, <1>6, <1>8 DEF IInv, MemStep

(* User code writes its own page.                                           *)
LEMMA StoreStep ==
    ASSUME IInv, NEW vp \in StorePages, Store(vp)
    PROVE  IInv' /\ MemStep
<1> DEFINE g == PageOf(Pte(Now, cr3, vp))
<1> DEFINE t == PutWord(Now, g, 0, -2)
<1> DEFINE D == DirsIn(proc, kdir)
<1>1. /\ Typed /\ Booked /\ OnCpu /\ cur # 0 /\ ~wild /\ Present(Pte(Now, cr3, vp))
      /\ mem' = [mem EXCEPT ![g][0] = -2]
      /\ UNCHANGED <<free, twice, proc, cur, cr3, esp0, kdir, nextpid, wild>>
    BY DEF IInv, Store
<1>2. Now \in States /\ Now.ok /\ Live = LiveIn(proc)
    BY <1>1, NowStates
<1>3. cur \in LiveIn(proc) /\ cr3 = proc[cur].pg_dir /\ cr3 \in D /\ vp \in UserVPs
    BY <1>1, <1>2, CpuIs, StoreAssumption DEF DirsIn, UserVPs
<1>4. PICK own : Book(Now, own, proc, kdir)
    BY <1>1 DEF Booked, SomeBook
<1>5. Layout(Now, own, D)
    BY <1>4 DEF Book
<1> HIDE DEF D
<1>6. g \in Pages /\ own[g] = <<cr3, "page", vp>> /\ own[g][2] = "page"
    BY <1>1, <1>2, <1>3, <1>5, UserPage
<1>7. own[g][1] = cr3
    BY <1>6
<1> HIDE DEF g
<1>8. Now' = t /\ t.mem = mem'
  <2>1. PICK m : m = [mem EXCEPT ![g][0] = -2]
      OBVIOUS
  <2>2. t = [Now EXCEPT !.mem = m]
      BY <2>1 DEF PutWord, Now
  <2>3. t = [mem |-> m, free |-> free, twice |-> twice, ok |-> TRUE]
      BY <2>2 DEF Now
  <2> HIDE DEF t
  <2>4. mem' = m /\ free' = free /\ twice' = twice
      BY <1>1, <2>1
  <2>5. QED
      BY <2>3, <2>4 DEF Now
<1>9. Wrote(Now, t, g)
    BY <1>2, WriteWord
<1> HIDE DEF t
<1>10. Layout(t, own, D) /\ SameViews(Now, t, D)
    BY <1>2, <1>5, <1>6, <1>9, Written DEF SameViews
<1>11. SameProcs(proc, proc)
    BY DEF SameProcs
<1>12. Book(t, own, proc, kdir)
    BY <1>4, <1>10, <1>11, BookKept DEF D
<1>13. Kept(Now, own, t, D, cr3, {})
    BY <1>6, <1>7, <1>9, <1>10 DEF Kept, Wrote, SameViews, Kinds
<1>14. ASSUME NEW p \in LiveIn(proc), p # cur
       PROVE  ImageOf(t, proc[p].pg_dir) = ImageOf(Now, proc[p].pg_dir)
  <2>1. PICK a : a = proc[p].pg_dir
      OBVIOUS
  <2>2. a \in D /\ a # cr3
      BY <1>3, <1>4, <1>14, <2>1 DEF Book, DirsApart, DirsIn, D
  <2>3. \A k \in {} : own[k][2] = "stack"
      OBVIOUS
  <2>4. ImageOf(t, a) = ImageOf(Now, a)
      BY <1>2, <1>5, <1>13, <2>2, <2>3, ImagesKept
  <2>5. QED
      BY <2>1, <2>4
<1>15. ASSUME NEW p \in LiveIn(proc) PROVE t.mem[proc[p].kstack] = Now.mem[proc[p].kstack]
  <2>1. proc[p].kstack \in Pages /\ own[proc[p].kstack][2] = "stack"
      BY <1>4 DEF Book, StacksOwned, StackOf
  <2>2. QED
      BY <1>6, <1>9, <2>1 DEF Wrote
<1>16. Private(Now, proc, cur, t, proc)
    BY <1>14, <1>15 DEF Private
<1>17. t \in States /\ t.ok
    BY <1>2, <1>9 DEF Wrote
<1>18. Booked' /\ Private(Now, proc, cur, Now', proc')
    BY <1>1, <1>8, <1>12, <1>16 DEF Booked, SomeBook
<1>19. Typed'
  <2>1. mem' \in [Pages -> Words]
      BY <1>8, <1>17 DEF States
  <2>2. Live' = Live
      BY <1>1 DEF Live
  <2>3. QED
      BY <1>1, <2>1, <2>2 DEF Typed
<1>20. OnCpu'
    BY <1>1 DEF OnCpu
<1>21. QED
    BY <1>18, <1>19, <1>20 DEF IInv, MemStep

(* wait frees a zombie.                                                     *)
LEMMA WaitStep ==
    ASSUME IInv, NEW q \in Slots, Wait(q)
    PROVE  IInv' /\ MemStep
<1> DEFINE x == FreeStack(Now, proc[q].kstack)
<1> DEFINE y == FreeDir(x, proc[q].pg_dir)
<1> DEFINE v == proc[q].pid
<1> DEFINE t == PutWord(y, proc[cur].kstack, 2, v)
<1>1. /\ Typed /\ Booked /\ OnCpu /\ cur # 0 /\ ~wild /\ proc[q].state = "ZOMBIE"
      /\ Commit(t) /\ proc' = [proc EXCEPT ![q] = NoProc]
      /\ UNCHANGED <<cur, cr3, esp0, kdir, nextpid>>
    BY DEF IInv, Wait, Return, PutWord
<1>2. Now \in States /\ Now.ok /\ Live = LiveIn(proc) /\ Live' = LiveIn(proc')
    BY <1>1, NowStates
<1>3. /\ cur \in LiveIn(proc) /\ q \in LiveIn(proc) /\ cur \in Slots
      /\ cr3 = proc[cur].pg_dir /\ esp0 = proc[cur].kstack /\ cr3 \in Pages
    BY <1>1, <1>2, CpuIs DEF LiveIn
<1>4. proc \in [Slots -> ProcSet]
    BY <1>1 DEF Typed
<1>5. q # cur /\ v \in Int /\ NoProc \in ProcSet /\ NoProc.state = "UNUSED" /\ NoProc.pid = 0
  <2>1. q # cur
      BY <1>1 DEF Typed
  <2>2. proc[q] \in ProcSet /\ 0 \in 0 .. NPROC /\ 0 \in 0 .. NPages
      BY <1>4, ProcSizes, MemSizes
  <2>3. QED
      BY <2>1, <2>2 DEF ProcSet, NoProc
<1>6. /\ proc' \in [Slots -> ProcSet] /\ proc'[q] = NoProc
      /\ \A p \in Slots : p # q => proc'[p] = proc[p]
    BY <1>1, <1>4, <1>5
<1>7. Removed(proc, proc', q)
    BY <1>5, <1>6 DEF Removed, LiveIn
<1>8. PICK own : Book(Now, own, proc, kdir)
    BY <1>1 DEF Booked, SomeBook
<1>9. PICK pr2 : pr2 = proc'
    OBVIOUS
<1> HIDE DEF v
<1>10. /\ t \in States /\ t.ok /\ SomeBook(t, pr2, kdir)
       /\ WaitKept(Now, own, t, proc, kdir, cur, q)
  <2>1. Removed(proc, pr2, q)
      BY <1>7, <1>9
  <2>2. PICK x1, y1, t1 : x1 = x /\ y1 = y /\ t1 = t
      OBVIOUS
  <2>3. /\ x1 = FreeStack(Now, proc[q].kstack) /\ y1 = FreeDir(x1, proc[q].pg_dir)
        /\ t1 = PutWord(y1, proc[cur].kstack, 2, v)
      BY <2>2
  <2>4. /\ t1 \in States /\ t1.ok /\ SomeBook(t1, pr2, kdir)
        /\ WaitKept(Now, own, t1, proc, kdir, cur, q)
      BY <1>2, <1>3, <1>5, <1>8, <2>1, <2>3, WaitBook
  <2>5. QED
      BY <2>2, <2>4
<1> HIDE DEF t
<1>11. Private(Now, proc, cur, t, proc')
  <2> DEFINE K == {proc[cur].kstack, proc[q].kstack}
  <2>1. StacksOwned(own, proc) /\ DirsApart(proc, kdir)
      BY <1>8 DEF Book
  <2>2. \A p \in LiveIn(proc) : own[proc[p].kstack] = StackOf(p) /\ StackOf(p)[2] = "stack"
                                /\ StackOf(p)[3] = p
      BY <2>1 DEF StacksOwned, StackOf
  <2>3. \A g \in K : own[g][2] = "stack"
      BY <1>3, <2>2
  <2>4. ASSUME NEW p \in LiveIn(proc), proc'[p].pid = proc[p].pid
        PROVE  /\ proc'[p].kstack = proc[p].kstack
               /\ proc'[p].pg_dir = proc[p].pg_dir => proc[p].pg_dir # proc[q].pg_dir
               /\ p # cur => proc'[p].pg_dir = proc[p].pg_dir /\ proc[p].kstack \notin K
    <3>1. p \in Slots /\ proc[p].pid # 0
        BY <2>1, <2>4 DEF LiveIn, DirsApart
    <3>2. p # q
        BY <1>5, <1>6, <2>4, <3>1
    <3>3. proc'[p] = proc[p]
        BY <1>6, <3>1, <3>2
    <3>4. proc[p].pg_dir # proc[q].pg_dir
        BY <1>3, <2>1, <3>2 DEF DirsApart
    <3>5. p # cur => proc[p].kstack \notin K
        BY <1>3, <2>2, <3>2
    <3>6. QED
        BY <3>3, <3>4, <3>5
  <2>5. Kept(Now, own, t, DirsIn(proc, kdir), proc[q].pg_dir, K)
      BY <1>10 DEF WaitKept
  <2> HIDE DEF K
  <2>6. QED
      BY <1>2, <1>8, <2>3, <2>4, <2>5, KeptPrivate
<1>12. \A p \in Slots : proc'[p].state = "RUNNING" <=> p = cur
    BY <1>1, <1>5, <1>6 DEF Typed
<1>13. \A p \in LiveIn(proc') : proc'[p].mem_size \in W .. KernelBase
    BY <1>1, <1>2, <1>7 DEF Typed, Removed
<1>14. cr3' = proc'[cur].pg_dir /\ esp0' = proc'[cur].kstack
    BY <1>1, <1>3, <1>5, <1>6
<1>15. nextpid' \in 2 .. MaxPid + 1
    BY <1>1 DEF Typed
<1>16. QED
    BY <1>1, <1>3, <1>6, <1>9, <1>10, <1>11, <1>12, <1>13, <1>14, <1>15, CallStep

(* What fork does to the process table and, if it succeeds, to memory.      *)
ForkTo(q, stack, d, t) ==
    /\ q \in Slots /\ q \notin LiveIn(proc) /\ stack \in Pages /\ d \in Pages /\ Commit(t)
    /\ proc' = [proc EXCEPT ![q] =
                  [state |-> "RUNNABLE", parent |-> cur, pid |-> nextpid, pg_dir |-> d,
                   mem_size |-> proc[cur].mem_size, kstack |-> stack]]
    /\ proc' \in [Slots -> ProcSet] /\ Child(proc, proc', cur, q, stack, d)
    /\ t.ok => /\ SomeBook(t, proc', kdir)
               /\ \E own : /\ Book(Now, own, proc, kdir)
                           /\ Forked(Now, own, t, proc, kdir, cur, stack, d)
               /\ Frames(Now, t, stack, proc[cur].kstack, nextpid)

(* What a step of fork does to memory and processes.                        *)
LEMMA ForkDone ==
    ASSUME IInv, Fork
    PROVE  \E q, stack, d : \E t \in States : ForkTo(q, stack, d, t)
<1>1. Typed /\ Booked /\ OnCpu /\ cur # 0 /\ ~wild /\ nextpid <= MaxPid
    BY DEF IInv, Fork
<1>2. /\ Now \in States /\ Now.ok /\ Live = LiveIn(proc) /\ Live' = LiveIn(proc')
      /\ cur \in LiveIn(proc) /\ cur \in Slots
    BY <1>1, NowStates, CpuIs DEF LiveIn
<1>3. PICK q \in Slots :
         /\ proc[q].state = "UNUSED"
         /\ \E stack \in {NewStack(Now)} : \E dir \in {NewDir(stack.s)} :
            \E copy \in {Clone(dir.s, dir.pg, proc[cur].pg_dir, proc[cur].mem_size)} :
              /\ Commit(IF copy.ok
                        THEN Return(ForkFrame(copy, stack.pg, proc[cur].kstack), cur, nextpid)
                        ELSE Fail(Now))
              /\ proc' = [proc EXCEPT ![q] =
                   [state |-> "RUNNABLE", parent |-> cur, pid |-> nextpid,
                    pg_dir |-> dir.pg, mem_size |-> proc[cur].mem_size,
                    kstack |-> stack.pg]]
    BY Zenon DEF Fork
<1>4. PICK stack, dir, copy :
         /\ stack = NewStack(Now) /\ dir = NewDir(stack.s)
         /\ copy = Clone(dir.s, dir.pg, proc[cur].pg_dir, proc[cur].mem_size)
         /\ Commit(IF copy.ok
                   THEN Return(ForkFrame(copy, stack.pg, proc[cur].kstack), cur, nextpid)
                   ELSE Fail(Now))
         /\ proc' = [proc EXCEPT ![q] =
              [state |-> "RUNNABLE", parent |-> cur, pid |-> nextpid,
               pg_dir |-> dir.pg, mem_size |-> proc[cur].mem_size,
               kstack |-> stack.pg]]
    BY Zenon, <1>3
<1>5. PICK own : Book(Now, own, proc, kdir)
    BY <1>1 DEF Booked, SomeBook
<1> DEFINE D == DirsIn(proc, kdir)
<1> DEFINE src == proc[cur].pg_dir
<1> DEFINE size == proc[cur].mem_size
<1> DEFINE k == proc[cur].kstack
<1>6. /\ Layout(Now, own, D) /\ src \in D /\ Below(Now, src, size)
      /\ size \in W .. KernelBase /\ size \in Nat /\ size <= KernelBase
  <2>1. Below(Now, src, size) /\ size \in W .. KernelBase /\ Layout(Now, own, D) /\ src \in D
      BY <1>2, <1>5 DEF Book, Sizes, DirsIn
  <2>2. QED
      BY <2>1, MemSizes DEF KernelBase
<1>7. /\ stack.pg \in Pages /\ dir.pg \in Pages
      /\ copy.ok => copy \in States /\ ForkMem(Now, own, D, q, src, size, stack.pg, dir.pg, copy)
  <2>1. copy = Clone(dir.s, dir.pg, src, size)
      BY <1>4
  <2> HIDE DEF D, src, size
  <2>2. QED
      BY <1>2, <1>4, <1>6, <2>1, ForkCopies
<1> DEFINE rec == [state |-> "RUNNABLE", parent |-> cur, pid |-> nextpid, pg_dir |-> dir.pg,
                   mem_size |-> proc[cur].mem_size, kstack |-> stack.pg]
<1>8. /\ rec \in ProcSet /\ rec.state = "RUNNABLE" /\ rec.pid = nextpid /\ rec.pg_dir = dir.pg
      /\ rec.mem_size = size /\ rec.kstack = stack.pg
  <2>1. /\ nextpid \in Nat /\ cur \in 0 .. NPROC /\ size \in Nat
        /\ dir.pg \in 0 .. NPages /\ stack.pg \in 0 .. NPages
      BY <1>1, <1>6, <1>7 DEF Typed, Pages
  <2>2. QED
      BY <2>1 DEF ProcSet
<1>9. proc' = [proc EXCEPT ![q] = rec] /\ proc \in [Slots -> ProcSet]
    BY <1>1, <1>4 DEF Typed
<1> HIDE DEF rec
<1>10. /\ proc' \in [Slots -> ProcSet] /\ proc'[q] = rec /\ q \notin LiveIn(proc)
       /\ \A p \in Slots : p # q => proc'[p] = proc[p]
    BY <1>3, <1>8, <1>9 DEF LiveIn
<1>11. Child(proc, proc', cur, q, stack.pg, dir.pg)
  <2>1. nextpid \in Nat \ {0}
      BY <1>1 DEF Typed
  <2>2. LiveIn(proc') = LiveIn(proc) \cup {q}
      BY <1>8, <1>10 DEF LiveIn
  <2>3. \A p \in LiveIn(proc) : proc'[p] = proc[p]
      BY <1>10 DEF LiveIn
  <2>4. QED
      BY <1>8, <1>10, <2>1, <2>2, <2>3 DEF Child
<1>12. CASE ~copy.ok
  <2>1. Commit(Fail(Now)) /\ Fail(Now) \in States /\ Fail(Now).ok = FALSE
      BY <1>2, <1>4, <1>12, FailStops
  <2> DEFINE t == Fail(Now)
  <2>2. t \in States /\ Commit(t) /\ ~t.ok
      BY <2>1
  <2> HIDE DEF t
  <2>3. ForkTo(q, stack.pg, dir.pg, t)
      BY <1>7, <1>9, <1>10, <1>11, <2>2 DEF ForkTo, rec
  <2>4. QED
      BY <2>2, <2>3
<1>13. CASE copy.ok
  <2> DEFINE f == ForkFrame(copy, stack.pg, k)
  <2> DEFINE t == PutWord(f, k, 2, nextpid)
  <2>1. Commit(t)
      BY <1>4, <1>13 DEF Return, PutWord
  <2>2. PICK pr2, sp, d, f1, t1 : pr2 = proc' /\ sp = stack.pg /\ d = dir.pg /\ f1 = f /\ t1 = t
      OBVIOUS
  <2>3. f1 = ForkFrame(copy, sp, proc[cur].kstack) /\ t1 = PutWord(f1, proc[cur].kstack, 2, nextpid)
      BY <2>2
  <2>4. /\ Child(proc, pr2, cur, q, sp, d) /\ copy \in States /\ nextpid \in Int
        /\ ForkMem(Now, own, DirsIn(proc, kdir), q, proc[cur].pg_dir, proc[cur].mem_size, sp, d, copy)
      BY <1>1, <1>7, <1>11, <1>13, <2>2 DEF Typed
  <2>5. /\ t1 \in States /\ t1.ok /\ SomeBook(t1, pr2, kdir)
        /\ Forked(Now, own, t1, proc, kdir, cur, sp, d)
        /\ Frames(Now, t1, sp, proc[cur].kstack, nextpid)
      BY <1>2, <1>5, <1>10, <1>13, <2>3, <2>4, ForkBook
  <2>6. Commit(t1)
      BY <2>1, <2>2
  <2>7. ForkTo(q, sp, d, t1)
    <3>1. sp \in Pages /\ d \in Pages /\ Child(proc, proc', cur, q, sp, d)
        BY <1>7, <1>11, <2>2
    <3>2. proc' = [proc EXCEPT ![q] =
                     [state |-> "RUNNABLE", parent |-> cur, pid |-> nextpid, pg_dir |-> d,
                      mem_size |-> proc[cur].mem_size, kstack |-> sp]]
        BY <1>4, <2>2
    <3>3. SomeBook(t1, proc', kdir)
        BY <2>2, <2>5
    <3>4. QED
        BY <1>5, <1>10, <2>5, <2>6, <3>1, <3>2, <3>3 DEF ForkTo
  <2>8. QED
      BY <2>5, <2>7
<1>14. QED
    BY <1>12, <1>13

(* fork keeps the invariant.                                                *)
LEMMA ForkStep ==
    ASSUME IInv, Fork
    PROVE  IInv' /\ MemStep
<1>1. /\ Typed /\ Booked /\ OnCpu /\ cur # 0 /\ ~wild /\ nextpid <= MaxPid
      /\ nextpid' = nextpid + 1 /\ UNCHANGED <<cur, cr3, esp0, kdir>>
    BY DEF IInv, Fork
<1>2. /\ Now \in States /\ Now.ok /\ Live = LiveIn(proc) /\ Live' = LiveIn(proc')
      /\ cur \in LiveIn(proc) /\ cur \in Slots
      /\ cr3 = proc[cur].pg_dir /\ esp0 = proc[cur].kstack /\ cr3 \in Pages
    BY <1>1, NowStates, CpuIs DEF LiveIn
<1>3. PICK q, stack, d : \E t \in States : ForkTo(q, stack, d, t)
    BY ForkDone
<1>4. PICK t \in States : ForkTo(q, stack, d, t)
    BY <1>3
<1>5. /\ q \in Slots /\ q \notin LiveIn(proc) /\ Commit(t) /\ proc' \in [Slots -> ProcSet]
      /\ Child(proc, proc', cur, q, stack, d)
      /\ proc' = [proc EXCEPT ![q] =
                    [state |-> "RUNNABLE", parent |-> cur, pid |-> nextpid, pg_dir |-> d,
                     mem_size |-> proc[cur].mem_size, kstack |-> stack]]
    BY <1>4 DEF ForkTo
<1>6. /\ proc'[q].state = "RUNNABLE" /\ proc'[q].mem_size = proc[cur].mem_size
      /\ \A p \in Slots : p # q => proc'[p] = proc[p]
    BY <1>1, <1>5 DEF Typed
<1>7. q # cur /\ proc'[cur] = proc[cur]
    BY <1>2, <1>5, <1>6
<1>8. \A p \in Slots : proc'[p].state = "RUNNING" <=> p = cur
    BY <1>1, <1>6, <1>7 DEF Typed
<1>9. \A p \in LiveIn(proc') : proc'[p].mem_size \in W .. KernelBase
    BY <1>1, <1>2, <1>5, <1>6 DEF Typed, Child
<1>10. ASSUME t.ok PROVE Private(Now, proc, cur, t, proc')
  <2>1. PICK own : /\ Book(Now, own, proc, kdir)
                   /\ Forked(Now, own, t, proc, kdir, cur, stack, d)
      BY <1>4, <1>10 DEF ForkTo
  <2> DEFINE K == {proc[cur].kstack}
  <2>2. StacksOwned(own, proc) /\ DirsApart(proc, kdir)
      BY <2>1 DEF Book
  <2>3. \A p \in LiveIn(proc) : own[proc[p].kstack] = StackOf(p) /\ StackOf(p)[2] = "stack"
                                /\ StackOf(p)[3] = p
      BY <2>2 DEF StacksOwned, StackOf
  <2>4. \A g \in K : own[g][2] = "stack"
      BY <1>2, <2>3
  <2>5. ASSUME NEW p \in LiveIn(proc), proc'[p].pid = proc[p].pid
        PROVE  /\ proc'[p].kstack = proc[p].kstack
               /\ proc'[p].pg_dir = proc[p].pg_dir => proc[p].pg_dir # 0
               /\ p # cur => proc'[p].pg_dir = proc[p].pg_dir /\ proc[p].kstack \notin K
    <3>1. proc'[p] = proc[p]
        BY <1>5 DEF Child
    <3>2. proc[p].pg_dir # 0
        BY <2>2 DEF DirsApart, Pages
    <3>3. p # cur => proc[p].kstack \notin K
        BY <1>2, <2>3
    <3>4. QED
        BY <3>1, <3>2, <3>3
  <2>6. Kept(Now, own, t, DirsIn(proc, kdir), 0, K)
      BY <2>1 DEF Forked
  <2> HIDE DEF K
  <2>7. QED
      BY <1>2, <2>1, <2>4, <2>5, <2>6, KeptPrivate
<1>11. t.ok => SomeBook(t, proc', kdir)
    BY <1>4 DEF ForkTo
<1>12. nextpid' \in 2 .. MaxPid + 1
    BY <1>1, ProcSizes DEF Typed
<1>13. cr3' = proc'[cur].pg_dir /\ esp0' = proc'[cur].kstack /\ cr3' \in Pages
    BY <1>1, <1>2, <1>7
<1>14. QED
    BY <1>1, <1>5, <1>8, <1>9, <1>10, <1>11, <1>12, <1>13, CallStep

(* A call that fails, or gives up its image, and returns a number.          *)
LEMMA GiveUpStep ==
    ASSUME IInv, ~wild, cur # 0, NEW s \in States, NEW own, Book(Now, own, proc, kdir),
           s.ok => Undone(Now, own, DirsIn(proc, kdir), s),
           NEW v \in Int, Commit(PutWord(s, proc[cur].kstack, 2, v)),
           UNCHANGED <<proc, cur, cr3, esp0, kdir, nextpid>>
    PROVE  IInv' /\ MemStep
<1> DEFINE D == DirsIn(proc, kdir)
<1> DEFINE k == proc[cur].kstack
<1>1. Typed /\ Booked /\ OnCpu
    BY DEF IInv, Booked, SomeBook
<1>2. /\ Now \in States /\ Now.ok /\ Live = LiveIn(proc) /\ Live' = LiveIn(proc')
      /\ cur \in LiveIn(proc) /\ cr3 = proc[cur].pg_dir /\ esp0 = k /\ cr3 \in Pages
    BY <1>1, NowStates, CpuIs
<1>3. PICK t : t = PutWord(s, k, 2, v)
    OBVIOUS
<1>4. Wrote(s, t, k) /\ t \in States /\ (t.ok <=> s.ok)
    BY <1>3, WriteWord DEF Wrote
<1>5. Commit(t)
    BY <1>3
<1>6. SameProcs(proc, proc)
    BY DEF SameProcs
<1>7. ASSUME t.ok PROVE SomeBook(t, proc, kdir) /\ Private(Now, proc, cur, t, proc)
  <2>1. /\ Layout(s, own, D) /\ SameViews(Now, s, D)
        /\ \A g \in Pages : own[g] # Spare => s.mem[g] = Now.mem[g]
      BY <1>4, <1>7 DEF Undone, SameViews
  <2>2. Book(s, own, proc, kdir)
      BY <1>6, <2>1, BookKept
  <2>3. Book(t, own, proc, kdir) /\ SameViews(s, t, D)
      BY <1>2, <1>3, <2>2, ReturnBook
  <2>4. \A p \in LiveIn(proc) : own[proc[p].kstack] = StackOf(p) /\ StackOf(p)[2] = "stack"
                                /\ StackOf(p)[3] = p
      BY <2>2 DEF Book, StacksOwned, StackOf
  <2>5. \A p \in LiveIn(proc) : proc[p].pg_dir # 0
      BY <2>2 DEF Book, DirsApart, Pages
  <2> DEFINE K == {k}
  <2>6. Kept(Now, own, t, D, 0, K)
      BY <1>4, <2>1, <2>3 DEF Kept, Wrote, SameViews
  <2>7. /\ \A g \in K : own[g][2] = "stack"
        /\ \A p \in LiveIn(proc) : p # cur => proc[p].kstack \notin K
      BY <1>2, <2>4
  <2> HIDE DEF K, k
  <2>8. Private(Now, proc, cur, t, proc)
      BY <1>2, <2>5, <2>6, <2>7, KeptPrivate
  <2>9. QED
      BY <2>3, <2>8 DEF SomeBook
<1>8. /\ proc' = proc /\ proc \in [Slots -> ProcSet] /\ nextpid' \in 2 .. MaxPid + 1
      /\ \A q \in Slots : proc[q].state = "RUNNING" <=> q = cur
      /\ \A q \in LiveIn(proc) : proc[q].mem_size \in W .. KernelBase
    BY <1>1, <1>2 DEF Typed
<1>9. cr3' = proc'[cur].pg_dir /\ esp0' = proc'[cur].kstack /\ cr3' \in Pages
    BY <1>2, <1>8
<1>10. QED
    BY <1>4, <1>5, <1>7, <1>8, <1>9, CallStep

(* A call that panics.                                                      *)
LEMMA PanicStep ==
    ASSUME IInv, ~wild, cur # 0, Commit(Fail(Now)),
           UNCHANGED <<proc, cur, cr3, esp0, kdir, nextpid>>
    PROVE  IInv' /\ MemStep
<1>1. Typed /\ Booked /\ OnCpu
    BY DEF IInv
<1>2. /\ Now \in States /\ Live = LiveIn(proc) /\ Live' = LiveIn(proc')
      /\ cur \in LiveIn(proc) /\ cr3 = proc[cur].pg_dir /\ esp0 = proc[cur].kstack /\ cr3 \in Pages
    BY <1>1, NowStates, CpuIs
<1>3. PICK t : t = Fail(Now)
    OBVIOUS
<1>4. t \in States /\ Commit(t) /\ ~t.ok
    BY <1>2, <1>3, FailStops
<1>5. /\ proc' = proc /\ proc \in [Slots -> ProcSet] /\ nextpid' \in 2 .. MaxPid + 1
      /\ \A q \in Slots : proc[q].state = "RUNNING" <=> q = cur
      /\ \A q \in LiveIn(proc) : proc[q].mem_size \in W .. KernelBase
    BY <1>1, <1>2 DEF Typed
<1>6. cr3' = proc'[cur].pg_dir /\ esp0' = proc'[cur].kstack /\ cr3' \in Pages
    BY <1>2, <1>5
<1>7. QED
    BY <1>4, <1>5, <1>6, CallStep

(* exec puts the new image in the old one's place.                          *)
LEMMA ImageStep ==
    ASSUME IInv, ~wild, cur # 0, NEW prog \in Programs, NEW r, r = Load(Now, prog),
           r.dir # 0, r.s.ok,
           proc' = [proc EXCEPT ![cur].pg_dir = r.dir, ![cur].mem_size = r.sz],
           SwitchUvm(proc[cur].kstack, r.dir),
           Commit(Return(FreeDir(ExecFrame(r.s, proc[cur].kstack, prog.entry, r.sz - prog.args),
                                 proc[cur].pg_dir), cur, 0)),
           UNCHANGED <<cur, kdir, nextpid>>
    PROVE  IInv' /\ MemStep
<1> DEFINE k == proc[cur].kstack
<1> DEFINE D == DirsIn(proc, kdir)
<1>1. Typed /\ Booked /\ OnCpu
    BY DEF IInv
<1>2. /\ Now \in States /\ Now.ok /\ Live = LiveIn(proc) /\ Live' = LiveIn(proc')
      /\ cur \in LiveIn(proc) /\ cur \in Slots
    BY <1>1, NowStates, CpuIs DEF LiveIn
<1>3. PICK own : Book(Now, own, proc, kdir)
    BY <1>1 DEF Booked, SomeBook
<1>4. Layout(Now, own, D)
    BY <1>3 DEF Book
<1> HIDE DEF D
<1>5. r.s \in States /\ Loaded(Now, own, D, r)
    BY <1>2, <1>4, ImageLoaded
<1>6. /\ r.dir \in Pages \ D /\ Held(Now, own, D \cup {r.dir}, r.dir, r.s)
      /\ Below(r.s, r.dir, r.sz) /\ r.sz \in W .. KernelBase
    BY <1>5 DEF Loaded
<1>7. prog.entry \in Int /\ r.sz \in Nat /\ r.sz - prog.args \in Int
  <2>1. prog.entry \in Int /\ prog.args \in Nat
      BY FilesAssumption DEF Files
  <2>2. r.sz \in Nat
      BY <1>6, MemSizes DEF KernelBase
  <2>3. QED
      BY <2>1, <2>2
<1>8. PICK d, sz, x : d = r.dir /\ sz = r.sz /\ x = r.s
    OBVIOUS
<1>9. PICK sp, e : sp = r.sz - prog.args /\ e = ExecFrame(x, k, prog.entry, sp)
    OBVIOUS
<1>10. PICK y, t : y = FreeDir(e, proc[cur].pg_dir) /\ t = PutWord(y, k, 2, 0)
    OBVIOUS
<1>11. Commit(t)
    BY <1>8, <1>9, <1>10 DEF Return, PutWord
<1>12. PICK pr2 : pr2 = proc'
    OBVIOUS
<1>13. proc \in [Slots -> ProcSet] /\ proc[cur] \in ProcSet
    BY <1>1, <1>2 DEF Typed
<1>14. /\ pr2[cur] = [proc[cur] EXCEPT !.pg_dir = d, !.mem_size = sz]
       /\ \A p \in Slots : p # cur => pr2[p] = proc[p]
       /\ DOMAIN pr2 = Slots /\ pr2 = [p \in Slots |-> pr2[p]]
    BY <1>2, <1>8, <1>12, <1>13
<1>15. /\ pr2[cur].pg_dir = d /\ pr2[cur].mem_size = sz /\ pr2[cur].kstack = k
       /\ pr2[cur].pid = proc[cur].pid /\ pr2[cur].state = proc[cur].state
       /\ pr2[cur] \in ProcSet
  <2>1. PICK old : old = proc[cur]
      OBVIOUS
  <2>2. PICK new : new = pr2[cur]
      OBVIOUS
  <2>3. old \in ProcSet /\ new = [old EXCEPT !.pg_dir = d, !.mem_size = sz]
      BY <1>13, <1>14, <2>1, <2>2
  <2>4. d \in 0 .. NPages /\ sz \in Nat
      BY <1>6, <1>7, <1>8, MemSizes DEF Pages
  <2>5. /\ new.pg_dir = d /\ new.mem_size = sz /\ new.kstack = old.kstack
        /\ new.pid = old.pid /\ new.state = old.state /\ new \in ProcSet
      BY <2>3, <2>4 DEF ProcSet
  <2>6. QED
      BY <2>1, <2>2, <2>5
<1>16. pr2 \in [Slots -> ProcSet]
    BY <1>13, <1>14, <1>15
<1>17. LiveIn(pr2) = LiveIn(proc)
    BY <1>2, <1>14, <1>15 DEF LiveIn
<1>18. Moved(proc, pr2, cur, d, sz)
    BY <1>14, <1>15, <1>17 DEF Moved, LiveIn
<1>19. /\ x \in States /\ x.ok /\ d \in Pages \ DirsIn(proc, kdir)
       /\ Held(Now, own, DirsIn(proc, kdir) \cup {d}, d, x)
       /\ sz \in W .. KernelBase /\ Below(x, d, sz) /\ prog.entry \in Int /\ sp \in Int
    BY <1>5, <1>6, <1>7, <1>8, <1>9 DEF D
<1>20. e = ExecFrame(x, proc[cur].kstack, prog.entry, sp) /\ t = PutWord(y, proc[cur].kstack, 2, 0)
    BY <1>9, <1>10
<1>21. /\ t \in States /\ t.ok /\ SomeBook(t, pr2, kdir)
       /\ ExecKept(Now, own, t, proc, kdir, cur)
    BY <1>2, <1>3, <1>10, <1>18, <1>19, <1>20, ExecBook
<1>22. Private(Now, proc, cur, t, pr2)
  <2> DEFINE K == {proc[cur].kstack}
  <2>1. StacksOwned(own, proc) /\ DirsApart(proc, kdir)
      BY <1>3 DEF Book
  <2>2. \A p \in LiveIn(proc) : own[proc[p].kstack] = StackOf(p) /\ StackOf(p)[2] = "stack"
                                /\ StackOf(p)[3] = p
      BY <2>1 DEF StacksOwned, StackOf
  <2>3. \A g \in K : own[g][2] = "stack"
      BY <1>2, <2>2
  <2>4. d # proc[cur].pg_dir
      BY <1>2, <1>19 DEF DirsIn
  <2>5. ASSUME NEW p \in LiveIn(proc), pr2[p].pid = proc[p].pid
        PROVE  /\ pr2[p].kstack = proc[p].kstack
               /\ pr2[p].pg_dir = proc[p].pg_dir => proc[p].pg_dir # proc[cur].pg_dir
               /\ p # cur => pr2[p].pg_dir = proc[p].pg_dir /\ proc[p].kstack \notin K
    <3>1. CASE p = cur
        BY <1>15, <2>4, <3>1
    <3>2. CASE p # cur
      <4>1. pr2[p] = proc[p]
          BY <1>18, <3>2 DEF Moved
      <4>2. proc[p].kstack \notin K
          BY <1>2, <2>2, <3>2
      <4>3. proc[p].pg_dir # proc[cur].pg_dir
          BY <1>2, <2>1, <3>2 DEF DirsApart
      <4>4. QED
          BY <3>2, <4>1, <4>2, <4>3
    <3>3. QED
        BY <3>1, <3>2
  <2>6. Kept(Now, own, t, DirsIn(proc, kdir), proc[cur].pg_dir, K)
      BY <1>21 DEF ExecKept
  <2> HIDE DEF K
  <2>7. QED
      BY <1>2, <1>3, <2>3, <2>5, <2>6, KeptPrivate
<1>23. \A p \in Slots : pr2[p].state = "RUNNING" <=> p = cur
    BY <1>1, <1>14, <1>15 DEF Typed
<1>24. \A p \in LiveIn(pr2) : pr2[p].mem_size \in W .. KernelBase
  <2>1. ASSUME NEW p \in LiveIn(pr2) PROVE pr2[p].mem_size \in W .. KernelBase
    <3>1. CASE p = cur
        BY <1>15, <1>19, <3>1
    <3>2. CASE p # cur
        BY <1>1, <1>2, <1>17, <1>18, <2>1, <3>2 DEF Typed, Moved
    <3>3. QED
        BY <3>1, <3>2
  <2>2. QED
      BY <2>1
<1>25. cr3' = proc'[cur].pg_dir /\ esp0' = proc'[cur].kstack /\ cr3' \in Pages
    BY <1>8, <1>12, <1>15, <1>19 DEF SwitchUvm
<1>26. nextpid' \in 2 .. MaxPid + 1
    BY <1>1 DEF Typed
<1>27. QED
    BY <1>11, <1>12, <1>16, <1>21, <1>22, <1>23, <1>24, <1>25, <1>26, CallStep

(* exec keeps the invariant, whether or not it succeeds.                    *)
LEMMA ExecStep ==
    ASSUME IInv, NEW prog \in Programs, Exec(prog)
    PROVE  IInv' /\ MemStep
<1>1. PICK r : r = Load(Now, prog)
    OBVIOUS
<1> DEFINE keep == UNCHANGED <<proc, cr3, esp0>>
<1> DEFINE k == proc[cur].kstack
<1>2. /\ ~wild /\ cur # 0 /\ UNCHANGED <<cur, kdir, nextpid>>
      /\ \/ ~prog.found /\ keep /\ Commit(Fail(Now))
         \/ prog.found /\ ~prog.magic /\ keep /\ Commit(Return(Now, cur, -1))
         \/ ~(r.dir # 0 /\ r.s.ok) /\ keep /\ Commit(Return(r.s, cur, -1))
         \/ /\ r.dir # 0 /\ r.s.ok
            /\ proc' = [proc EXCEPT ![cur].pg_dir = r.dir, ![cur].mem_size = r.sz]
            /\ SwitchUvm(proc[cur].kstack, r.dir)
            /\ Commit(Return(FreeDir(ExecFrame(r.s, proc[cur].kstack, prog.entry, r.sz - prog.args),
                                     proc[cur].pg_dir), cur, 0))
    BY Zenon, <1>1 DEF Exec
<1>3. Typed /\ Booked /\ Now \in States /\ Now.ok
    BY <1>2, NowStates DEF IInv
<1>4. PICK own : Book(Now, own, proc, kdir)
    BY <1>3 DEF Booked, SomeBook
<1>5. Layout(Now, own, DirsIn(proc, kdir))
    BY <1>4 DEF Book
<1>6. CASE ~prog.found /\ keep /\ Commit(Fail(Now))
    BY <1>2, <1>6, PanicStep
<1>7. CASE keep /\ Commit(Return(Now, cur, -1))
  <2>1. PICK v : v = -1
      OBVIOUS
  <2>2. Commit(PutWord(Now, k, 2, v)) /\ v \in Int
      BY <1>7, <2>1 DEF Return, PutWord
  <2>3. Undone(Now, own, DirsIn(proc, kdir), Now)
      BY <1>3, <1>5 DEF Undone
  <2>4. QED
      BY <1>2, <1>3, <1>4, <1>7, <2>2, <2>3, GiveUpStep
<1>8. CASE ~(r.dir # 0 /\ r.s.ok) /\ keep /\ Commit(Return(r.s, cur, -1))
  <2>1. PICK v, s : v = -1 /\ s = r.s
      OBVIOUS
  <2>2. Commit(PutWord(s, k, 2, v)) /\ v \in Int
      BY <1>8, <2>1 DEF Return, PutWord
  <2>3. r.s \in States /\ (r.s.ok => Loaded(Now, own, DirsIn(proc, kdir), r))
      BY <1>1, <1>3, <1>5, ImageLoaded
  <2>4. s \in States /\ (s.ok => Undone(Now, own, DirsIn(proc, kdir), s))
    <3>1. ASSUME s.ok PROVE Undone(Now, own, DirsIn(proc, kdir), s)
      <4>1. r.dir = 0 /\ r.dir \notin Pages
          BY <1>8, <2>1, <3>1 DEF Pages
      <4>2. QED
          BY <2>1, <2>3, <3>1, <4>1 DEF Loaded
    <3>2. QED
        BY <2>1, <2>3, <3>1
  <2>5. QED
      BY <1>2, <1>4, <1>8, <2>2, <2>4, GiveUpStep
<1>9. CASE /\ r.dir # 0 /\ r.s.ok
           /\ proc' = [proc EXCEPT ![cur].pg_dir = r.dir, ![cur].mem_size = r.sz]
           /\ SwitchUvm(proc[cur].kstack, r.dir)
           /\ Commit(Return(FreeDir(ExecFrame(r.s, proc[cur].kstack, prog.entry, r.sz - prog.args),
                                    proc[cur].pg_dir), cur, 0))
    BY Zenon, <1>1, <1>2, <1>9, ImageStep
<1>10. QED
    BY <1>2, <1>6, <1>7, <1>8, <1>9

-----------------------------------------------------------------------------
(* Boot                                                                     *)

(* What boot leaves of the pages: the kernel's directory kd, and the stack, *)
(* the directory d and the page of the first process.                       *)
BootMem(s, own, kd, d, stk) ==
    /\ d # kd /\ Layout(s, own, {kd, d}) /\ KernelIn(s, kd) /\ KernelIn(s, d)
    /\ \A v \in UserVPs : Present(Pte(s, d, v)) => v = 0
    /\ stk \in Pages /\ own[stk] = StackOf(1)
    /\ \A g \in Pages : /\ own[g][2] = "stack" => g = stk
                        /\ own[g][2] # "hand" /\ (own[g][2] = "free" => own[g] = Spare)

(* The kernel's directory and the stack.                                    *)
StackBoot(s, own, kd, stk) ==
    /\ Layout(s, own, {kd}) /\ KernelIn(s, kd) /\ own[stk] = StackOf(1)
    /\ \A g \in Pages : g # stk => own[g] = Spare \/ own[g][2] \in Kinds

(* Nothing is owned before boot.                                            *)
LEMMA EmptyLayout ==
    ASSUME NEW s \in States, s.free = Pages, s.twice = FALSE
    PROVE  Layout(s, [g \in Pages |-> Spare], {})
<1> DEFINE own == [g \in Pages |-> Spare]
<1>1. Spare \in Role /\ Spare[2] = "free"
    BY MemSizes DEF Spare, Role
<1>2. own \in [Pages -> Role] /\ \A g \in Pages : own[g] = Spare /\ own[g][2] = "free"
    BY <1>1
<1> HIDE DEF own
<1>3. DirsOwned(own, {}) /\ TablesOwned(s, own, {}) /\ PagesOwned(s, own, {})
    BY <1>2 DEF DirsOwned, TablesOwned, PagesOwned
<1>4. Layout(s, own, {})
    BY <1>2, <1>3 DEF Layout
<1>5. QED
    BY <1>4 DEF own

(* After mm_init and arch_init_proc.                                        *)
LEMMA StackBooted ==
    ASSUME NEW s0 \in States, s0.free = Pages, s0.twice = FALSE, 1 \in Slots,
           NEW kern, kern = NewDir(s0), NEW stack, stack = NewStack(kern.s)
    PROVE  /\ kern.pg \in Pages /\ stack.pg \in Pages /\ stack.s \in States
           /\ stack.s.ok => \E own : StackBoot(stack.s, own, kern.pg, stack.pg)
<1> DEFINE own0 == [g \in Pages |-> Spare]
<1>1. Layout(s0, own0, {}) /\ \A g \in Pages : own0[g] = Spare
    BY EmptyLayout
<1> HIDE DEF own0
<1>2. PICK kd, ks : kd = kern.pg /\ ks = kern.s
    OBVIOUS
<1>3. PICK E : E = {}
    OBVIOUS
<1>4. kd \in Pages /\ ks \in States /\ (ks.ok => DirNew(s0, own0, E, kd, ks))
    BY <1>1, <1>2, <1>3, DirMade
<1>5. ks.ok => /\ \E own2 : Layout(ks, own2, {kd}) /\ Grows(s0, own0, ks, own2, kd)
               /\ KernelIn(ks, kd)
  <2>1. E \cup {kd} = {kd}
      BY <1>3
  <2>2. QED
      BY <1>4, <2>1 DEF DirNew
<1>6. PICK own1 : ks.ok => Layout(ks, own1, {kd}) /\ Grows(s0, own0, ks, own1, kd)
    BY <1>5
<1>7. PICK D, q, stk, ss : D = {kd} /\ q = 1 /\ stk = stack.pg /\ ss = stack.s
    OBVIOUS
<1>8. /\ stk \in Pages /\ ss \in States
      /\ ss.ok => /\ ks.ok /\ own1[stk] = Spare /\ SameViews(ks, ss, D)
                  /\ Layout(ss, Give(own1, stk, StackOf(q)), D)
  <2>1. stack = NewStack(ks) /\ q \in Slots /\ (ks.ok => Layout(ks, own1, D))
      BY <1>2, <1>6, <1>7
  <2>2. /\ stack.pg \in Pages /\ stack.s \in States
        /\ stack.s.ok => /\ ks.ok /\ own1[stack.pg] = Spare /\ SameViews(ks, stack.s, D)
                         /\ Layout(stack.s, Give(own1, stack.pg, StackOf(q)), D)
      BY <1>4, <2>1, StackTaken
  <2>3. QED
      BY <1>7, <2>2
<1>9. ASSUME ss.ok PROVE \E own : StackBoot(ss, own, kd, stk)
  <2>1. PICK own : own = Give(own1, stk, StackOf(q))
      OBVIOUS
  <2>2. own1 \in [Pages -> Role] /\ StackOf(q) \in Role
      BY <1>6, <1>7, <1>8, <1>9, StackRole DEF Layout
  <2>3. own[stk] = StackOf(q) /\ \A g \in Pages : g # stk => own[g] = own1[g]
      BY <1>8, <2>1, <2>2, Given
  <2>4. Layout(ss, own, D) /\ SameViews(ks, ss, D) /\ KernelIn(ks, kd) /\ kd \in D
      BY <1>5, <1>7, <1>8, <1>9, <2>1
  <2>5. KernelIn(ss, kd)
      BY <2>4, ViewsStay
  <2>6. \A g \in Pages : own1[g] = Spare \/ own1[g][2] \in Kinds
      BY <1>1, <1>6, <1>8, <1>9 DEF Grows
  <2>7. StackBoot(ss, own, kd, stk)
      BY <1>7, <2>3, <2>4, <2>5, <2>6 DEF StackBoot
  <2>8. QED
      BY <2>7
<1>10. QED
    BY <1>2, <1>4, <1>7, <1>8, <1>9

(* The first process's directory.                                           *)
DirBoot(s, own, kd, d, stk) ==
    /\ d # kd /\ Layout(s, own, {kd, d}) /\ KernelIn(s, kd) /\ KernelIn(s, d)
    /\ \A v \in UserVPs : Pte(s, d, v) = 0
    /\ own[stk] = StackOf(1) /\ \A g \in Pages : g # stk => own[g] = Spare \/ own[g][2] \in Kinds

(* After the first process's vm_alloc_pg_dir.                               *)
LEMMA DirBooted ==
    ASSUME NEW s \in States, NEW kd \in Pages, NEW stk \in Pages,
           s.ok => \E own : StackBoot(s, own, kd, stk), NEW dir, dir = NewDir(s)
    PROVE  /\ dir.pg \in Pages /\ dir.s \in States
           /\ dir.s.ok => \E own : DirBoot(dir.s, own, kd, dir.pg, stk)
<1>1. PICK own : s.ok => StackBoot(s, own, kd, stk)
    OBVIOUS
<1>2. PICK D, d, u : D = {kd} /\ d = dir.pg /\ u = dir.s
    OBVIOUS
<1>3. s.ok => Layout(s, own, D)
    BY <1>1, <1>2 DEF StackBoot
<1>4. d \in Pages /\ u \in States /\ (u.ok => DirNew(s, own, D, d, u))
    BY <1>2, <1>3, DirMade
<1>5. ASSUME u.ok PROVE \E own2 : DirBoot(u, own2, kd, d, stk)
  <2>1. /\ s.ok /\ d # kd /\ KernelIn(u, d) /\ \A v \in UserVPs : Pte(u, d, v) = 0
        /\ SameViews(s, u, D) /\ kd \in D
      BY <1>2, <1>4, <1>5 DEF DirNew, SameViews
  <2>2. D \cup {d} = {kd, d}
      BY <1>2
  <2>3. PICK own2 : Layout(u, own2, {kd, d}) /\ Grows(s, own, u, own2, d)
      BY <1>4, <1>5, <2>2 DEF DirNew
  <2>4. KernelIn(u, kd)
      BY <1>1, <2>1, ViewsStay DEF StackBoot
  <2>5. own2[stk] = StackOf(1)
    <3>1. StackOf(1) # Spare
        BY DEF StackOf, Spare
    <3>2. QED
        BY <1>1, <2>1, <2>3, <3>1 DEF StackBoot, Grows
  <2>6. \A g \in Pages : g # stk => own2[g] = Spare \/ own2[g][2] \in Kinds
    <3>1. ASSUME NEW g \in Pages, g # stk PROVE own2[g] = Spare \/ own2[g][2] \in Kinds
      <4>1. own[g] = Spare \/ own[g][2] \in Kinds
          BY <1>1, <2>1, <3>1 DEF StackBoot
      <4>2. QED
          BY <2>3, <4>1 DEF Grows
    <3>2. QED
        BY <3>1
  <2>7. DirBoot(u, own2, kd, d, stk)
      BY <2>1, <2>3, <2>4, <2>5, <2>6 DEF DirBoot
  <2>8. QED
      BY <2>7
<1>6. QED
    BY <1>2, <1>4, <1>5

(* initcode is put into a page, the first trap frame onto the stack.        *)
CodePut(s, pg) == PutWord(s, pg, 0, -1)

(* After initcode and the first trap frame are written.                     *)
LEMMA CodePlaced ==
    ASSUME NEW s \in States, NEW kd \in Pages, NEW d \in Pages, NEW stk \in Pages,
           s.ok => \E own : DirBoot(s, own, kd, d, stk), NEW code, code = Alloc(s),
           NEW u, u = InitFrame(CodePut(code.s, code.pg), stk)
    PROVE  /\ code.pg \in Pages /\ u \in States
           /\ u.ok => \E own : /\ s.ok /\ DirBoot(s, own, kd, d, stk) /\ own[code.pg] = Spare
                               /\ Layout(u, Give(own, code.pg, InHand), {kd, d})
                               /\ SameViews(s, u, {kd, d})
<1>1. PICK own : s.ok => DirBoot(s, own, kd, d, stk)
    OBVIOUS
<1>2. PICK D, pg, c : D = {kd, d} /\ pg = code.pg /\ c = code.s
    OBVIOUS
<1>3. s.ok => Layout(s, own, D)
    BY <1>1, <1>2 DEF DirBoot
<1>4. /\ pg \in Pages /\ c \in States
      /\ c.ok => /\ s.ok /\ own[pg] = Spare /\ Layout(c, Give(own, pg, InHand), D)
                 /\ \A e \in D : Alike(s, c, e)
    BY <1>2, <1>3, PageTaken
<1>5. PICK v, x, a : v = -1 /\ x = [i \in 0 .. W - 1 |-> IF i = 1 THEN W ELSE 0] /\ a = PutWord(c, pg, 0, v)
    OBVIOUS
<1>6. v \in Int /\ x \in Words
    BY <1>5, MemSizes DEF Words
<1>7. Wrote(c, a, pg) /\ a \in States
    BY <1>4, <1>5, <1>6, WriteWord DEF Wrote
<1>8. u = PutPage(a, stk, x)
    BY <1>2, <1>5 DEF InitFrame, PutPage, CodePut
<1>9. Wrote(a, u, stk) /\ u \in States
    BY <1>6, <1>7, <1>8, WritePage DEF Wrote
<1>10. ASSUME u.ok
       PROVE  /\ s.ok /\ own[pg] = Spare /\ Layout(u, Give(own, pg, InHand), D)
              /\ SameViews(s, u, D)
  <2>1. c.ok
      BY <1>7, <1>9, <1>10 DEF Wrote
  <2>2. PICK own2 : own2 = Give(own, pg, InHand)
      OBVIOUS
  <2>3. own \in [Pages -> Role] /\ InHand \in Role
      BY <1>3, <1>4, <2>1, Apartness DEF Layout
  <2>4. own2[pg] = InHand /\ \A g \in Pages : g # pg => own2[g] = own[g]
    <3>1. pg \in Pages
        BY <1>4
    <3>2. PICK role : role = InHand
        OBVIOUS
    <3>3. role \in Role /\ own2 = Give(own, pg, role)
        BY <2>2, <2>3, <3>2
    <3>4. own \in [Pages -> Role] /\ role \in Role
        BY <2>3, <3>3
    <3>5. Give(own, pg, role)[pg] = role
        BY <3>1, <3>4, Given
    <3>6. \A g \in Pages : g # pg => Give(own, pg, role)[g] = own[g]
        BY <3>1, <3>4, Given
    <3>7. QED
        BY <3>2, <3>3, <3>5, <3>6
  <2>5. InHand[2] = "hand" /\ StackOf(1)[2] = "stack" /\ StackOf(1) # Spare
      BY DEF InHand, StackOf, Spare
  <2>6. own2[stk][2] = "stack"
      BY <1>1, <1>4, <2>1, <2>4, <2>5 DEF DirBoot
  <2>7. Layout(c, own2, D)
      BY <1>4, <2>1, <2>2
  <2>8. Layout(a, own2, D) /\ SameViews(c, a, D)
      BY <1>4, <1>7, <2>4, <2>5, <2>7, Written DEF SameViews
  <2>9. Layout(u, own2, D) /\ SameViews(a, u, D)
      BY <1>7, <1>9, <2>6, <2>8, Written DEF SameViews
  <2>10. SameViews(s, c, D)
      BY <1>4, <2>1 DEF Alike, SameViews
  <2>11. SameViews(s, u, D)
      BY <2>8, <2>9, <2>10 DEF SameViews
  <2>12. QED
      BY <1>4, <2>1, <2>2, <2>9, <2>11
<1>11. QED
    BY <1>1, <1>2, <1>4, <1>9, <1>10

(* After initcode is mapped.                                                *)
LEMMA CodeMapped ==
    ASSUME NEW s \in States, NEW kd \in Pages, NEW d \in Pages, NEW stk \in Pages,
           s.ok => \E own : DirBoot(s, own, kd, d, stk), NEW code, code = Alloc(s),
           NEW t, t = PrepareUsrProc(stk, d, code)
    PROVE  t \in States /\ (t.ok => \E own : BootMem(t, own, kd, d, stk))
<1>1. PICK u : u = InitFrame(CodePut(code.s, code.pg), stk)
    OBVIOUS
<1>2. PICK D, pg, zero, yes : D = {kd, d} /\ pg = code.pg /\ zero = 0 /\ yes = TRUE
    OBVIOUS
<1>3. t = Map(u, d, zero, pg, yes)
    BY <1>1, <1>2 DEF PrepareUsrProc, CodePut, PutWord
<1>4. /\ pg \in Pages /\ u \in States
      /\ u.ok => \E own : /\ s.ok /\ DirBoot(s, own, kd, d, stk) /\ own[pg] = Spare
                          /\ Layout(u, Give(own, pg, InHand), D) /\ SameViews(s, u, D)
    BY <1>1, <1>2, CodePlaced
<1>5. PICK own : u.ok => /\ s.ok /\ DirBoot(s, own, kd, d, stk) /\ own[pg] = Spare
                         /\ Layout(u, Give(own, pg, InHand), D) /\ SameViews(s, u, D)
    BY <1>4
<1>6. PICK own1 : own1 = Give(own, pg, InHand)
    OBVIOUS
<1>7. u.ok => own1[pg] = InHand /\ \A g \in Pages : g # pg => own1[g] = own[g]
  <2>1. ASSUME u.ok PROVE own \in [Pages -> Role] /\ InHand \in Role
      BY <1>4, <1>5, <2>1, Apartness DEF Layout, DirBoot
  <2>2. QED
      BY <1>4, <1>6, <2>1, Given
<1>8. KernelPage \in Nat /\ KernelPage > 0
    BY MemSizes DEF KernelPage
<1>9. zero \in UserVPs /\ yes \in BOOLEAN /\ d \in D
    BY <1>2, <1>8 DEF UserVPs
<1>10. u.ok => Layout(u, own1, D)
    BY <1>5, <1>6
<1>11. t \in States /\ (t.ok => UserMap(u, own1, D, d, zero, pg, yes, t))
    BY <1>3, <1>4, <1>7, <1>9, <1>10, UserMapped
<1>12. ASSUME t.ok PROVE \E own3 : BootMem(t, own3, kd, d, stk)
  <2>1. u.ok
      BY <1>11, <1>12 DEF UserMap
  <2>2. PICK own3 : /\ Layout(t, own3, D) /\ own3[pg] = <<d, "page", zero>>
                    /\ BuildsBut(u, own1, t, own3, d, pg)
      BY <1>11, <1>12 DEF UserMap
  <2>3. \A c \in D, v \in VPs : Pte(t, c, v) =
           IF c = d /\ v = zero THEN Entry(pg, yes) ELSE Pte(u, c, v)
      BY <1>11, <1>12 DEF UserMap
  <2>4. /\ d # kd /\ KernelIn(s, kd) /\ KernelIn(s, d) /\ \A v \in UserVPs : Pte(s, d, v) = 0
        /\ own[stk] = StackOf(1) /\ SameViews(s, u, D)
        /\ \A g \in Pages : g # stk => own[g] = Spare \/ own[g][2] \in Kinds
      BY <1>5, <2>1 DEF DirBoot
  <2>5. KernelIn(t, kd)
    <3>1. kd \in D /\ kd # d /\ SameViews(s, u, D) /\ KernelIn(s, kd)
        BY <1>2, <2>4
    <3>2. PICK E : E = {kd}
        OBVIOUS
    <3>3. \A v \in VPs : Pte(t, kd, v) = Pte(s, kd, v)
        BY <2>3, <3>1 DEF SameViews
    <3>4. SameViews(s, t, E) /\ kd \in E
        BY <3>2, <3>3 DEF SameViews
    <3>5. QED
        BY <3>1, <3>4, ViewsStay
  <2>6. KernelIn(t, d)
    <3>1. ASSUME NEW i \in 0 .. W - 1 PROVE Pte(t, d, KernelPage + i) = Entry(i + 1, FALSE)
      <4>1. PICK v : v = KernelPage + i
          OBVIOUS
      <4>2. v \in VPs /\ v # zero
          BY <1>2, <1>8, <4>1, Places
      <4>3. Pte(t, d, v) = Pte(s, d, v)
          BY <1>9, <2>3, <2>4, <4>2 DEF SameViews
      <4>4. QED
          BY <2>4, <4>1, <4>3 DEF KernelIn
    <3>2. QED
        BY <3>1 DEF KernelIn
  <2>7. ASSUME NEW v \in UserVPs, Present(Pte(t, d, v)) PROVE v = 0
    <3>1. v \in VPs
        BY Places
    <3>2. CASE v # 0
      <4>1. Pte(t, d, v) = 0
          BY <1>2, <1>9, <2>3, <2>4, <3>1, <3>2 DEF SameViews
      <4>2. QED
          BY <2>7, <4>1, Entries
    <3>3. QED
        BY <3>2
  <2>8. StackOf(1) # Spare /\ StackOf(1)[2] = "stack" /\ Spare[2] = "free" /\ stk # pg
      BY <1>5, <2>1, <2>4 DEF StackOf, Spare
  <2>9. ASSUME NEW g \in Pages, g # pg
        PROVE  /\ own[g] # Spare => own3[g] = own[g]
               /\ own[g] = Spare => own3[g] = Spare \/ own3[g][2] \in Kinds
    <3>1. own1[g] = own[g]
        BY <1>7, <2>1, <2>9
    <3>2. QED
        BY <2>2, <2>9, <3>1 DEF BuildsBut, Builds, Kinds
  <2>10. own3[stk] = StackOf(1)
      BY <2>4, <2>8, <2>9
  <2>11. ASSUME NEW g \in Pages, g # stk PROVE own3[g] = Spare \/ own3[g][2] \in Kinds
    <3>1. CASE g = pg
        BY <2>2, <3>1 DEF Kinds
    <3>2. CASE g # pg
        BY <2>4, <2>9, <2>11, <3>2
    <3>3. QED
        BY <3>1, <3>2
  <2>12. ASSUME NEW g \in Pages
         PROVE  /\ own3[g][2] = "stack" => g = stk
                /\ own3[g][2] # "hand" /\ (own3[g][2] = "free" => own3[g] = Spare)
    <3>1. CASE g = stk
        BY <2>8, <2>10, <3>1
    <3>2. CASE g # stk /\ own3[g] = Spare
        BY <2>8, <3>2
    <3>3. CASE g # stk /\ own3[g][2] \in Kinds
        BY <3>3 DEF Kinds
    <3>4. QED
        BY <2>11, <3>1, <3>2, <3>3
  <2>13. Layout(t, own3, {kd, d})
      BY <1>2, <2>2
  <2>14. BootMem(t, own3, kd, d, stk)
      BY <2>4, <2>5, <2>6, <2>7, <2>10, <2>12, <2>13 DEF BootMem
  <2>15. QED
      BY <2>14
<1>13. QED
    BY <1>11, <1>12

(* The first process, prepare_usr_proc's.                                   *)
FirstProc(d, stk) ==
    [p \in Slots |-> IF p # 1 THEN NoProc ELSE
       [NoProc EXCEPT !.state = "RUNNABLE", !.pid = 1, !.pg_dir = d, !.mem_size = W, !.kstack = stk]]

FirstKept(s, own, pr, kd) ==
    /\ pr \in [Slots -> ProcSet] /\ Book(s, own, pr, kd)
    /\ \A p \in Slots : pr[p].state # "RUNNING"
    /\ \A p \in LiveIn(pr) : pr[p].mem_size \in W .. KernelBase

(* The books at the end of boot.                                            *)
LEMMA FirstBook ==
    ASSUME NEW s, NEW own, NEW kd \in Pages, NEW d \in Pages, NEW stk, BootMem(s, own, kd, d, stk),
           NEW pr, pr = FirstProc(d, stk)
    PROVE  FirstKept(s, own, pr, kd)
<1>1. 1 \in Slots /\ W \in Nat /\ W >= 2 /\ 0 \in 0 .. NPROC /\ 0 \in 0 .. NPages
    BY MemSizes, ProcSizes DEF Slots
<1>2. d \in 0 .. NPages /\ stk \in Pages /\ stk \in 0 .. NPages /\ d # kd
    BY DEF BootMem, Pages
<1>3. NoProc \in ProcSet /\ NoProc.state = "UNUSED"
    BY <1>1 DEF NoProc, ProcSet
<1>4. PICK one : one = [NoProc EXCEPT !.state = "RUNNABLE", !.pid = 1, !.pg_dir = d,
                                      !.mem_size = W, !.kstack = stk]
    OBVIOUS
<1>5. /\ one \in ProcSet /\ one.state = "RUNNABLE" /\ one.pid = 1 /\ one.pg_dir = d
      /\ one.mem_size = W /\ one.kstack = stk
    BY <1>1, <1>2, <1>4 DEF NoProc, ProcSet
<1>6. pr = [p \in Slots |-> IF p # 1 THEN NoProc ELSE one]
    BY <1>4 DEF FirstProc
<1>7. pr \in [Slots -> ProcSet] /\ pr[1] = one /\ \A p \in Slots : p # 1 => pr[p] = NoProc
    BY <1>1, <1>3, <1>5, <1>6
<1>8. LiveIn(pr) = {1}
    BY <1>1, <1>3, <1>5, <1>7 DEF LiveIn
<1>9. DirsIn(pr, kd) = {kd, d}
    BY <1>5, <1>7, <1>8 DEF DirsIn
<1>10. StacksOwned(own, pr)
    BY <1>2, <1>5, <1>7, <1>8 DEF StacksOwned, BootMem
<1>11. DirsApart(pr, kd)
    BY <1>2, <1>5, <1>7, <1>8 DEF DirsApart
<1>12. W \in W .. KernelBase
  <2>1. (W - 1) * W >= W
      BY <1>1
  <2>2. KernelPage \in Nat /\ KernelPage >= W /\ KernelBase = W * KernelPage
      BY <2>1, MemSizes DEF KernelPage, KernelBase
  <2>3. W * KernelPage >= W
      BY <1>1, <2>2
  <2>4. QED
      BY <1>1, <2>2, <2>3
<1>13. Ceil(W) > 0
  <2>1. Ceil(W) = (2 * W - 1) \div W
      BY <1>1 DEF Ceil
  <2>2. (2 * W - 1) \div W = 1
      BY <1>1, Divided
  <2>3. QED
      BY <2>1, <2>2
<1>14. Sizes(s, pr)
    BY <1>5, <1>7, <1>8, <1>12, <1>13 DEF Sizes, Below, BootMem
<1>15. Book(s, own, pr, kd)
    BY <1>9, <1>10, <1>11, <1>14 DEF Book, BootMem
<1>16. QED
    BY <1>3, <1>5, <1>7, <1>8, <1>12, <1>15 DEF FirstKept

(* The machine when mm_init is called.                                      *)
Reset == [mem |-> [p \in Pages |-> Junk], free |-> Pages, twice |-> FALSE, ok |-> TRUE]

(* It is a state, without owners.                                           *)
LEMMA ResetState == Reset \in States /\ Reset.free = Pages /\ Reset.twice = FALSE
    BY PageSets DEF Reset, States

(* The end of boot.                                                         *)
Started(kern, stack, dir, s) ==
    /\ s.ok /\ mem = s.mem /\ free = s.free /\ twice = s.twice /\ kdir = kern.pg
    /\ proc = FirstProc(dir.pg, stack.pg)

(* Boot leaves the invariant.                                               *)
LEMMA Booted == Init => IInv
<1> SUFFICES ASSUME Init PROVE IInv
    OBVIOUS
<1>0. PICK kern \in {MmInit} : \E stack \in {NewStack(kern.s)} : \E dir \in {NewDir(stack.s)} :
        \E code \in {Alloc(dir.s)} : \E s \in {PrepareUsrProc(stack.pg, dir.pg, code)} :
          Started(kern, stack, dir, s)
    BY DEF Init, FirstProc, Started
<1>1. PICK stack \in {NewStack(kern.s)} : \E dir \in {NewDir(stack.s)} :
        \E code \in {Alloc(dir.s)} : \E s \in {PrepareUsrProc(stack.pg, dir.pg, code)} :
          Started(kern, stack, dir, s)
    BY <1>0
<1>1a. PICK dir \in {NewDir(stack.s)} : \E code \in {Alloc(dir.s)} :
         \E s \in {PrepareUsrProc(stack.pg, dir.pg, code)} : Started(kern, stack, dir, s)
    BY <1>1
<1>1b. PICK code \in {Alloc(dir.s)} :
         \E s \in {PrepareUsrProc(stack.pg, dir.pg, code)} : Started(kern, stack, dir, s)
    BY <1>1a
<1>1c. PICK s \in {PrepareUsrProc(stack.pg, dir.pg, code)} : Started(kern, stack, dir, s)
    BY <1>1b
<1>2. /\ kern = MmInit /\ stack = NewStack(kern.s) /\ dir = NewDir(stack.s)
      /\ code = Alloc(dir.s) /\ s = PrepareUsrProc(stack.pg, dir.pg, code)
      /\ s.ok /\ mem = s.mem /\ free = s.free /\ twice = s.twice /\ kdir = kern.pg
      /\ proc = FirstProc(dir.pg, stack.pg)
    BY <1>0, <1>1, <1>1a, <1>1b, <1>1c DEF Started
<1>3. cur = 0 /\ cr3 = kdir /\ esp0 = 0 /\ nextpid = 2 /\ wild = FALSE
    BY DEF Init
<1>4. PICK s0 : s0 = Reset
    OBVIOUS
<1>5. s0 \in States /\ s0.free = Pages /\ s0.twice = FALSE
    BY <1>4, ResetState
<1>6. kern = NewDir(s0) /\ stack = NewStack(kern.s)
    BY <1>2, <1>4 DEF MmInit, Reset
<1>7. 1 \in Slots /\ 0 \notin Slots
    BY ProcSizes DEF Slots
<1>8. /\ kern.pg \in Pages /\ stack.pg \in Pages /\ stack.s \in States
      /\ stack.s.ok => \E own : StackBoot(stack.s, own, kern.pg, stack.pg)
    BY <1>5, <1>6, <1>7, StackBooted
<1>9. PICK kd, stk, ss : kd = kern.pg /\ stk = stack.pg /\ ss = stack.s
    OBVIOUS
<1>10. /\ kd \in Pages /\ stk \in Pages /\ ss \in States
       /\ ss.ok => \E own : StackBoot(ss, own, kd, stk)
    BY <1>8, <1>9
<1>11. dir = NewDir(ss)
    BY <1>2, <1>9
<1>12. /\ dir.pg \in Pages /\ dir.s \in States
       /\ dir.s.ok => \E own : DirBoot(dir.s, own, kd, dir.pg, stk)
    BY <1>10, <1>11, DirBooted
<1>13. PICK d, ds : d = dir.pg /\ ds = dir.s
    OBVIOUS
<1>14. d \in Pages /\ ds \in States /\ (ds.ok => \E own : DirBoot(ds, own, kd, d, stk))
    BY <1>12, <1>13
<1>15. code = Alloc(ds) /\ s = PrepareUsrProc(stk, d, code)
    BY <1>2, <1>9, <1>13
<1>16. s \in States /\ (s.ok => \E own : BootMem(s, own, kd, d, stk))
    BY <1>10, <1>14, <1>15, CodeMapped
<1>17. PICK own : BootMem(s, own, kd, d, stk)
    BY <1>2, <1>16
<1>18. proc = FirstProc(d, stk) /\ kdir = kd
    BY <1>2, <1>9, <1>13
<1>19. PICK pr : pr = proc
    OBVIOUS
<1>20. /\ pr \in [Slots -> ProcSet] /\ Book(s, own, pr, kd)
       /\ \A p \in Slots : pr[p].state # "RUNNING"
       /\ \A p \in LiveIn(pr) : pr[p].mem_size \in W .. KernelBase
  <2>1. kd \in Pages /\ d \in Pages
      BY <1>10, <1>14
  <2>2. pr = FirstProc(d, stk)
      BY <1>18, <1>19
  <2>3. QED
    <3>1. BootMem(s, own, kd, d, stk)
        BY <1>17
    <3>2. FirstKept(s, own, pr, kd)
        BY <2>1, <2>2, <3>1, FirstBook
    <3>3. QED
        BY <3>2 DEF FirstKept
<1>21. Now = s
  <2>1. s = [mem |-> s.mem, free |-> s.free, twice |-> s.twice, ok |-> TRUE]
      BY <1>2, <1>16, Whole
  <2>2. QED
      BY <1>2, <2>1 DEF Now
<1>22. Booked
    BY <1>18, <1>19, <1>20, <1>21 DEF Booked, SomeBook
<1>23. Live = LiveIn(pr)
    BY <1>19 DEF Live, LiveIn
<1>24. 0 \in 0 .. NPROC /\ 0 \in 0 .. NPages /\ 2 \in 2 .. MaxPid + 1
    BY MemSizes, ProcSizes
<1>25. s.mem \in [Pages -> Words] /\ s.free \in SUBSET Pages /\ s.twice \in BOOLEAN
    BY <1>16 DEF States
<1>26. \A p \in Slots : proc[p].state = "RUNNING" <=> p = cur
    BY <1>3, <1>7, <1>19, <1>20
<1>27. Typed
    BY <1>2, <1>3, <1>10, <1>18, <1>19, <1>20, <1>23, <1>24, <1>25, <1>26 DEF Typed
<1>28. OnCpu
    BY <1>3 DEF OnCpu
<1>29. QED
    BY <1>22, <1>27, <1>28 DEF IInv

(* Every step keeps it, and what ImagesPrivate says.                        *)
LEMMA Stepped ==
    ASSUME IInv, Next
    PROVE  IInv' /\ MemStep
<1>1. CASE \E p \in Slots : Join(p)
    BY <1>1, JoinStep
<1>2. CASE \E p \in Slots : Wait(p)
    BY <1>2, WaitStep
<1>3. CASE Yield
    BY <1>3, LeaveStep DEF Yield
<1>4. CASE \E vp \in StorePages : Store(vp)
    BY <1>4, StoreStep
<1>5. CASE Fork
    BY <1>5, ForkStep
<1>6. CASE \E prog \in Programs : Exec(prog)
    BY <1>6, ExecStep
<1>7. CASE Exit
    BY <1>7, LeaveStep DEF Exit
<1>8. QED
    BY <1>1, <1>2, <1>3, <1>4, <1>5, <1>6, <1>7 DEF Next

(* A step that changes nothing keeps the invariant.                         *)
LEMMA Stuttered ==
    ASSUME IInv, UNCHANGED vars
    PROVE  IInv'
<1>1. Now' = Now /\ Live' = Live
    BY DEF vars, Now, Live
<1>2. Booked' <=> Booked
    BY <1>1 DEF vars, Booked
<1>3. Typed' <=> Typed
    BY <1>1 DEF vars, Typed
<1>4. QED
    BY <1>2, <1>3 DEF IInv, OnCpu, vars

(* In every state the kernel has reached without a panic some assignment of *)
(* roles to the pages fits the page tables, the stacks and the free list.   *)
THEOREM Invariance == Spec => []IInv
<1>1. Init => IInv
    BY Booted
<1>2. IInv /\ [Next]_vars => IInv'
    BY Stepped, Stuttered
<1>3. QED
    BY <1>1, <1>2, PTL DEF Spec

(* TypeOK holds for every size of memory, pages, tables and process table   *)
(* and whatever programs exec is given: words, pages and process entries    *)
(* stay in their sets, and whoever has the CPU is RUNNING.                  *)
THEOREM Typing == Spec => []TypeOK
<1>1. IInv => TypeOK
  <2> SUFFICES ASSUME IInv PROVE TypeOK
      OBVIOUS
  <2>1. Typed
      BY DEF IInv
  <2>2. DOMAIN mem = Pages /\ \A pg \in Pages : DOMAIN mem[pg] = 0 .. W - 1
      BY <2>1 DEF Typed, Words
  <2>3. ASSUME NEW p \in Slots
        PROVE  /\ proc[p].state \in {"UNUSED", "RUNNABLE", "RUNNING", "ZOMBIE"}
               /\ proc[p].state = "RUNNING" <=> p = cur
      BY <2>1 DEF Typed, ProcSet
  <2>4. ASSUME NEW p \in Slots PROVE (proc[p].state = "RUNNING") = (p = cur)
      BY Zenon, <2>3
  <2>5. ASSUME NEW p \in Slots, p \in Live PROVE proc[p].mem_size \in W .. KernelBase + 2 * W
    <3>1. proc[p].mem_size \in W .. KernelBase
        BY <2>1, <2>5 DEF Typed
    <3>2. W \in Nat /\ KernelBase \in Int
        BY MemSizes DEF KernelBase
    <3>3. QED
        BY <3>1, <3>2
  <2>6. /\ free \subseteq Pages /\ twice \in BOOLEAN /\ wild \in BOOLEAN
        /\ cur \in 0 .. NPROC /\ nextpid \in 2 .. MaxPid + 1
        /\ cr3 \in Pages /\ esp0 \in 0 .. NPages /\ kdir \in Pages
      BY <2>1 DEF Typed
  <2>7. \A p \in Slots :
           /\ proc[p].state \in {"UNUSED", "RUNNABLE", "RUNNING", "ZOMBIE"}
           /\ (proc[p].state = "RUNNING") = (p = cur)
           /\ p \in Live => proc[p].mem_size \in W .. KernelBase + 2 * W
      BY Zenon, <2>3, <2>4, <2>5
  <2>8. QED
      BY Zenon, <2>2, <2>6, <2>7 DEF TypeOK
<1>2. QED
    BY <1>1, Invariance, PTL

(* The CPU never runs on a directory or a kernel stack but the current      *)
(* process's, or on the kernel's directory in the scheduler, and the kernel *)
(* is mapped there and in every process's directory, for itself only        *)
(* (switch_uvm, switch_kvm, do_exec, fork's and exec's kernel_map_init).    *)
THEOREM OwnDirectory == Spec => []OnOwnDirectory
<1>1. IInv => OnOwnDirectory
  <2> SUFFICES ASSUME IInv, ~wild
               PROVE  /\ cr3 = IF cur = 0 THEN kdir ELSE proc[cur].pg_dir
                      /\ cur # 0 => esp0 = proc[cur].kstack
                      /\ KernelMapped(kdir) /\ \A p \in Live : KernelMapped(proc[p].pg_dir)
      BY DEF OnOwnDirectory
  <2>1. OnCpu /\ Booked
      BY DEF IInv
  <2>2. PICK own : Book(Now, own, proc, kdir)
      BY <2>1 DEF Booked, SomeBook
  <2>3. \A d \in DirsIn(proc, kdir) : KernelMapped(d)
      BY <2>2 DEF Book, KernelIn, KernelMapped
  <2>4. kdir \in DirsIn(proc, kdir) /\ \A p \in Live : proc[p].pg_dir \in DirsIn(proc, kdir)
      BY NowStates DEF DirsIn
  <2>5. QED
      BY <2>1, <2>3, <2>4 DEF OnCpu
<1>2. QED
    BY <1>1, Invariance, PTL

(* Owners by kind.                                                          *)
LEMMA OwnedIs ==
    ASSUME NEW d, NEW i
    PROVE  /\ Owned(<<d, "dir", i>>) = d + i
           /\ Owned(<<d, "table", i>>) = PageOf(mem[d][i])
           /\ Owned(<<d, "page", i>>) = PageOf(Pte(Now, d, i))
           /\ Owned(<<d, "stack", i>>) = proc[i].kstack
    BY DEF Owned

(* The four kinds of owners.                                                *)
LEMMA OwnersAre ==
    /\ \A o \in Owners :
          \/ \E d \in DirsIn(proc, kdir), i \in 0 .. DirPages - 1 : o = <<d, "dir", i>>
          \/ \E d \in DirsIn(proc, kdir), i \in 0 .. W - 1 :
                Present(mem[d][i]) /\ o = <<d, "table", i>>
          \/ \E d \in DirsIn(proc, kdir), v \in UserVPs :
                Present(Pte(Now, d, v)) /\ o = <<d, "page", v>>
          \/ \E p \in LiveIn(proc) : o = StackOf(p)
    /\ \A d \in DirsIn(proc, kdir) :
          /\ \A i \in 0 .. DirPages - 1 : <<d, "dir", i>> \in Owners
          /\ \A i \in 0 .. W - 1 : Present(mem[d][i]) => <<d, "table", i>> \in Owners
          /\ \A v \in UserVPs : Present(Pte(Now, d, v)) => <<d, "page", v>> \in Owners
    /\ \A p \in LiveIn(proc) : StackOf(p) \in Owners
<1> DEFINE tables(d) == {<<d, "table", i>> : i \in {j \in 0 .. W - 1 : Present(mem[d][j])}}
<1> DEFINE users(d) == {<<d, "page", vp>> : vp \in UserPages(d)}
<1> DEFINE All(d) == DirBlock(d) \cup tables(d) \cup users(d)
<1> DEFINE D == DirsIn(proc, kdir)
<1>1. Live = LiveIn(proc)
    BY NowStates
<1>2. Owners = (UNION {All(d) : d \in D}) \cup {<<0, "stack", p>> : p \in LiveIn(proc)}
    BY <1>1 DEF Owners, DirsIn
<1>3. ASSUME NEW d, NEW o
      PROVE  o \in All(d) <=>
               \/ \E i \in 0 .. DirPages - 1 : o = <<d, "dir", i>>
               \/ \E i \in 0 .. W - 1 : Present(mem[d][i]) /\ o = <<d, "table", i>>
               \/ \E v \in UserVPs : Present(Pte(Now, d, v)) /\ o = <<d, "page", v>>
    BY DEF DirBlock, UserPages, UserVPs
<1> HIDE DEF All, D
<1>4. \A o : o \in Owners <=> (\E d \in D : o \in All(d)) \/ \E p \in LiveIn(proc) : o = StackOf(p)
  <2> SUFFICES ASSUME NEW o
               PROVE  o \in Owners <=>
                        (\E d \in D : o \in All(d)) \/ \E p \in LiveIn(proc) : o = StackOf(p)
      OBVIOUS
  <2>1. o \in Owners <=> \/ o \in UNION {All(d) : d \in D}
                        \/ o \in {<<0, "stack", p>> : p \in LiveIn(proc)}
      BY <1>2
  <2>2. o \in UNION {All(d) : d \in D} <=> \E d \in D : o \in All(d)
      OBVIOUS
  <2>3. o \in {<<0, "stack", p>> : p \in LiveIn(proc)} <=> \E p \in LiveIn(proc) : o = StackOf(p)
      BY Zenon DEF StackOf
  <2>4. QED
      BY <2>1, <2>2, <2>3
<1>5. ASSUME NEW o \in Owners
      PROVE  \/ \E d \in D, i \in 0 .. DirPages - 1 : o = <<d, "dir", i>>
             \/ \E d \in D, i \in 0 .. W - 1 : Present(mem[d][i]) /\ o = <<d, "table", i>>
             \/ \E d \in D, v \in UserVPs : Present(Pte(Now, d, v)) /\ o = <<d, "page", v>>
             \/ \E p \in LiveIn(proc) : o = StackOf(p)
    BY <1>3, <1>4
<1>6. ASSUME NEW d \in D
      PROVE  /\ \A i \in 0 .. DirPages - 1 : <<d, "dir", i>> \in Owners
             /\ \A i \in 0 .. W - 1 : Present(mem[d][i]) => <<d, "table", i>> \in Owners
             /\ \A v \in UserVPs : Present(Pte(Now, d, v)) => <<d, "page", v>> \in Owners
    BY <1>3, <1>4
<1>7. \A p \in LiveIn(proc) : StackOf(p) \in Owners
    BY <1>4
<1>8. QED
    BY <1>5, <1>6, <1>7 DEF D

(* An owner's page knows its owner.                                         *)
LEMMA OwnersKnown ==
    ASSUME Typed, NEW own, Book(Now, own, proc, kdir), NEW o \in Owners
    PROVE  Owned(o) \in Pages \ free /\ own[Owned(o)] = o
<1> DEFINE D == DirsIn(proc, kdir)
<1>1. /\ Now \in States /\ Layout(Now, own, D) /\ Now.mem = mem
      /\ \A pg \in Pages : pg \in free <=> own[pg] = Spare
    BY NowStates DEF Book, Layout, Now
<1>2. Spare = <<0, "free", 0>>
    BY DEF Spare
<1> HIDE DEF D
<1>3. ASSUME NEW d \in D, NEW i \in 0 .. DirPages - 1, o = <<d, "dir", i>>
      PROVE  Owned(o) \in Pages /\ own[Owned(o)] = o
  <2>1. Owned(o) = d + i
      BY <1>3, OwnedIs
  <2>2. d + i \in Pages /\ own[d + i] = <<d, "dir", i>>
      BY <1>1, <1>3 DEF Layout, DirsOwned
  <2>3. QED
      BY <1>3, <2>1, <2>2
<1>4. ASSUME NEW d \in D, NEW i \in 0 .. W - 1, Present(mem[d][i]), o = <<d, "table", i>>
      PROVE  Owned(o) \in Pages /\ own[Owned(o)] = o
  <2>1. TableAt(Now, d, i) = PageOf(mem[d][i]) /\ d \in Pages
      BY <1>1, <1>4, Apartness DEF TableAt
  <2>2. mem[d][i] \in Int
      BY <1>1, <2>1 DEF States, Words
  <2>3. TableAt(Now, d, i) # 0
      BY <1>4, <2>1, <2>2, Entries
  <2>4. Owned(o) = TableAt(Now, d, i)
      BY <1>4, <2>1, OwnedIs
  <2>5. QED
      BY <1>1, <1>4, <2>3, <2>4 DEF Layout, TablesOwned
<1>5. ASSUME NEW d \in D, NEW v \in UserVPs, Present(Pte(Now, d, v)), o = <<d, "page", v>>
      PROVE  Owned(o) \in Pages /\ own[Owned(o)] = o
  <2>1. /\ PageOf(Pte(Now, d, v)) \in Pages
        /\ own[PageOf(Pte(Now, d, v))] = <<d, "page", v>>
      BY <1>1, <1>5, UserPage
  <2>2. QED
      BY <1>5, <2>1, OwnedIs
<1>6. ASSUME NEW p \in LiveIn(proc), o = StackOf(p)
      PROVE  Owned(o) \in Pages /\ own[Owned(o)] = o
  <2>1. Owned(o) = proc[p].kstack
    <3>1. PICK z : z = 0
        OBVIOUS
    <3>2. o = <<z, "stack", p>>
        BY Zenon, <1>6, <3>1 DEF StackOf
    <3>3. QED
        BY <3>2, OwnedIs
  <2>2. proc[p].kstack \in Pages /\ own[proc[p].kstack] = StackOf(p)
      BY DEF Book, StacksOwned
  <2>3. QED
      BY <1>6, <2>1, <2>2
<1>7. Owned(o) \in Pages /\ own[Owned(o)] = o /\ o # Spare
  <2>1. \/ \E d \in D, i \in 0 .. DirPages - 1 : o = <<d, "dir", i>>
        \/ \E d \in D, i \in 0 .. W - 1 : Present(mem[d][i]) /\ o = <<d, "table", i>>
        \/ \E d \in D, v \in UserVPs : Present(Pte(Now, d, v)) /\ o = <<d, "page", v>>
        \/ \E p \in LiveIn(proc) : o = StackOf(p)
      BY OwnersAre DEF D
  <2>2. o # Spare
      BY <1>2, <2>1 DEF StackOf
  <2>3. QED
      BY <1>3, <1>4, <1>5, <1>6, <2>1, <2>2
<1>8. QED
    BY <1>1, <1>7

(* A page in use has an owner.                                              *)
LEMMA PagesKnown ==
    ASSUME Typed, NEW own, Book(Now, own, proc, kdir), NEW g \in Pages \ free
    PROVE  own[g] \in Owners /\ Owned(own[g]) = g
<1> DEFINE D == DirsIn(proc, kdir)
<1>1. /\ Now \in States /\ Layout(Now, own, D) /\ Now.mem = mem
      /\ own[g] # Spare /\ own[g] \in Role
    BY NowStates, Apartness DEF Book, Layout, Now
<1>2. /\ own[g][2] # "hand" /\ own[g][2] # "free"
      /\ own[g][2] = "stack" => \E p \in LiveIn(proc) : own[g] = StackOf(p) /\ proc[p].kstack = g
    BY <1>1 DEF Book, StacksOwned
<1>3. PICK d, k, i : d = own[g][1] /\ k = own[g][2] /\ i = own[g][3]
    OBVIOUS
<1>4. own[g] = <<d, k, i>> /\ k \in {"stack", "dir", "table", "page"}
    BY <1>1, <1>2, <1>3 DEF Role
<1> HIDE DEF D
<1>5. CASE k = "dir"
  <2>1. d \in D /\ i \in 0 .. DirPages - 1 /\ g = d + i
      BY <1>1, <1>3, <1>5 DEF Layout, DirsOwned
  <2>2. QED
      BY <1>4, <1>5, <2>1, OwnersAre, OwnedIs DEF D
<1>6. CASE k = "table"
  <2>1. d \in D /\ i \in 0 .. W - 1 /\ TableAt(Now, d, i) = g
      BY <1>1, <1>3, <1>6 DEF Layout, TablesOwned
  <2>2. Present(mem[d][i]) /\ PageOf(mem[d][i]) = g
      BY <1>1, <2>1 DEF TableAt, Pages
  <2>3. QED
      BY <1>4, <1>6, <2>1, <2>2, OwnersAre, OwnedIs DEF D
<1>7. CASE k = "page"
  <2>1. d \in D /\ i \in UserVPs /\ PageAt(Now, d, i) = g
      BY <1>1, <1>3, <1>7 DEF Layout, PagesOwned
  <2>2. Present(Pte(Now, d, i)) /\ PageOf(Pte(Now, d, i)) = g
      BY <2>1 DEF PageAt, Pages
  <2>3. QED
      BY <1>4, <1>7, <2>1, <2>2, OwnersAre, OwnedIs DEF D
<1>8. CASE k = "stack"
  <2>1. PICK p \in LiveIn(proc) : own[g] = StackOf(p) /\ proc[p].kstack = g
      BY <1>2, <1>3, <1>8
  <2>2. own[g] \in Owners
      BY <2>1, OwnersAre
  <2>3. Owned(own[g]) = proc[p].kstack
    <3>1. PICK z : z = 0
        OBVIOUS
    <3>2. own[g] = <<z, "stack", p>>
        BY Zenon, <2>1, <3>1 DEF StackOf
    <3>3. QED
        BY <3>2, OwnedIs
  <2>4. QED
      BY <2>1, <2>2, <2>3
<1>9. QED
    BY <1>4, <1>5, <1>6, <1>7, <1>8

(* No page is leaked, freed twice or handed to two owners by fork, by exec, *)
(* also one that fails half way, by exit or by wait: in every state the     *)
(* pages that are not free and the directories, tables, mapped pages and    *)
(* stacks of the live processes correspond one to one.                      *)
THEOREM PagesOwnedOnce == Spec => []OneOwner
<1>1. IInv => OneOwner
  <2> SUFFICES ASSUME IInv, ~wild
               PROVE  /\ ~twice
                      /\ {Owned(o) : o \in Owners} = Pages \ free
                      /\ Cardinality(Owners) = Cardinality(Pages \ free)
                      /\ Cardinality({proc[p].pg_dir : p \in Live}) = Cardinality(Live)
      BY DEF OneOwner
  <2>1. Typed /\ Booked
      BY DEF IInv
  <2>2. PICK own : Book(Now, own, proc, kdir)
      BY <2>1 DEF Booked, SomeBook
  <2>3. ~twice
      BY <2>2 DEF Book, Layout, Now
  <2> DEFINE Used == Pages \ free
  <2>4. \A o \in Owners : Owned(o) \in Used /\ own[Owned(o)] = o
      BY <2>1, <2>2, OwnersKnown
  <2>5. \A g \in Used : own[g] \in Owners /\ Owned(own[g]) = g
      BY <2>1, <2>2, PagesKnown
  <2>6. IsFiniteSet(Used)
    <3>1. IsFiniteSet(Pages)
        BY MemSizes, FS_Interval DEF Pages
    <3>2. QED
        BY <3>1, FS_Subset
  <2> HIDE DEF Used
  <2>7. {Owned(o) : o \in Owners} = Used
      BY <2>4, <2>5
  <2>8. Cardinality(Owners) = Cardinality(Used)
    <3> DEFINE f == [g \in Used |-> own[g]]
    <3>1. f \in Bijection(Used, Owners)
      <4>1. f \in Injection(Used, Owners)
          BY <2>5 DEF Injection, IsInjective
      <4>2. f \in Surjection(Used, Owners)
          BY <2>4, <2>5 DEF Surjection
      <4>3. QED
          BY <4>1, <4>2 DEF Bijection
    <3>2. ExistsBijection(Used, Owners)
        BY <3>1 DEF ExistsBijection
    <3>3. QED
        BY <2>6, <3>2, FS_Bijection
  <2>9. Cardinality({proc[p].pg_dir : p \in Live}) = Cardinality(Live)
    <3> DEFINE T == {proc[p].pg_dir : p \in Live}
    <3> DEFINE f == [p \in Live |-> proc[p].pg_dir]
    <3>1. \A p, q \in Live : proc[p].pg_dir = proc[q].pg_dir => p = q
        BY <2>2, NowStates DEF Book, DirsApart
    <3>2. f \in Bijection(Live, T)
        BY <3>1 DEF Bijection, Injection, Surjection, IsInjective
    <3>3. IsFiniteSet(Live)
      <4>1. IsFiniteSet(Slots)
          BY ProcSizes, FS_Interval DEF Slots
      <4>2. Live \subseteq Slots
          BY DEF Live
      <4>3. QED
          BY <4>1, <4>2, FS_Subset
    <3>4. ExistsBijection(Live, T)
        BY <3>2 DEF ExistsBijection
    <3>5. QED
        BY <3>3, <3>4, FS_Bijection
  <2>10. QED
      BY <2>3, <2>7, <2>8, <2>9 DEF Used
<1>2. QED
    BY <1>1, Invariance, PTL

(* A step leaves the pages and the trap frame of every process but the one  *)
(* that takes it, and a system call but exec leaves the caller's pages too. *)
LEMMA OthersUntouched == IInv /\ Next /\ ~wild' => OthersKept
<1> SUFFICES ASSUME IInv, Next, ~wild', NEW p \in Live, proc'[p].pid = proc[p].pid
             PROVE  /\ p # cur => TrapFrame(p)' = TrapFrame(p)
                    /\ Image(proc[p].pg_dir)' # Image(proc[p].pg_dir)
                         => p = cur /\ (TrapFrame(p)' = TrapFrame(p) \/ proc'[p].pg_dir # proc[p].pg_dir)
    BY DEF OthersKept
<1>1. Private(Now, proc, cur, Now', proc')
    BY Stepped DEF MemStep
<1>2. p \in LiveIn(proc)
    BY NowStates
<1>3. /\ TrapFrame(p) = Now.mem[proc[p].kstack]
      /\ TrapFrame(p)' = Now'.mem[proc'[p].kstack]
    BY DEF TrapFrame, Now
<1>4. Image(proc[p].pg_dir) = ImageOf(Now, proc[p].pg_dir)
    BY DEF Image, ImageOf, UserPages, UserVPs, Now
<1>5. Image(proc[p].pg_dir)' = ImageOf(Now', proc'[p].pg_dir)
    BY DEF Image, ImageOf, UserPages, UserVPs, Now
<1>6. PICK s, t, pr, pr2 : s = Now /\ t = Now' /\ pr = proc /\ pr2 = proc'
    OBVIOUS
<1>7. /\ p # cur => t.mem[pr2[p].kstack] = s.mem[pr[p].kstack]
      /\ ImageOf(t, pr2[p].pg_dir) # ImageOf(s, pr[p].pg_dir)
           => p = cur /\ (t.mem[pr2[p].kstack] = s.mem[pr[p].kstack] \/ pr2[p].pg_dir # pr[p].pg_dir)
    BY <1>1, <1>2, <1>6 DEF Private
<1>8. QED
    BY <1>3, <1>4, <1>5, <1>6, <1>7

(* The pages of a directory that is a copy of another.                      *)
LEMMA CopyImage ==
    ASSUME NEW t, NEW a, NEW b, \A v \in UserVPs : Copied(t, a, b, v)
    PROVE  ImageOf(t, a) = ImageOf(t, b)
<1> DEFINE A == {v \in UserVPs : Present(Pte(t, a, v))}
<1> DEFINE B == {v \in UserVPs : Present(Pte(t, b, v))}
<1> DEFINE F(v) == [user |-> IsUser(Pte(t, a, v)), words |-> t.mem[PageOf(Pte(t, a, v))]]
<1> DEFINE G(v) == [user |-> IsUser(Pte(t, b, v)), words |-> t.mem[PageOf(Pte(t, b, v))]]
<1>1. A = B
    BY DEF Copied
<1>2. ASSUME NEW v \in A PROVE F(v) = G(v)
  <2>1. /\ IsUser(Pte(t, a, v)) <=> IsUser(Pte(t, b, v))
        /\ t.mem[PageOf(Pte(t, a, v))] = t.mem[PageOf(Pte(t, b, v))]
      BY <1>1 DEF Copied
  <2>2. IsUser(Pte(t, a, v)) = IsUser(Pte(t, b, v))
      BY Zenon, <2>1 DEF IsUser
  <2>3. QED
      BY Zenon, <2>1, <2>2
<1>3. ImageOf(t, a) = [v \in A |-> F(v)] /\ ImageOf(t, b) = [v \in B |-> G(v)]
    BY DEF ImageOf
<1> HIDE DEF A, B, F, G
<1>4. QED
    BY <1>1, <1>2, <1>3

(* What ChildIsCopy says of a step from s and pr, by c, to t and pr2.       *)
Children(s, pr, c, t, pr2) ==
    \A q \in LiveIn(pr2) \ LiveIn(pr) :
        /\ ImageOf(t, pr2[q].pg_dir) = ImageOf(s, pr[c].pg_dir)
        /\ t.mem[pr2[q].kstack] = [s.mem[pr[c].kstack] EXCEPT ![2] = 0]
        /\ t.mem[pr2[c].kstack] = [s.mem[pr[c].kstack] EXCEPT ![2] = pr2[q].pid]

(* What fork's child is.                                                    *)
LEMMA ForkChild ==
    ASSUME IInv, Fork, ~wild'
    PROVE  Children(Now, proc, cur, Now', proc')
<1>1. /\ Typed /\ Booked /\ OnCpu /\ cur # 0 /\ ~wild /\ cur' = cur /\ kdir' = kdir
    BY DEF IInv, Fork
<1>2. /\ Now \in States /\ Now.ok /\ Live = LiveIn(proc) /\ cur \in LiveIn(proc) /\ cur \in Slots
    BY <1>1, NowStates, CpuIs DEF LiveIn
<1>3. PICK q, stack, d : \E t \in States : ForkTo(q, stack, d, t)
    BY ForkDone
<1>4. PICK t \in States : ForkTo(q, stack, d, t)
    BY <1>3
<1>5. /\ q \in Slots /\ q \notin LiveIn(proc) /\ Commit(t)
      /\ Child(proc, proc', cur, q, stack, d)
      /\ proc' = [proc EXCEPT ![q] =
                    [state |-> "RUNNABLE", parent |-> cur, pid |-> nextpid, pg_dir |-> d,
                     mem_size |-> proc[cur].mem_size, kstack |-> stack]]
    BY <1>4 DEF ForkTo
<1>6. t.ok /\ Now' = t
  <2>1. mem' = t.mem /\ free' = t.free /\ twice' = t.twice /\ (wild' <=> ~t.ok)
      BY <1>5 DEF Commit
  <2>2. QED
      BY <2>1, Whole DEF Now
<1>7. PICK own : /\ Book(Now, own, proc, kdir)
                 /\ Forked(Now, own, t, proc, kdir, cur, stack, d)
    BY <1>4, <1>6 DEF ForkTo
<1>8. Frames(Now, t, stack, proc[cur].kstack, nextpid)
    BY <1>4, <1>6 DEF ForkTo
<1>9. proc'[q].pid = nextpid
    BY <1>1, <1>5 DEF Typed
<1>10. ImageOf(t, d) = ImageOf(t, proc[cur].pg_dir)
    BY <1>7, CopyImage DEF Forked
<1>11. ImageOf(t, proc[cur].pg_dir) = ImageOf(Now, proc[cur].pg_dir)
  <2> DEFINE K == {proc[cur].kstack}
  <2> DEFINE D == DirsIn(proc, kdir)
  <2> DEFINE c == proc[cur].pg_dir
  <2>1. StacksOwned(own, proc) /\ DirsApart(proc, kdir) /\ Layout(Now, own, D)
      BY <1>7 DEF Book
  <2>2. \A g \in K : own[g][2] = "stack"
      BY <1>2, <2>1 DEF StacksOwned, StackOf
  <2>3. Kept(Now, own, t, D, 0, K)
      BY <1>7 DEF Forked
  <2>4. c \in D /\ c # 0
      BY <1>2, <2>1 DEF DirsIn, DirsApart, Pages
  <2> HIDE DEF K, D, c
  <2>5. ImageOf(t, c) = ImageOf(Now, c)
      BY <1>2, <2>1, <2>2, <2>3, <2>4, ImagesKept
  <2>6. QED
      BY <2>5 DEF c
<1>12. PICK s, pr, pr2, c : s = Now /\ pr = proc /\ pr2 = proc' /\ c = cur
    OBVIOUS
<1>13. /\ pr2[q].pg_dir = d /\ pr2[q].kstack = stack /\ pr2[c] = pr[c] /\ pr2[q].pid = nextpid
       /\ LiveIn(pr2) = LiveIn(pr) \cup {q}
    BY <1>2, <1>5, <1>9, <1>12 DEF Child
<1>14. Children(s, pr, c, t, pr2)
    BY <1>8, <1>10, <1>11, <1>12, <1>13 DEF Children, Frames
<1>15. QED
    BY <1>6, <1>12, <1>14

(* Only fork makes a process.                                               *)
LEMMA OnlyFork ==
    ASSUME IInv, Next, ~Fork
    PROVE  Live' \subseteq Live
<1>1. proc \in [Slots -> ProcSet] /\ cur \in 0 .. NPROC
    BY DEF IInv, Typed
<1>2. ASSUME NEW c \in Slots, proc[c].state # "UNUSED", NEW st, proc' = [proc EXCEPT ![c].state = st]
      PROVE  Live' \subseteq Live
    BY <1>1, <1>2 DEF Live
<1>3. cur # 0 => cur \in Slots /\ proc[cur].state # "UNUSED"
  <2>1. cur # 0 => cur \in Slots
      BY <1>1, ProcSizes DEF Slots
  <2>2. \A p \in Slots : proc[p].state = "RUNNING" <=> p = cur
      BY DEF IInv, Typed
  <2>3. QED
      BY <2>1, <2>2
<1>4. CASE \E p \in Slots : Join(p)
  <2>1. PICK p \in Slots : Join(p)
      BY <1>4
  <2>2. proc[p].state # "UNUSED" /\ proc' = [proc EXCEPT ![p].state = "RUNNING"]
      BY <2>1 DEF Join
  <2>3. QED
      BY <1>2, <2>2
<1>5. CASE \E q \in Slots : Wait(q)
  <2>1. PICK q \in Slots : proc' = [proc EXCEPT ![q] = NoProc]
      BY <1>5 DEF Wait
  <2>2. NoProc.state = "UNUSED"
      BY DEF NoProc
  <2>3. QED
      BY <1>1, <2>1, <2>2 DEF Live
<1>6. CASE Yield
    BY <1>2, <1>3, <1>6 DEF Yield
<1>7. CASE Exit
    BY <1>2, <1>3, <1>7 DEF Exit
<1>8. CASE \E vp \in StorePages : Store(vp)
    BY <1>8 DEF Store, Live
<1>9. CASE \E prog \in Programs : Exec(prog)
  <2>1. PICK prog \in Programs : Exec(prog)
      BY <1>9
  <2>2. cur # 0 /\ (\/ proc' = proc
                    \/ \E d, sz : proc' = [proc EXCEPT ![cur].pg_dir = d, ![cur].mem_size = sz])
      BY Zenon, <2>1 DEF Exec
  <2>3. CASE proc' = proc
      BY <2>3 DEF Live
  <2>4. CASE \E d, sz : proc' = [proc EXCEPT ![cur].pg_dir = d, ![cur].mem_size = sz]
    <3>1. PICK d, sz : proc' = [proc EXCEPT ![cur].pg_dir = d, ![cur].mem_size = sz]
        BY <2>4
    <3>2. \A p \in Slots : proc'[p].state = proc[p].state
      <4>1. PICK old, new : old = proc[cur] /\ new = proc'[cur]
          OBVIOUS
      <4>2. /\ new = [old EXCEPT !.pg_dir = d, !.mem_size = sz]
            /\ \A p \in Slots : p # cur => proc'[p] = proc[p]
          BY <1>1, <1>3, <2>2, <3>1, <4>1
      <4>3. old \in ProcSet
          BY <1>1, <1>3, <2>2, <4>1
      <4>4. new.state = old.state
          BY <4>2, <4>3 DEF ProcSet
      <4>5. QED
          BY <4>1, <4>2, <4>4
    <3>3. QED
        BY <3>2 DEF Live
  <2>5. QED
      BY <2>2, <2>3, <2>4
<1>10. QED
    BY <1>4, <1>5, <1>6, <1>7, <1>8, <1>9 DEF Next

(* fork copies: the child's pages have the contents and the permissions of  *)
(* the parent's, its registers are the parent's but for the result 0, and   *)
(* the parent is told the child's pid.                                      *)
LEMMA ImageCopied == IInv /\ Next /\ ~wild' => ChildIsCopy
<1> SUFFICES ASSUME IInv, Next, ~wild', NEW q \in Live' \ Live
             PROVE  /\ Image(proc[q].pg_dir)' = Image(proc[cur].pg_dir)
                    /\ TrapFrame(q)' = [TrapFrame(cur) EXCEPT ![2] = 0]
                    /\ TrapFrame(cur)' = [TrapFrame(cur) EXCEPT ![2] = proc'[q].pid]
    BY DEF ChildIsCopy
<1>1. Fork
    BY OnlyFork
<1>2. Children(Now, proc, cur, Now', proc') /\ cur' = cur
    BY <1>1, ForkChild DEF Fork
<1>3. q \in LiveIn(proc') \ LiveIn(proc)
    BY NowStates
<1>4. /\ TrapFrame(cur) = Now.mem[proc[cur].kstack]
      /\ TrapFrame(q)' = Now'.mem[proc'[q].kstack]
      /\ TrapFrame(cur)' = Now'.mem[proc'[cur].kstack]
    BY <1>2 DEF TrapFrame, Now
<1>5. Image(proc[cur].pg_dir) = ImageOf(Now, proc[cur].pg_dir)
    BY DEF Image, ImageOf, UserPages, UserVPs, Now
<1>6. Image(proc[q].pg_dir)' = ImageOf(Now', proc'[q].pg_dir)
    BY DEF Image, ImageOf, UserPages, UserVPs, Now
<1>7. PICK s, t, pr, pr2, c : s = Now /\ t = Now' /\ pr = proc /\ pr2 = proc' /\ c = cur
    OBVIOUS
<1>8. /\ ImageOf(t, pr2[q].pg_dir) = ImageOf(s, pr[c].pg_dir)
      /\ t.mem[pr2[q].kstack] = [s.mem[pr[c].kstack] EXCEPT ![2] = 0]
      /\ t.mem[pr2[c].kstack] = [s.mem[pr[c].kstack] EXCEPT ![2] = pr2[q].pid]
    BY <1>2, <1>3, <1>7 DEF Children
<1>9. QED
    BY <1>4, <1>5, <1>6, <1>7, <1>8

(* Memory is private: no step touches the pages or the trap frame of a      *)
(* process but the one that takes it, no system call but exec the caller's  *)
(* own pages, and what fork gives the child is a copy (sys_fork, vm_clone,  *)
(* vm_free_pg_dir, do_exec, trap_fork_proc and the page tables).            *)
THEOREM MemoryPrivate == Spec => ImagesPrivate
<1>1. IInv /\ [Next]_vars => [~wild' => OthersKept /\ ChildIsCopy]_vars
    BY OthersUntouched, ImageCopied
<1>2. QED
    BY <1>1, Invariance, PTL DEF Spec, ImagesPrivate
=============================================================================
