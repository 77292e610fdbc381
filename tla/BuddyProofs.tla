---------------------------- MODULE BuddyProofs ----------------------------
(* Proofs about Buddy, for any range of pages, any number of orders and any *)
(* requests, up to the first stale unlink.                                  *)
EXTENDS Buddy, FiniteSetTheorems, NaturalsInduction, TLAPS

(* The block that the call in progress has in hand.                         *)
TaskBlocks ==
    IF task.op = "split" THEN {<<task.idx, task.i>>}
    ELSE IF task.op = "merge" THEN {<<task.idx, task.order>>} ELSE {}

Blocks == held \cup TaskBlocks \cup FreeBlocks

(* A block is aligned to its size, and lies within the range.               *)
Aligned(b) == b \in Nat \X (0 .. MAX_ORDER) /\ \E q \in Nat : b[1] = Size[b[2]] * q

Fits(b) == Aligned(b) /\ First <= b[1] /\ b[1] + Size[b[2]] <= Last

Tiling(B) == (\A b \in B : Fits(b)) /\ Apart(B)

(* The blocks in use, in hand and free are different blocks and tile the    *)
(* range.                                                                   *)
Tiled ==
    /\ Tiling(Blocks)
    /\ held \cap FreeBlocks = {} /\ TaskBlocks \cap (held \cup FreeBlocks) = {}
    /\ lost \/ CoverOf(Blocks) = Pages

(* Two buddies are not both free, but at the highest order.                 *)
NoBuddies ==
    \A o \in 0 .. MAX_ORDER - 2 : \A i \in FreeList(o) : BuddyIdx(i, o) \notin FreeList(o)

(* prev_pg is right but at the head of a list, whose prev_pg is whatever it *)
(* was; nothing leads back to the head.                                     *)
Linked ==
    \A o \in Levels : \A m \in FreeList(o) :
        /\ next_pg[m] # order_list[o]
        /\ next_pg[m] # Nil => prev_pg[next_pg[m]] = m

(* Blocks handed out have the order that was asked for.                     *)
Asked ==
    /\ \A b \in held : b[2] \in Orders
    /\ task.op = "split" => task.order \in Orders /\ task.order <= task.i

Good == TypeOK /\ Tiled /\ NoBuddies /\ Linked /\ Asked
BInv == stale \/ Good
-----------------------------------------------------------------------------
(* Numbers and recursion                                                    *)

(* A set of natural numbers that is not empty has a least element.          *)
LEMMA Least ==
    ASSUME NEW S \in SUBSET Nat, S # {}
    PROVE  \E x \in S : \A y \in S : x <= y
<1>1. PICK x \in S : \A y \in S : ~(<<y, x>> \in OpToRel(<, Nat))
    BY NatLessThanWellFounded, WFMin
<1>2. \A y \in S : ~(y < x)
    BY <1>1 DEF OpToRel
<1>3. QED
    BY <1>2

(* A bounded one has a greatest.                                            *)
LEMMA Greatest ==
    ASSUME NEW n \in Nat, NEW S \in SUBSET (0 .. n), S # {}
    PROVE  \E x \in S : \A y \in S : y <= x
<1> DEFINE T == {n - x : x \in S}
<1>1. T \in SUBSET Nat /\ T # {}
  <2>1. \A x \in S : n - x \in Nat
      OBVIOUS
  <2>2. QED
      BY <2>1
<1>2. PICK t \in T : \A u \in T : t <= u
    BY <1>1, Least
<1>3. PICK x \in S : t = n - x
    OBVIOUS
<1>4. \A y \in S : n - x <= n - y
    BY <1>2, <1>3
<1>5. ASSUME NEW y \in S PROVE y <= x
  <2>1. y \in 0 .. n /\ x \in 0 .. n /\ n - x <= n - y
      BY <1>4
  <2>2. QED
      BY <2>1
<1>6. QED
    BY <1>5

Unrolls(f, a, h, n) == f[0] = a /\ \A k \in 1 .. n : f[k] = h[f[k - 1]]

(* A function is defined by its first value and the step from each to the   *)
(* next.                                                                    *)
LEMMA Recursion ==
    ASSUME NEW S, NEW a \in S, NEW h \in [S -> S], NEW n \in Nat
    PROVE  \E f \in [0 .. n -> S] : Unrolls(f, a, h, n)
<1> USE DEF Unrolls
<1> DEFINE Upto(m) == \E f \in [0 .. m -> S] : Unrolls(f, a, h, m)
<1> DEFINE Bad == {m \in Nat : ~Upto(m)}
<1>1. Upto(0)
  <2> DEFINE f == [k \in 0 .. 0 |-> a]
  <2>1. f \in [0 .. 0 -> S] /\ f[0] = a
      OBVIOUS
  <2>2. \A k \in 1 .. 0 : f[k] = h[f[k - 1]]
      OBVIOUS
  <2> HIDE DEF f
  <2>3. QED
      BY <2>1, <2>2
<1>2. ASSUME NEW m \in Nat, Upto(m) PROVE Upto(m + 1)
  <2>1. PICK f \in [0 .. m -> S] : f[0] = a /\ \A k \in 1 .. m : f[k] = h[f[k - 1]]
      BY <1>2
  <2> DEFINE g == [k \in 0 .. m + 1 |-> IF k = m + 1 THEN h[f[m]] ELSE f[k]]
  <2>2. g \in [0 .. m + 1 -> S]
      OBVIOUS
  <2>3. g[0] = a /\ \A k \in 1 .. m + 1 : g[k] = h[g[k - 1]]
      BY <2>1
  <2>4. QED
      BY <2>2, <2>3
<1>3. Bad = {}
  <2> SUFFICES ASSUME Bad # {} PROVE FALSE
      OBVIOUS
  <2>1. PICK m \in Bad : \A y \in Bad : m <= y
      BY Least
  <2>2. m \in Nat /\ ~Upto(m)
      OBVIOUS
  <2>3. m # 0
      BY <1>1, <2>2
  <2>4. m - 1 \in Nat /\ ~(m <= m - 1)
      BY <2>2, <2>3
  <2>9. m - 1 \notin Bad
      BY <2>1, <2>4
  <2>5. Upto(m - 1)
      BY <2>4, <2>9
  <2>6. Upto((m - 1) + 1)
      BY <1>2, <2>4, <2>5
  <2>7. (m - 1) + 1 = m
      BY <2>2
  <2> HIDE DEF Upto
  <2>8. QED
      BY <2>2, <2>6, <2>7
<1>4. QED
    BY <1>3

(* 1 << order doubles with each order.                                      *)
LEMMA SizeDoubles ==
    /\ Size \in [0 .. MAX_ORDER -> Nat \ {0}]
    /\ Size[0] = 1
    /\ \A o \in Levels : o + 1 \in 0 .. MAX_ORDER /\ Size[o + 1] = 2 * Size[o]
<1> DEFINE Rule(f) == f = [o \in 0 .. MAX_ORDER |-> IF o = 0 THEN 1 ELSE 2 * f[o - 1]]
<1>1. MAX_ORDER \in Nat
    BY OrderAssumption
<1>2. PICK f \in [0 .. MAX_ORDER -> Nat \ {0}] :
         f[0] = 1 /\ \A k \in 1 .. MAX_ORDER : f[k] = 2 * f[k - 1]
  <2> DEFINE twice == [x \in Nat \ {0} |-> 2 * x]
  <2> DEFINE N == Nat \ {0}
  <2>1. twice \in [N -> N] /\ 1 \in N /\ \A x \in N : twice[x] = 2 * x
      OBVIOUS
  <2> HIDE DEF twice, N
  <2>2. PICK f \in [0 .. MAX_ORDER -> N] : Unrolls(f, 1, twice, MAX_ORDER)
      BY <1>1, <2>1, Recursion
  <2>3. \A k \in 1 .. MAX_ORDER : f[k - 1] \in N
      BY <1>1, <2>2
  <2>4. \A k \in 1 .. MAX_ORDER : f[k] = 2 * f[k - 1]
      BY <2>1, <2>2, <2>3 DEF Unrolls
  <2>5. QED
      BY <2>2, <2>4 DEF N, Unrolls
<1>3. Rule(f)
    BY <1>1, <1>2
<1>4. Size = CHOOSE g : Rule(g)
    BY Zenon DEF Size
<1> HIDE DEF Rule
<1>5. Rule(Size)
    BY <1>3, <1>4, Zenon
<1> USE DEF Rule
<1>6. \A k \in 0 .. MAX_ORDER : Size[k] \in Nat \ {0}
  <2> DEFINE Bad == {k \in 0 .. MAX_ORDER : Size[k] \notin Nat \ {0}}
  <2> SUFFICES ASSUME Bad # {} PROVE FALSE
      OBVIOUS
  <2>1. Bad \in SUBSET Nat
      BY <1>1
  <2>2. PICK k \in Bad : \A y \in Bad : k <= y
      BY <2>1, Least
  <2>3. k # 0 /\ k \in 0 .. MAX_ORDER
      BY <1>1, <1>5
  <2>4. k - 1 \in 0 .. MAX_ORDER /\ ~(k <= k - 1)
      BY <1>1, <2>3
  <2>5. k - 1 \notin Bad
      BY <2>2, <2>4
  <2>6. Size[k - 1] \in Nat \ {0}
      BY <2>4, <2>5
  <2>7. Size[k] = 2 * Size[k - 1]
      BY <1>5, <2>3
  <2>8. QED
      BY <2>6, <2>7
<1>7. Size[0] = 1
    BY <1>1, <1>5
<1>8. ASSUME NEW o \in Levels
      PROVE  o + 1 \in 0 .. MAX_ORDER /\ Size[o + 1] = 2 * Size[o]
  <2>1. o + 1 \in 0 .. MAX_ORDER /\ o + 1 # 0 /\ (o + 1) - 1 = o
      BY <1>1 DEF Levels
  <2>2. QED
      BY <1>5, <2>1
<1>9. QED
    BY <1>5, <1>6, <1>7, <1>8

-----------------------------------------------------------------------------
(* Blocks                                                                   *)

(* The size of an order is a multiple of that of a lower one.               *)
LEMMA SizeDivides ==
    ASSUME NEW m \in 0 .. MAX_ORDER, NEW o \in 0 .. MAX_ORDER, m <= o
    PROVE  \E d \in Nat \ {0} : Size[o] = Size[m] * d
<1> DEFINE Bad == {x \in 0 .. MAX_ORDER : m <= x /\ ~\E d \in Nat \ {0} : Size[x] = Size[m] * d}
<1>1. MAX_ORDER \in Nat /\ Size[m] \in Nat \ {0}
    BY OrderAssumption, SizeDoubles
<1> SUFFICES ASSUME Bad # {} PROVE FALSE
    OBVIOUS
<1>2. Bad \in SUBSET Nat
    BY <1>1
<1>3. PICK x \in Bad : \A y \in Bad : x <= y
    BY <1>2, Least
<1>4. x \in 0 .. MAX_ORDER /\ m <= x /\ ~\E d \in Nat \ {0} : Size[x] = Size[m] * d
    OBVIOUS
<1>5. x # m
  <2>1. Size[m] = Size[m] * 1
      BY <1>1
  <2>2. 1 \in Nat \ {0}
      OBVIOUS
  <2>3. QED
      BY <1>4, <2>1, <2>2
<1>6. x - 1 \in Levels /\ m <= x - 1 /\ x - 1 \in 0 .. MAX_ORDER /\ ~(x <= x - 1) /\ (x - 1) + 1 = x
    BY <1>1, <1>4, <1>5 DEF Levels
<1>7. PICK d \in Nat \ {0} : Size[x - 1] = Size[m] * d
    BY <1>3, <1>6
<1>8. Size[x] = 2 * Size[x - 1]
    BY <1>6, SizeDoubles
<1>9. Size[x] = Size[m] * (2 * d) /\ 2 * d \in Nat \ {0}
    BY <1>1, <1>7, <1>8
<1>10. QED
    BY <1>4, <1>9

(* What multiples of a number lie between multiples of it.                  *)
LEMMA Units ==
    ASSUME NEW u \in Nat \ {0}, NEW q \in Nat, NEW r \in Nat
    PROVE  /\ u * q \in Nat /\ u * (q + r) = u * q + u * r
           /\ u * q < u * r => q + 1 <= r
           /\ q <= r => u * q <= u * r
           /\ u * (q + 1) = u * q + u
    OBVIOUS

(* A block that shares a page with one that is no smaller lies within it.   *)
LEMMA Nested ==
    ASSUME NEW a, NEW b, Aligned(a), Aligned(b), a[2] <= b[2],
           NEW p, p \in PagesOf(a), p \in PagesOf(b)
    PROVE  PagesOf(a) \subseteq PagesOf(b)
<1>1. a[2] \in 0 .. MAX_ORDER /\ b[2] \in 0 .. MAX_ORDER
    BY DEF Aligned
<1> DEFINE u == Size[a[2]]
<1>2. u \in Nat \ {0} /\ Size[b[2]] \in Nat \ {0}
    BY <1>1, SizeDoubles
<1>3. PICK d \in Nat \ {0} : Size[b[2]] = u * d
    BY <1>1, SizeDivides
<1>4. PICK q \in Nat : a[1] = u * q
    BY DEF Aligned
<1>5. PICK r \in Nat : b[1] = Size[b[2]] * r
    BY DEF Aligned
<1>6. p \in a[1] .. a[1] + u - 1 /\ p \in b[1] .. b[1] + Size[b[2]] - 1
    BY DEF PagesOf
<1> HIDE DEF u
<1> DEFINE s == d * r
<1>7. s \in Nat /\ b[1] = u * s
    BY <1>2, <1>3, <1>5
<1> HIDE DEF s
<1>8. u * q < u * (s + d) /\ u * s < u * (q + 1)
  <2>1. u * (s + d) = u * s + u * d /\ u * (q + 1) = u * q + u
      BY <1>2, <1>7, Units
  <2>2. u * q \in Nat /\ u * s \in Nat /\ u * d \in Nat /\ p \in Int
      BY <1>2, <1>4, <1>6, <1>7, Units
  <2>3. QED
      BY <1>2, <1>3, <1>4, <1>6, <1>7, <2>1, <2>2
<1>9. q + 1 <= s + d /\ s <= q
  <2>1. s + d \in Nat /\ q + 1 \in Nat
      BY <1>7
  <2>2. q + 1 <= s + d
      BY <1>2, <1>8, <2>1, Units
  <2>3. s + 1 <= q + 1
      BY <1>2, <1>7, <1>8, <2>1, Units
  <2>4. QED
      BY <1>7, <2>2, <2>3
<1>10. u * (q + 1) <= u * (s + d) /\ u * s <= u * q
    BY <1>2, <1>7, <1>9, Units
<1>11. a[1] + u <= b[1] + Size[b[2]] /\ b[1] <= a[1] /\ a[1] \in Nat /\ b[1] \in Nat
  <2>1. u * (s + d) = u * s + u * d /\ u * (q + 1) = u * q + u
      BY <1>2, <1>7, Units
  <2>2. u * q \in Nat /\ u * s \in Nat
      BY <1>2, <1>7, Units
  <2>3. QED
      BY <1>3, <1>4, <1>7, <1>10, <2>1, <2>2
<1>12. PagesOf(a) = a[1] .. a[1] + u - 1 /\ PagesOf(b) = b[1] .. b[1] + Size[b[2]] - 1
    BY DEF PagesOf, u
<1>13. QED
    BY <1>2, <1>11, <1>12

(* The buddy of the first half of a block is the second, and the other way  *)
(* round.                                                                   *)
LEMMA BuddyHalves ==
    ASSUME NEW o \in Levels, NEW k \in Nat, NEW l, l = Size[o + 1] * k
    PROVE  /\ l \in Nat
           /\ BuddyIdx(l, o) = l + Size[o] /\ BuddyIdx(l + Size[o], o) = l
           /\ Lower(l, l + Size[o]) = l /\ Lower(l + Size[o], l) = l
           /\ l = Size[o] * (2 * k) /\ l + Size[o] = Size[o] * (2 * k + 1)
<1> DEFINE u == Size[o]
<1>1. u \in Nat \ {0} /\ Size[o + 1] = 2 * u
    BY SizeDoubles, OrderAssumption DEF Levels
<1> HIDE DEF u
<1>2. l = u * (2 * k) /\ l + u = u * (2 * k + 1) /\ l \in Nat
    BY <1>1
<1>3. l \div u = 2 * k /\ (l + u) \div u = 2 * k + 1
  <2>1. 2 * k \in Nat /\ 2 * k + 1 \in Nat
      OBVIOUS
  <2>2. \A q \in Nat : (u * q) \div u = q
      BY <1>1
  <2>3. QED
      BY <1>2, <2>1, <2>2
<1>4. (2 * k) % 2 = 0 /\ (2 * k + 1) % 2 # 0
    OBVIOUS
<1>5. BuddyIdx(l, o) = l + u /\ BuddyIdx(l + u, o) = l
    BY <1>1, <1>2, <1>3, <1>4 DEF BuddyIdx, u
<1>6. Lower(l, l + u) = l /\ Lower(l + u, l) = l
    BY <1>1, <1>2 DEF Lower
<1>7. QED
    BY <1>2, <1>5, <1>6 DEF u

(* An aligned block is one of the halves of a block of the next order.      *)
LEMMA IsHalf ==
    ASSUME NEW o \in Levels, NEW q \in Nat, NEW i, i = Size[o] * q
    PROVE  \E k \in Nat : i = Size[o + 1] * k \/ i = Size[o + 1] * k + Size[o]
<1>1. Size[o] \in Nat \ {0} /\ Size[o + 1] = 2 * Size[o]
    BY SizeDoubles, OrderAssumption DEF Levels
<1>2. PICK k \in Nat : q = 2 * k \/ q = 2 * k + 1
  <2>1. q \div 2 \in Nat /\ (q = 2 * (q \div 2) \/ q = 2 * (q \div 2) + 1)
      OBVIOUS
  <2>2. QED
      BY <2>1
<1>3. i = (2 * Size[o]) * k \/ i = (2 * Size[o]) * k + Size[o]
    BY <1>1, <1>2
<1>4. QED
    BY <1>1, <1>3

(* So a block, its buddy and the block they make up.                        *)
LEMMA BuddyPair ==
    ASSUME NEW i, NEW o \in Levels, Fits(<<i, o>>)
    PROVE  \E l \in Nat, k \in Nat :
              /\ l = Size[o + 1] * k
              /\ Lower(i, BuddyIdx(i, o)) = l
              /\ {i, BuddyIdx(i, o)} = {l, l + Size[o]} /\ i # BuddyIdx(i, o)
              /\ BuddyIdx(BuddyIdx(i, o), o) = i
<1>1. PICK q \in Nat : i = Size[o] * q
    BY DEF Fits, Aligned
<1>2. PICK k \in Nat : i = Size[o + 1] * k \/ i = Size[o + 1] * k + Size[o]
    BY <1>1, IsHalf
<1> DEFINE l == Size[o + 1] * k
<1>3. /\ l \in Nat
      /\ BuddyIdx(l, o) = l + Size[o] /\ BuddyIdx(l + Size[o], o) = l
      /\ Lower(l, l + Size[o]) = l /\ Lower(l + Size[o], l) = l
    BY BuddyHalves
<1>4. Size[o] \in Nat \ {0}
    BY SizeDoubles, OrderAssumption DEF Levels
<1>5. i = l \/ i = l + Size[o]
    BY <1>2
<1> HIDE DEF l
<1>6. /\ Lower(i, BuddyIdx(i, o)) = l
      /\ {i, BuddyIdx(i, o)} = {l, l + Size[o]} /\ i # BuddyIdx(i, o)
      /\ BuddyIdx(BuddyIdx(i, o), o) = i
    BY <1>3, <1>4, <1>5
<1>7. QED
    BY <1>3, <1>6 DEF l

-----------------------------------------------------------------------------
(* Tilings                                                                  *)

(* A block's first page is one of its pages, and they are in the range.     *)
LEMMA OwnPages ==
    ASSUME NEW b, Fits(b)
    PROVE  /\ b[1] \in PagesOf(b) /\ b[1] \in Pages /\ PagesOf(b) \subseteq Pages
           /\ b[2] \in 0 .. MAX_ORDER /\ Size[b[2]] \in Nat \ {0}
<1>1. b[1] \in Nat /\ b[2] \in 0 .. MAX_ORDER /\ First <= b[1] /\ b[1] + Size[b[2]] <= Last
    BY DEF Fits, Aligned
<1>2. Size[b[2]] \in Nat \ {0}
    BY <1>1, SizeDoubles
<1>3. First \in Nat /\ Last \in Nat
    BY RangeAssumption
<1>4. QED
    BY <1>1, <1>2, <1>3 DEF PagesOf, Pages

(* The halves of a block have its pages, and none in common.                *)
LEMMA HalfPages ==
    ASSUME NEW l \in Nat, NEW o \in Levels
    PROVE  /\ PagesOf(<<l, o + 1>>) = PagesOf(<<l, o>>) \cup PagesOf(<<l + Size[o], o>>)
           /\ PagesOf(<<l, o>>) \cap PagesOf(<<l + Size[o], o>>) = {}
           /\ <<l, o>> # <<l + Size[o], o>>
<1>1. Size[o] \in Nat \ {0} /\ Size[o + 1] = 2 * Size[o]
    BY SizeDoubles, OrderAssumption DEF Levels
<1>2. QED
    BY <1>1 DEF PagesOf

(* A block fits where its halves do.                                        *)
LEMMA HalvesFit ==
    ASSUME NEW o \in Levels, NEW k \in Nat, NEW l, l = Size[o + 1] * k
    PROVE  Fits(<<l, o + 1>>) <=> Fits(<<l, o>>) /\ Fits(<<l + Size[o], o>>)
<1>1. /\ l \in Nat
      /\ l = Size[o] * (2 * k) /\ l + Size[o] = Size[o] * (2 * k + 1)
    BY BuddyHalves
<1>2. Size[o] \in Nat \ {0} /\ Size[o + 1] = 2 * Size[o]
    BY SizeDoubles, OrderAssumption DEF Levels
<1>3. o \in 0 .. MAX_ORDER /\ o + 1 \in 0 .. MAX_ORDER
    BY OrderAssumption DEF Levels
<1>4. 2 * k \in Nat /\ 2 * k + 1 \in Nat
    OBVIOUS
<1>5. First \in Nat /\ Last \in Nat
    BY RangeAssumption
<1>6. ASSUME Fits(<<l, o + 1>>) PROVE Fits(<<l, o>>) /\ Fits(<<l + Size[o], o>>)
  <2>1. First <= l /\ l + Size[o + 1] <= Last
      BY <1>6 DEF Fits, Aligned
  <2>2. First <= l + Size[o] /\ l + Size[o] <= Last /\ (l + Size[o]) + Size[o] <= Last
      BY <1>1, <1>2, <1>5, <2>1
  <2>3. l + Size[o] \in Nat
      BY <1>1, <1>2
  <2>4. Fits(<<l, o>>)
      BY <1>1, <1>3, <1>4, <2>1, <2>2 DEF Fits, Aligned
  <2>5. Fits(<<l + Size[o], o>>)
      BY <1>1, <1>3, <1>4, <2>2, <2>3 DEF Fits, Aligned
  <2>6. QED
      BY <2>4, <2>5
<1>7. ASSUME Fits(<<l, o>>), Fits(<<l + Size[o], o>>) PROVE Fits(<<l, o + 1>>)
  <2>1. First <= l /\ (l + Size[o]) + Size[o] <= Last
      BY <1>7 DEF Fits, Aligned
  <2>2. l + Size[o + 1] <= Last
      BY <1>1, <1>2, <1>5, <2>1
  <2>3. QED
      BY <1>1, <1>3, <2>1, <2>2 DEF Fits, Aligned
<1>8. QED
    BY <1>6, <1>7

(* Two blocks of a tiling that share a page are one.                        *)
LEMMA SamePage ==
    ASSUME NEW B, Tiling(B), NEW a \in B, NEW b \in B, NEW p, p \in PagesOf(a), p \in PagesOf(b)
    PROVE  a = b
    BY DEF Tiling, Apart

(* Splitting a block of a tiling in two.                                    *)
LEMMA SplitTiling ==
    ASSUME NEW B, Tiling(B), NEW o \in Levels, NEW l, <<l, o + 1>> \in B,
           NEW C, C = (B \ {<<l, o + 1>>}) \cup {<<l, o>>, <<l + Size[o], o>>}
    PROVE  /\ Tiling(C) /\ CoverOf(C) = CoverOf(B)
           /\ <<l, o>> \notin B /\ <<l + Size[o], o>> \notin B /\ <<l, o>> # <<l + Size[o], o>>
           /\ BuddyIdx(l, o) = l + Size[o] /\ BuddyIdx(l + Size[o], o) = l
<1> DEFINE w == <<l, o + 1>>
<1> DEFINE a == <<l, o>>
<1> DEFINE b == <<l + Size[o], o>>
<1>1. Fits(w)
    BY DEF Tiling
<1>2. PICK k \in Nat : l = Size[o + 1] * k
    BY <1>1 DEF Fits, Aligned
<1>3. /\ l \in Nat
      /\ BuddyIdx(l, o) = l + Size[o] /\ BuddyIdx(l + Size[o], o) = l
    BY <1>2, BuddyHalves
<1>4. Fits(a) /\ Fits(b)
    BY <1>1, <1>2, HalvesFit
<1>5. PagesOf(w) = PagesOf(a) \cup PagesOf(b) /\ PagesOf(a) \cap PagesOf(b) = {} /\ a # b
    BY <1>3, HalfPages
<1>6. a # w /\ b # w
    BY DEF Levels
<1>7. l \in PagesOf(a) /\ l + Size[o] \in PagesOf(b)
    BY <1>4, OwnPages
<1> HIDE DEF w, a, b
<1>8. w \in B /\ C = (B \ {w}) \cup {a, b}
    BY DEF w, a, b
<1>9. a \notin B /\ b \notin B
    BY <1>5, <1>6, <1>7, <1>8, SamePage
<1>10. Tiling(C)
  <2>1. \A x \in C : Fits(x)
      BY <1>4, <1>8 DEF Tiling
  <2>2. \A x \in B \ {w} : PagesOf(x) \cap PagesOf(w) = {}
      BY <1>8 DEF Tiling, Apart
  <2>3. \A x, y \in B \ {w} : x # y => PagesOf(x) \cap PagesOf(y) = {}
      BY DEF Tiling, Apart
  <2>4. \A x \in B \ {w} : PagesOf(x) \cap PagesOf(a) = {} /\ PagesOf(x) \cap PagesOf(b) = {}
      BY <1>5, <2>2
  <2>5. Apart(C)
      BY <1>5, <1>8, <2>3, <2>4 DEF Apart
  <2>6. QED
      BY <2>1, <2>5 DEF Tiling
<1>11. CoverOf(C) = CoverOf(B)
    BY <1>5, <1>8 DEF CoverOf
<1>12. QED
    BY <1>3, <1>5, <1>9, <1>10, <1>11 DEF a, b

(* Merging two buddies of a tiling.                                         *)
LEMMA MergeTiling ==
    ASSUME NEW B, Tiling(B), NEW o \in Levels, NEW i,
           <<i, o>> \in B, <<BuddyIdx(i, o), o>> \in B,
           NEW l, l = Lower(i, BuddyIdx(i, o)),
           NEW C, C = (B \ {<<i, o>>, <<BuddyIdx(i, o), o>>}) \cup {<<l, o + 1>>}
    PROVE  Tiling(C) /\ CoverOf(C) = CoverOf(B) /\ <<l, o + 1>> \notin B
<1>1. Fits(<<i, o>>) /\ Fits(<<BuddyIdx(i, o), o>>)
    BY DEF Tiling
<1>2. PICK k \in Nat : /\ l = Size[o + 1] * k /\ l \in Nat
                       /\ {i, BuddyIdx(i, o)} = {l, l + Size[o]} /\ i # BuddyIdx(i, o)
    BY <1>1, BuddyPair
<1> DEFINE w == <<l, o + 1>>
<1> DEFINE a == <<l, o>>
<1> DEFINE b == <<l + Size[o], o>>
<1>3. {<<i, o>>, <<BuddyIdx(i, o), o>>} = {a, b}
    BY <1>2
<1>4. Fits(a) /\ Fits(b) /\ Fits(w)
    BY <1>1, <1>2, <1>3, HalvesFit
<1>5. PagesOf(w) = PagesOf(a) \cup PagesOf(b)
    BY <1>2, HalfPages
<1>6. a # w
    BY DEF Levels
<1>7. l \in PagesOf(a)
    BY <1>4, OwnPages
<1> HIDE DEF w, a, b
<1>8. a \in B /\ b \in B /\ C = (B \ {a, b}) \cup {w}
    BY <1>3 DEF w
<1>9. w \notin B
    BY <1>5, <1>6, <1>7, <1>8, SamePage
<1>10. Tiling(C)
  <2>1. \A x \in C : Fits(x)
      BY <1>4, <1>8 DEF Tiling
  <2>2. \A x \in B \ {a, b} : PagesOf(x) \cap PagesOf(a) = {} /\ PagesOf(x) \cap PagesOf(b) = {}
      BY <1>8 DEF Tiling, Apart
  <2>3. \A x, y \in B \ {a, b} : x # y => PagesOf(x) \cap PagesOf(y) = {}
      BY DEF Tiling, Apart
  <2>4. \A x \in B \ {a, b} : PagesOf(x) \cap PagesOf(w) = {}
      BY <1>5, <2>2
  <2>5. Apart(C)
      BY <1>8, <2>3, <2>4 DEF Apart
  <2>6. QED
      BY <2>1, <2>5 DEF Tiling
<1>11. CoverOf(C) = CoverOf(B)
    BY <1>5, <1>8 DEF CoverOf
<1>12. QED
    BY <1>9, <1>10, <1>11 DEF w

-----------------------------------------------------------------------------
(* Lists                                                                    *)

Closed(S, h, nx) == h \in S \cup {Nil} /\ \A m \in S : nx[m] \in S \cup {Nil}

(* L is what one reaches from the head h.                                   *)
IsList(L, h, nx) ==
    /\ L \subseteq Pages /\ Closed(L, h, nx)
    /\ \A S \in SUBSET Pages : Closed(S, h, nx) => L \subseteq S

Rank == 0 .. Last - First

(* Pages are as many as the turns after which Walk stops.                   *)
LEMMA HowManyPages ==
    /\ Last - First \in Nat \ {0}
    /\ IsFiniteSet(Pages) /\ Cardinality(Pages) = Last - First
    /\ IsFiniteSet(Rank) /\ Cardinality(Rank) = Last - First + 1
<1>1. First \in Nat /\ Last \in Nat /\ First < Last
    BY RangeAssumption
<1>2. IsFiniteSet(First .. Last - 1)
      /\ Cardinality(First .. Last - 1) = IF First > Last - 1 THEN 0 ELSE (Last - 1) - First + 1
    BY <1>1, FS_Interval
<1>3. IsFiniteSet(0 .. Last - First)
      /\ Cardinality(0 .. Last - First) = IF 0 > Last - First THEN 0 ELSE (Last - First) - 0 + 1
    BY <1>1, FS_Interval
<1>4. QED
    BY <1>1, <1>2, <1>3 DEF Pages, Rank

(* Walk finds the nodes of the list, however it is linked: a walk that has  *)
(* not ended after that many turns has gone round in a circle.              *)
LEMMA WalkFinds ==
    ASSUME NEW h \in Nodes, NEW nx \in [Nodes -> Nodes]
    PROVE  IsList(Walk(h, nx) \ {Nil}, h, nx)
<1> DEFINE Rule(f) ==
        f = [k \in 0 .. Last - First |-> IF k = 0 THEN h ELSE
                                         IF f[k - 1] = Nil THEN Nil ELSE nx[f[k - 1]]]
<1> DEFINE at == CHOOSE f : Rule(f)
<1> DEFINE L == Walk(h, nx) \ {Nil}
<1> DEFINE N == Last - First
<1>1. N \in Nat \ {0}
    BY HowManyPages
<1>2. Nil \in Nodes /\ Nil \notin Pages /\ Nodes = Pages \cup {Nil}
    BY RangeAssumption DEF Nodes, Nil, Pages
<1>3. L = {at[k] : k \in DOMAIN at} \ {Nil}
    BY Zenon DEF Walk
<1>4. Rule(at) /\ at \in [0 .. N -> Nodes]
  <2> DEFINE step == [m \in Nodes |-> IF m = Nil THEN Nil ELSE nx[m]]
  <2>1. step \in [Nodes -> Nodes] /\ \A m \in Nodes : step[m] = IF m = Nil THEN Nil ELSE nx[m]
      BY <1>2
  <2> HIDE DEF step, N
  <2>2. PICK f \in [0 .. N -> Nodes] : Unrolls(f, h, step, N)
      BY <1>1, <2>1, Recursion
  <2> USE DEF N
  <2>3. \A k \in 1 .. N : k - 1 \in 0 .. N /\ k \in 0 .. N
      BY <1>1
  <2>4. \A k \in 1 .. N : f[k] = IF f[k - 1] = Nil THEN Nil ELSE nx[f[k - 1]]
      BY <2>1, <2>2, <2>3 DEF Unrolls
  <2>5. \A k \in 0 .. N : k # 0 => k \in 1 .. N
      BY <1>1
  <2>6. Rule(f)
      BY <2>2, <2>4, <2>5 DEF Unrolls
  <2> HIDE DEF Rule
  <2>7. Rule(at)
      BY <2>6, Zenon
  <2> USE DEF Rule
  <2> HIDE DEF at
  <2>8. DOMAIN at = 0 .. N /\ at[0] = h
        /\ \A k \in 1 .. N : at[k] = IF at[k - 1] = Nil THEN Nil ELSE nx[at[k - 1]]
      BY <1>1, <2>7
  <2> DEFINE Bad == {k \in 0 .. N : at[k] \notin Nodes}
  <2>9. Bad = {}
    <3> SUFFICES ASSUME Bad # {} PROVE FALSE
        OBVIOUS
    <3>1. Bad \in SUBSET Nat
        BY <1>1
    <3>2. PICK k \in Bad : \A y \in Bad : k <= y
        BY <3>1, Least
    <3>3. k # 0 /\ k \in 0 .. N
        BY <2>8
    <3>4. k - 1 \in 0 .. N /\ ~(k <= k - 1) /\ k \in 1 .. N
        BY <1>1, <3>3
    <3>5. at[k - 1] \in Nodes
        BY <3>2, <3>4
    <3>6. at[k] \in Nodes
        BY <1>2, <2>8, <3>4, <3>5
    <3>7. QED
        BY <3>6
  <2>10. at \in [0 .. N -> Nodes]
      BY <2>7, <2>8, <2>9
  <2>11. QED
      BY <2>7, <2>10
<1> HIDE DEF at, L
<1>5. /\ at[0] = h
      /\ \A k \in 1 .. N : at[k] = IF at[k - 1] = Nil THEN Nil ELSE nx[at[k - 1]]
    BY <1>1, <1>4
<1>6. L = {at[k] : k \in 0 .. N} \ {Nil}
    BY <1>3, <1>4
<1> HIDE DEF N
<1>7. L \subseteq Pages
  <2>1. \A k \in 0 .. N : at[k] \in Nodes
      BY <1>4 DEF N
  <2>2. QED
      BY <1>2, <1>6, <2>1
<1>8. ASSUME NEW S \in SUBSET Pages, Closed(S, h, nx) PROVE L \subseteq S
  <2> DEFINE Bad == {k \in 0 .. N : at[k] \notin S \cup {Nil}}
  <2>1. Bad = {}
    <3> SUFFICES ASSUME Bad # {} PROVE FALSE
        OBVIOUS
    <3>1. Bad \in SUBSET Nat
        BY <1>1
    <3>2. PICK k \in Bad : \A y \in Bad : k <= y
        BY <3>1, Least
    <3>3. k # 0 /\ k \in 0 .. N
        BY <1>5, <1>8 DEF Closed
    <3>4. k - 1 \in 0 .. N /\ ~(k <= k - 1) /\ k \in 1 .. N
        BY <1>1, <3>3
    <3>5. at[k - 1] \in S \cup {Nil}
        BY <3>2, <3>4
    <3>6. at[k] \in S \cup {Nil}
        BY <1>5, <1>8, <3>4, <3>5 DEF Closed
    <3>7. QED
        BY <3>6
  <2>2. QED
      BY <1>6, <2>1
<1>9. PICK l \in 0 .. N : at[l] = Nil \/ \E j \in 0 .. N : j < l /\ at[j] = at[l]
  <2>1. CASE \E l \in 0 .. N : at[l] = Nil
      BY <2>1
  <2>2. CASE \A l \in 0 .. N : at[l] # Nil
    <3>1. at \in [Rank -> Pages]
        BY <1>2, <1>4, <2>2 DEF Rank, N
    <3>2. IsFiniteSet(Rank) /\ IsFiniteSet(Pages) /\ Cardinality(Pages) < Cardinality(Rank)
        BY HowManyPages
    <3>3. PICK x, y \in Rank : x # y /\ at[x] = at[y]
        BY <3>1, <3>2, FS_PigeonHole
    <3>4. x \in 0 .. N /\ y \in 0 .. N /\ (x < y \/ y < x)
        BY <3>3 DEF Rank, N
    <3>5. QED
        BY <3>3, <3>4
  <2>3. QED
      BY <2>1, <2>2
<1> DEFINE V == {at[k] : k \in 0 .. l - 1} \ {Nil}
<1>10. l \in Nat /\ l <= N /\ N \in Nat
    BY <1>1
<1>11. V \subseteq L
    BY <1>6, <1>10
<1>12. Closed(V, h, nx)
  <2>1. h \in V \cup {Nil}
    <3>1. CASE l = 0
        BY <1>5, <1>9, <3>1
    <3>2. CASE l # 0
        BY <1>5, <1>10, <3>2
    <3>3. QED
        BY <3>1, <3>2
  <2>2. ASSUME NEW m \in V PROVE nx[m] \in V \cup {Nil}
    <3>1. PICK k \in 0 .. l - 1 : m = at[k] /\ m # Nil
        OBVIOUS
    <3>2. k + 1 \in 1 .. N /\ (k + 1) - 1 = k /\ (k + 1 \in 0 .. l - 1 \/ k + 1 = l)
        BY <1>10
    <3>3. at[k + 1] = nx[m]
        BY <1>5, <3>1, <3>2
    <3>4. CASE k + 1 \in 0 .. l - 1
        BY <3>3, <3>4
    <3>5. CASE k + 1 = l
      <4>1. CASE at[l] = Nil
          BY <3>3, <3>5, <4>1
      <4>2. ASSUME NEW j \in 0 .. N, j < l, at[j] = at[l] PROVE at[l] \in V \cup {Nil}
        <5>1. j \in 0 .. l - 1
            BY <1>10, <4>2
        <5>2. QED
            BY <4>2, <5>1
      <4>3. QED
          BY <1>9, <3>3, <3>5, <4>1, <4>2
    <3>6. QED
        BY <3>2, <3>4, <3>5
  <2>3. QED
      BY <2>1, <2>2 DEF Closed
<1>13. L \subseteq V
    BY <1>7, <1>8, <1>11, <1>12
<1>14. L = V
    BY <1>11, <1>13
<1>15. IsList(L, h, nx)
    BY <1>7, <1>8, <1>12, <1>14 DEF IsList
<1>16. QED
    BY <1>15 DEF L

(* There is one list from a head on.                                        *)
LEMMA OneList ==
    ASSUME NEW L, NEW M, NEW h, NEW nx, IsList(L, h, nx), IsList(M, h, nx)
    PROVE  L = M
    BY DEF IsList

(* A list depends on the links of its own nodes alone.                      *)
LEMMA SameLinks ==
    ASSUME NEW L, NEW h, NEW nx, NEW ny, IsList(L, h, nx), \A m \in L : ny[m] = nx[m]
    PROVE  IsList(L, h, ny)
<1>1. Closed(L, h, ny) /\ L \subseteq Pages
    BY DEF IsList, Closed
<1>2. ASSUME NEW S \in SUBSET Pages, Closed(S, h, ny) PROVE L \subseteq S
  <2>1. Closed(S \cap L, h, nx)
      BY <1>1, <1>2 DEF Closed
  <2>2. S \cap L \in SUBSET Pages
      OBVIOUS
  <2>3. QED
      BY <2>1, <2>2 DEF IsList
<1>3. QED
    BY <1>1, <1>2 DEF IsList

(* A node put before the head joins the list.                               *)
LEMMA ListPush ==
    ASSUME NEW L, NEW h, NEW nx, IsList(L, h, nx), NEW i \in Pages, i \notin L,
           NEW ny, ny[i] = h, \A m \in L : ny[m] = nx[m]
    PROVE  IsList(L \cup {i}, i, ny)
<1>1. IsList(L, h, ny)
    BY SameLinks
<1>2. L \cup {i} \subseteq Pages /\ Closed(L \cup {i}, i, ny)
    BY <1>1 DEF IsList, Closed
<1>3. ASSUME NEW S \in SUBSET Pages, Closed(S, i, ny) PROVE L \cup {i} \subseteq S
  <2>1. i \in S
      BY <1>3, RangeAssumption DEF Closed, Pages, Nil
  <2>2. Closed(S, h, ny)
      BY <1>3, <2>1 DEF Closed
  <2>3. QED
      BY <1>1, <2>1, <2>2 DEF IsList
<1>4. QED
    BY <1>2, <1>3 DEF IsList

(* Without its head a list goes on from the next node, if nothing leads     *)
(* back to the head.                                                        *)
LEMMA ListTail ==
    ASSUME NEW L, NEW h, NEW nx, IsList(L, h, nx), h # Nil, \A m \in L : nx[m] # h,
           NEW ny, \A m \in L \ {h} : ny[m] = nx[m]
    PROVE  IsList(L \ {h}, nx[h], ny)
<1>1. h \in L
    BY DEF IsList, Closed
<1>2. L \ {h} \subseteq Pages /\ Closed(L \ {h}, nx[h], ny)
    BY <1>1 DEF IsList, Closed
<1>3. ASSUME NEW S \in SUBSET Pages, Closed(S, nx[h], ny) PROVE L \ {h} \subseteq S
  <2> DEFINE T == (S \cap L) \cup {h}
  <2>1. T \in SUBSET Pages
      BY <1>1 DEF IsList
  <2>2. Closed(T, h, nx)
      BY <1>1, <1>3 DEF Closed, IsList
  <2>3. L \subseteq T
      BY <2>1, <2>2 DEF IsList
  <2>4. QED
      BY <2>3
<1>4. QED
    BY <1>2, <1>3 DEF IsList

(* p is the node before b, and ny the links of nx but for b skipped.        *)
Before(p, b, L, nx) == p \in L /\ nx[p] = b /\ \A m \in L : nx[m] = b => m = p
Skips(ny, p, b, L, nx) == ny[p] = nx[b] /\ \A m \in L \ {p} : ny[m] = nx[m]

(* Past a node that is not the head a list goes on from the one before it.  *)
LEMMA ListUnlink ==
    ASSUME NEW L, NEW h, NEW nx, IsList(L, h, nx), NEW b \in L, b # h,
           NEW p, Before(p, b, L, nx), NEW ny, Skips(ny, p, b, L, nx)
    PROVE  IsList(L \ {b}, h, ny) /\ p # b /\ nx[b] # b
<1> USE DEF Before, Skips
<1>1. p # b
  <2> SUFFICES ASSUME p = b PROVE FALSE
      OBVIOUS
  <2>1. Closed(L \ {b}, h, nx)
      BY DEF IsList, Closed
  <2>2. L \ {b} \in SUBSET Pages
      BY DEF IsList
  <2>3. QED
      BY <2>1, <2>2 DEF IsList
<1>2. nx[b] # b
    BY <1>1
<1>3. L \ {b} \subseteq Pages /\ Closed(L \ {b}, h, ny)
    BY <1>1, <1>2 DEF IsList, Closed
<1>4. ASSUME NEW S \in SUBSET Pages, Closed(S, h, ny) PROVE L \ {b} \subseteq S
  <2> DEFINE T == (S \cap L) \cup {b}
  <2>1. T \in SUBSET Pages
      BY DEF IsList
  <2>2. CASE p \in S
    <3>1. Closed(T, h, nx)
        BY <1>1, <1>4, <2>2 DEF Closed, IsList
    <3>2. L \subseteq T
        BY <2>1, <3>1 DEF IsList
    <3>3. QED
        BY <3>2
  <2>3. CASE p \notin S
    <3>1. Closed(S \cap L, h, nx)
        BY <1>4, <2>3 DEF Closed, IsList
    <3>2. S \cap L \in SUBSET Pages
        OBVIOUS
    <3>3. QED
        BY <3>1, <3>2 DEF IsList
  <2>4. QED
      BY <2>2, <2>3
<1>5. QED
    BY <1>1, <1>2, <1>3, <1>4 DEF IsList

-----------------------------------------------------------------------------
(* Operations on the lists                                                  *)

ListsTyped ==
    /\ order_list \in [Levels -> Nodes]
    /\ next_pg \in [Nodes -> Nodes] /\ prev_pg \in [Nodes -> Nodes]

(* No page is on two lists.                                                 *)
Separate == \A o, l \in Levels : o # l => FreeList(o) \cap FreeList(l) = {}

(* The list of an order is what Walk finds.                                 *)
LEMMA FreeListIs ==
    /\ ListsTyped => \A o \in Levels : IsList(FreeList(o), order_list[o], next_pg)
    /\ ListsTyped' => \A o \in Levels : IsList(FreeList(o)', order_list'[o], next_pg')
<1>1. ASSUME ListsTyped, NEW o \in Levels PROVE IsList(FreeList(o), order_list[o], next_pg)
  <2>1. order_list[o] \in Nodes /\ next_pg \in [Nodes -> Nodes]
      BY <1>1 DEF ListsTyped
  <2>2. QED
      BY <2>1, WalkFinds DEF FreeList
<1>2. ASSUME ListsTyped', NEW o \in Levels PROVE IsList(FreeList(o)', order_list'[o], next_pg')
  <2>1. order_list'[o] \in Nodes /\ next_pg' \in [Nodes -> Nodes]
      BY <1>2 DEF ListsTyped
  <2>2. QED
      BY <2>1, WalkFinds DEF FreeList
<1>3. QED
    BY <1>1, <1>2

(* What a list is made of, in terms of the variables.                       *)
LEMMA ListFacts ==
    ASSUME ListsTyped, NEW o \in Levels
    PROVE  /\ FreeList(o) \subseteq Pages
           /\ order_list[o] # Nil <=> order_list[o] \in FreeList(o)
           /\ order_list[o] = Nil <=> FreeList(o) = {}
           /\ \A m \in FreeList(o) : next_pg[m] \in FreeList(o) \cup {Nil}
           /\ Nil \notin Pages /\ Pages \subseteq Nodes /\ Nil \in Nodes
<1>1. IsList(FreeList(o), order_list[o], next_pg)
    BY FreeListIs
<1>2. Nil \notin Pages /\ Pages \subseteq Nodes /\ Nil \in Nodes
    BY RangeAssumption DEF Pages, Nil, Nodes
<1>3. order_list[o] = Nil => FreeList(o) = {}
  <2>1. ASSUME order_list[o] = Nil PROVE Closed({}, order_list[o], next_pg)
      BY <2>1 DEF Closed
  <2>2. {} \in SUBSET Pages
      OBVIOUS
  <2>3. QED
      BY <1>1, <2>1, <2>2 DEF IsList
<1>4. QED
    BY <1>1, <1>2, <1>3 DEF IsList, Closed

(* __add_free_page_block puts the block on its list and on no other.        *)
LEMMA PushKeeps ==
    ASSUME ListsTyped, Separate, Linked, NEW o \in Levels, NEW i \in Pages,
           \A l \in Levels : i \notin FreeList(l), Push(i, o)
    PROVE  /\ ListsTyped' /\ Linked'
           /\ \A l \in Levels : FreeList(l)' = IF l = o THEN FreeList(o) \cup {i} ELSE FreeList(l)
<1> DEFINE h == order_list[o]
<1>1. h \in Nodes /\ i \in Nodes /\ Nil \in Nodes /\ Nil \notin Pages /\ h # i
    BY ListFacts DEF ListsTyped
<1>2. /\ order_list' = [order_list EXCEPT ![o] = i]
      /\ next_pg' = [next_pg EXCEPT ![i] = h]
      /\ prev_pg' = [prev_pg EXCEPT ![i] = Nil, ![h] = i]
    BY DEF Push
<1> HIDE DEF h
<1>3. ListsTyped'
    BY <1>1, <1>2 DEF ListsTyped
<1>4. /\ \A l \in Levels : order_list'[l] = IF l = o THEN i ELSE order_list[l]
      /\ \A m \in Nodes : next_pg'[m] = IF m = i THEN h ELSE next_pg[m]
      /\ \A m \in Nodes : prev_pg'[m] = IF m = h THEN i ELSE IF m = i THEN Nil ELSE prev_pg[m]
    BY <1>1, <1>2 DEF ListsTyped
<1>5. \A l \in Levels : FreeList(l)' = IF l = o THEN FreeList(o) \cup {i} ELSE FreeList(l)
  <2> SUFFICES ASSUME NEW l \in Levels
               PROVE  FreeList(l)' = IF l = o THEN FreeList(o) \cup {i} ELSE FreeList(l)
      OBVIOUS
  <2>1. /\ IsList(FreeList(l), order_list[l], next_pg)
        /\ IsList(FreeList(l)', order_list'[l], next_pg')
      BY <1>3, FreeListIs
  <2>2. \A m \in FreeList(l) : next_pg'[m] = next_pg[m]
      BY <1>4, ListFacts
  <2>3. CASE l = o
    <3>1. next_pg'[i] = h /\ order_list'[l] = i
        BY <1>1, <1>4, <2>3
    <3>2. IsList(FreeList(l) \cup {i}, i, next_pg')
        BY <2>1, <2>2, <2>3, <3>1, ListPush DEF h
    <3>3. QED
        BY <2>1, <2>3, <3>1, <3>2, OneList
  <2>4. CASE l # o
    <3>1. IsList(FreeList(l), order_list'[l], next_pg')
        BY <1>4, <2>1, <2>2, <2>4, SameLinks
    <3>2. QED
        BY <2>1, <2>4, <3>1, OneList
  <2>5. QED
      BY <2>3, <2>4
<1>6. Linked'
  <2> SUFFICES ASSUME NEW l \in Levels, NEW m \in FreeList(l)'
               PROVE  /\ next_pg'[m] # order_list'[l]
                      /\ next_pg'[m] # Nil => prev_pg'[next_pg'[m]] = m
      BY DEF Linked
  <2>1. CASE m = i
    <3>1. l = o
        BY <1>5, <2>1
    <3>2. next_pg'[m] = h /\ order_list'[l] = i /\ prev_pg'[h] = i
        BY <1>1, <1>4, <2>1, <3>1
    <3>3. QED
        BY <1>1, <2>1, <3>2
  <2>2. CASE m # i
    <3>1. m \in FreeList(l) /\ m \in Nodes
        BY <1>5, <2>2, ListFacts
    <3>2. /\ next_pg[m] # order_list[l] /\ (next_pg[m] # Nil => prev_pg[next_pg[m]] = m)
          /\ next_pg[m] \in FreeList(l) \cup {Nil} /\ next_pg[m] \in Nodes
        BY <3>1, ListFacts DEF Linked
    <3>3. next_pg'[m] = next_pg[m] /\ next_pg[m] # i
        BY <1>1, <1>4, <2>2, <3>1, <3>2
    <3>4. next_pg[m] # Nil => next_pg[m] # h
        BY <3>2, ListFacts DEF Separate, h
    <3>5. QED
        BY <1>4, <3>2, <3>3, <3>4
  <2>3. QED
      BY <2>1, <2>2
<1>7. QED
    BY <1>3, <1>5, <1>6

(* The pop of page_allocator_alloc takes the head off its list.             *)
LEMMA PopKeeps ==
    ASSUME ListsTyped, Separate, Linked, NEW o \in Levels, order_list[o] # Nil,
           Pop(order_list[o], o)
    PROVE  /\ ListsTyped' /\ Linked'
           /\ \A l \in Levels : FreeList(l)' = IF l = o THEN FreeList(o) \ {order_list[o]}
                                               ELSE FreeList(l)
<1> DEFINE h == order_list[o]
<1>1. h \in FreeList(o) /\ h \in Nodes /\ next_pg[h] \in Nodes /\ Nil \in Nodes /\ h # Nil
    BY ListFacts DEF ListsTyped
<1>2. /\ order_list' = [order_list EXCEPT ![o] = next_pg[h]]
      /\ next_pg' = [next_pg EXCEPT ![h] = Nil]
      /\ prev_pg' = prev_pg
    BY DEF Pop
<1>h. h = order_list[o]
    OBVIOUS
<1> HIDE DEF h
<1>3. ListsTyped'
    BY <1>1, <1>2 DEF ListsTyped
<1>4. /\ \A l \in Levels : order_list'[l] = IF l = o THEN next_pg[h] ELSE order_list[l]
      /\ \A m \in Nodes : next_pg'[m] = IF m = h THEN Nil ELSE next_pg[m]
    BY <1>1, <1>2 DEF ListsTyped
<1>5. \A l \in Levels : FreeList(l)' = IF l = o THEN FreeList(o) \ {h} ELSE FreeList(l)
  <2> SUFFICES ASSUME NEW l \in Levels
               PROVE  FreeList(l)' = IF l = o THEN FreeList(o) \ {h} ELSE FreeList(l)
      OBVIOUS
  <2>1. /\ IsList(FreeList(l), order_list[l], next_pg)
        /\ IsList(FreeList(l)', order_list'[l], next_pg')
      BY <1>3, FreeListIs
  <2>2. \A m \in FreeList(l) \ {h} : next_pg'[m] = next_pg[m]
      BY <1>4, ListFacts
  <2>3. CASE l = o
    <3>1. \A m \in FreeList(o) : next_pg[m] # h
        BY <1>h DEF Linked
    <3>2. IsList(FreeList(l) \ {h}, next_pg[h], next_pg')
        BY <1>1, <1>h, <2>1, <2>2, <2>3, <3>1, ListTail
    <3>3. QED
        BY <1>4, <2>1, <2>3, <3>2, OneList
  <2>4. CASE l # o
    <3>1. h \notin FreeList(l)
        BY <1>1, <2>4 DEF Separate
    <3>2. IsList(FreeList(l), order_list'[l], next_pg')
        BY <1>4, <2>1, <2>2, <2>4, <3>1, SameLinks
    <3>3. QED
        BY <2>1, <2>4, <3>2, OneList
  <2>5. QED
      BY <2>3, <2>4
<1>6. Linked'
  <2> SUFFICES ASSUME NEW l \in Levels, NEW m \in FreeList(l)'
               PROVE  /\ next_pg'[m] # order_list'[l]
                      /\ next_pg'[m] # Nil => prev_pg'[next_pg'[m]] = m
      BY DEF Linked
  <2>1. m \in FreeList(l) /\ m \in Nodes /\ m # h
      BY <1>1, <1>5, ListFacts DEF Separate
  <2>2. /\ next_pg[m] # order_list[l] /\ (next_pg[m] # Nil => prev_pg[next_pg[m]] = m)
      BY <2>1 DEF Linked
  <2>3. next_pg'[m] = next_pg[m]
      BY <1>4, <2>1
  <2>4. next_pg[h] # Nil => prev_pg[next_pg[h]] = h
      BY <1>1 DEF Linked
  <2>5. l = o => next_pg[m] # next_pg[h]
    <3> SUFFICES ASSUME l = o, next_pg[m] = next_pg[h] PROVE FALSE
        OBVIOUS
    <3>1. next_pg[h] = Nil
        BY <2>1, <2>2, <2>4
    <3>2. order_list'[o] = Nil
        BY <1>4, <3>1
    <3>3. IsList(FreeList(o)', Nil, next_pg')
        BY <1>3, <3>2, FreeListIs
    <3>4. Closed({}, Nil, next_pg') /\ {} \in SUBSET Pages
        BY DEF Closed
    <3>5. QED
        BY <3>3, <3>4 DEF IsList
  <2>6. QED
      BY <1>2, <1>4, <2>2, <2>3, <2>5
<1>7. QED
    BY <1>3, <1>5, <1>6, <1>h

(* Lines 187-195 take the buddy off its list, unless it is the head and its *)
(* prev_pg is stale.                                                        *)
LEMMA UnlinkKeeps ==
    ASSUME ListsTyped, Separate, Linked, NEW o \in Levels, NEW b \in FreeList(o),
           prev_pg[b] # Nil => order_list[o] # b, Unlink(b, o)
    PROVE  /\ ListsTyped' /\ Linked'
           /\ \A l \in Levels : FreeList(l)' = IF l = o THEN FreeList(o) \ {b} ELSE FreeList(l)
<1> DEFINE n == next_pg[b]
<1>1. b \in Nodes /\ n \in Nodes /\ Nil \in Nodes /\ b # Nil /\ n \in FreeList(o) \cup {Nil}
      /\ FreeList(o) \subseteq Nodes
    BY ListFacts DEF ListsTyped
<1>2. \A m \in FreeList(o) : /\ next_pg[m] # order_list[o]
                             /\ next_pg[m] # Nil => prev_pg[next_pg[m]] = m
    BY DEF Linked
<1>3. \A m \in FreeList(o) : next_pg[m] = n /\ n # Nil => m = b
    BY <1>2
<1>4. IsList(FreeList(o), order_list[o], next_pg)
    BY FreeListIs
<1>5. CASE order_list[o] = b
  <2>1. /\ order_list' = [order_list EXCEPT ![o] = n]
        /\ prev_pg' = [prev_pg EXCEPT ![n] = Nil]
        /\ next_pg' = next_pg
      BY <1>5 DEF Unlink
  <2> HIDE DEF n
  <2>2. ListsTyped'
      BY <1>1, <2>1 DEF ListsTyped
  <2>3. /\ \A l \in Levels : order_list'[l] = IF l = o THEN n ELSE order_list[l]
        /\ \A m \in Nodes : prev_pg'[m] = IF m = n THEN Nil ELSE prev_pg[m]
      BY <1>1, <2>1 DEF ListsTyped
  <2>4. IsList(FreeList(o) \ {b}, n, next_pg)
      BY <1>1, <1>2, <1>4, <1>5, ListTail DEF n
  <2>5. ASSUME NEW l \in Levels
        PROVE  FreeList(l)' = IF l = o THEN FreeList(o) \ {b} ELSE FreeList(l)
    <3>1. IsList(FreeList(l)', order_list'[l], next_pg)
        BY <2>1, <2>2, FreeListIs
    <3>2. IsList(FreeList(l), order_list[l], next_pg)
        BY FreeListIs
    <3>3. QED
        BY <2>3, <2>4, <3>1, <3>2, OneList
  <2>6. Linked'
    <3> SUFFICES ASSUME NEW l \in Levels, NEW m \in FreeList(l)'
                 PROVE  /\ next_pg'[m] # order_list'[l]
                        /\ next_pg'[m] # Nil => prev_pg'[next_pg'[m]] = m
        BY DEF Linked
    <3>1. m \in FreeList(l) /\ m \in Nodes /\ (l = o => m # b)
        BY <2>5, ListFacts
    <3>2. /\ next_pg[m] # order_list[l] /\ (next_pg[m] # Nil => prev_pg[next_pg[m]] = m)
          /\ next_pg[m] \in FreeList(l) \cup {Nil} /\ next_pg[m] \in Nodes
        BY <3>1, ListFacts DEF Linked
    <3>3. next_pg[m] = n => n = Nil
      <4>1. CASE l = o
          BY <1>3, <3>1, <4>1
      <4>2. CASE l # o
          BY <1>1, <3>2, <4>2 DEF Separate
      <4>3. QED
          BY <4>1, <4>2
    <3>4. l = o => next_pg[m] # n
      <4> SUFFICES ASSUME l = o, next_pg[m] = n PROVE FALSE
          OBVIOUS
      <4>1. IsList(FreeList(o)', Nil, next_pg)
          BY <2>4, <2>5, <3>3
      <4>2. Closed({}, Nil, next_pg) /\ {} \in SUBSET Pages
          BY DEF Closed
      <4>3. QED
          BY <4>1, <4>2 DEF IsList
    <3>5. QED
        BY <2>1, <2>3, <3>2, <3>3, <3>4
  <2>7. QED
      BY <2>2, <2>5, <2>6
<1>6. CASE order_list[o] # b
  <2>1. PICK p \in FreeList(o) : next_pg[p] = b
    <3> SUFFICES ASSUME \A m \in FreeList(o) : next_pg[m] # b PROVE FALSE
        OBVIOUS
    <3>1. Closed(FreeList(o) \ {b}, order_list[o], next_pg)
        BY <1>4, <1>6 DEF IsList, Closed
    <3>2. FreeList(o) \ {b} \in SUBSET Pages
        BY <1>4 DEF IsList
    <3>3. QED
        BY <1>4, <3>1, <3>2 DEF IsList
  <2>2. prev_pg[b] = p /\ p # Nil /\ p \in Nodes
      BY <1>1, <1>2, <2>1, ListFacts
  <2>3. /\ order_list' = order_list
        /\ prev_pg' = [prev_pg EXCEPT ![n] = p]
        /\ next_pg' = [next_pg EXCEPT ![p] = n]
      BY <2>2 DEF Unlink
  <2>4. \A m \in FreeList(o) : next_pg[m] = b => m = p
      BY <1>1, <1>2, <2>2
  <2>n. n = next_pg[b]
      OBVIOUS
  <2> HIDE DEF n
  <2>5. ListsTyped'
      BY <1>1, <2>2, <2>3 DEF ListsTyped
  <2>6. /\ \A m \in Nodes : prev_pg'[m] = IF m = n THEN p ELSE prev_pg[m]
        /\ \A m \in Nodes : next_pg'[m] = IF m = p THEN n ELSE next_pg[m]
      BY <1>1, <2>2, <2>3 DEF ListsTyped
  <2>7. next_pg'[p] = n /\ \A m \in FreeList(o) \ {p} : next_pg'[m] = next_pg[m]
      BY <1>1, <2>2, <2>6
  <2>8. IsList(FreeList(o) \ {b}, order_list[o], next_pg') /\ p # b /\ n # b
    <3>1. Before(p, b, FreeList(o), next_pg) /\ Skips(next_pg', p, b, FreeList(o), next_pg)
        BY <2>1, <2>4, <2>7, <2>n DEF Before, Skips
    <3>2. IsList(FreeList(o) \ {b}, order_list[o], next_pg') /\ p # b /\ next_pg[b] # b
        BY <1>4, <1>6, <3>1, ListUnlink
    <3>3. QED
        BY <2>n, <3>2
  <2>9. ASSUME NEW l \in Levels
        PROVE  FreeList(l)' = IF l = o THEN FreeList(o) \ {b} ELSE FreeList(l)
    <3>1. IsList(FreeList(l)', order_list[l], next_pg')
        BY <2>3, <2>5, FreeListIs
    <3>2. CASE l = o
        BY <2>8, <3>1, <3>2, OneList
    <3>3. CASE l # o
      <4>1. p \notin FreeList(l) /\ FreeList(l) \subseteq Nodes
          BY <2>1, <3>3, ListFacts DEF Separate
      <4>2. \A m \in FreeList(l) : next_pg'[m] = next_pg[m]
          BY <2>6, <4>1
      <4>3. IsList(FreeList(l), order_list[l], next_pg)
          BY FreeListIs
      <4>4. IsList(FreeList(l), order_list[l], next_pg')
          BY <4>2, <4>3, SameLinks
      <4>5. QED
          BY <3>1, <3>3, <4>4, OneList
    <3>4. QED
        BY <3>2, <3>3
  <2>10. Linked'
    <3> SUFFICES ASSUME NEW l \in Levels, NEW m \in FreeList(l)'
                 PROVE  /\ next_pg'[m] # order_list'[l]
                        /\ next_pg'[m] # Nil => prev_pg'[next_pg'[m]] = m
        BY DEF Linked
    <3>1. m \in FreeList(l) /\ m \in Nodes /\ (l = o => m # b)
        BY <2>9, ListFacts
    <3>2. /\ next_pg[m] # order_list[l] /\ (next_pg[m] # Nil => prev_pg[next_pg[m]] = m)
          /\ next_pg[m] \in FreeList(l) \cup {Nil} /\ next_pg[m] \in Nodes
        BY <3>1, ListFacts DEF Linked
    <3>3. CASE m = p
      <4>1. l = o
          BY <2>1, <3>1, <3>3 DEF Separate
      <4>2. next_pg'[m] = n /\ prev_pg'[n] = p
          BY <1>1, <2>2, <2>6, <3>3
      <4>3. n # order_list[o]
          BY <1>2, <2>n
      <4>4. QED
          BY <2>3, <3>3, <4>1, <4>2, <4>3
    <3>4. CASE m # p
      <4>1. next_pg'[m] = next_pg[m]
          BY <2>6, <3>1, <3>4
      <4>2. next_pg[m] = n => n = Nil
        <5>1. CASE l = o
            BY <1>3, <3>1, <5>1
        <5>2. CASE l # o
            BY <1>1, <3>2, <5>2 DEF Separate
        <5>3. QED
            BY <5>1, <5>2
      <4>3. QED
          BY <2>3, <2>6, <3>2, <4>1, <4>2
    <3>5. QED
        BY <3>3, <3>4
  <2>11. QED
      BY <2>5, <2>9, <2>10
<1>7. QED
    BY <1>5, <1>6

-----------------------------------------------------------------------------
(* Steps                                                                    *)

(* What is on the lists, as blocks.                                         *)
LEMMA FreeMembers ==
    /\ \A i, o : <<i, o>> \in FreeBlocks <=> o \in Levels /\ i \in FreeList(o)
    /\ \A b \in FreeBlocks : b = <<b[1], b[2]>>
    BY DEF FreeBlocks

(* Lists that differ in one node differ in one block.                       *)
LEMMA FreeBlocksChange ==
    ASSUME NEW o \in Levels, NEW i
    PROVE  /\ (\A l \in Levels : FreeList(l)' = IF l = o THEN FreeList(o) \cup {i} ELSE FreeList(l))
                 => FreeBlocks' = FreeBlocks \cup {<<i, o>>}
           /\ (\A l \in Levels : FreeList(l)' = IF l = o THEN FreeList(o) \ {i} ELSE FreeList(l))
                 => FreeBlocks' = FreeBlocks \ {<<i, o>>}
<1>1. \A b : b \in FreeBlocks <=> \E l \in Levels : \E x \in FreeList(l) : b = <<x, l>>
    BY DEF FreeBlocks
<1>2. \A b : b \in FreeBlocks' <=> \E l \in Levels : \E x \in FreeList(l)' : b = <<x, l>>
    BY DEF FreeBlocks
<1>3. ASSUME \A l \in Levels : FreeList(l)' = IF l = o THEN FreeList(o) \cup {i} ELSE FreeList(l)
      PROVE  FreeBlocks' = FreeBlocks \cup {<<i, o>>}
    BY <1>1, <1>2, <1>3
<1>4. ASSUME \A l \in Levels : FreeList(l)' = IF l = o THEN FreeList(o) \ {i} ELSE FreeList(l)
      PROVE  FreeBlocks' = FreeBlocks \ {<<i, o>>}
    BY <1>1, <1>2, <1>4
<1>5. QED
    BY <1>3, <1>4

(* Free blocks are aligned and on one list each.                            *)
LEMMA FreeFacts ==
    ASSUME Good
    PROVE  /\ ListsTyped /\ Separate /\ Linked
           /\ \A o \in Levels : \A i \in FreeList(o) : <<i, o>> \in Blocks /\ Fits(<<i, o>>)
           /\ \A b \in TaskBlocks : b \in Blocks /\ Fits(b)
           /\ \A b \in TaskBlocks, o \in Levels : \A p \in PagesOf(b) : p \notin FreeList(o)
<1>1. ListsTyped /\ Linked /\ Tiled
    BY DEF Good, ListsTyped, TypeOK
<1>2. \A o \in Levels : \A i \in FreeList(o) : <<i, o>> \in FreeBlocks
    BY FreeMembers
<1>3. \A b \in Blocks : Fits(b) /\ b[1] \in PagesOf(b)
    BY <1>1, OwnPages DEF Tiled, Tiling
<1>4. \A o \in Levels : \A i \in FreeList(o) : <<i, o>> \in Blocks /\ Fits(<<i, o>>)
    BY <1>2, <1>3 DEF Blocks
<1>5. Separate
  <2> SUFFICES ASSUME NEW o \in Levels, NEW l \in Levels, NEW i \in FreeList(o), i \in FreeList(l)
               PROVE  o = l
      BY DEF Separate
  <2> DEFINE a == <<i, o>>
  <2> DEFINE b == <<i, l>>
  <2>1. a \in Blocks /\ b \in Blocks /\ a[1] = i /\ b[1] = i /\ (a = b => o = l)
      BY <1>4
  <2> HIDE DEF a, b
  <2>2. i \in PagesOf(a) /\ i \in PagesOf(b)
      BY <1>3, <2>1
  <2>3. QED
      BY <1>1, <2>1, <2>2, SamePage DEF Tiled
<1>6. \A b \in TaskBlocks : b \in Blocks /\ Fits(b)
    BY <1>3 DEF Blocks
<1>7. ASSUME NEW b \in TaskBlocks, NEW o \in Levels, NEW p \in PagesOf(b), p \in FreeList(o)
      PROVE  FALSE
  <2> DEFINE a == <<p, o>>
  <2>1. a \in FreeBlocks /\ a \in Blocks /\ a[1] = p
      BY <1>2, <1>4, <1>7
  <2> HIDE DEF a
  <2>2. a = b
      BY <1>1, <1>3, <1>6, <2>1, SamePage DEF Tiled
  <2>3. QED
      BY <1>1, <2>1, <2>2 DEF Tiled
<1>8. QED
    BY <1>1, <1>4, <1>5, <1>6, <1>7

(* Blocks that change hands tile the range as before.                       *)
LEMMA Rearranged ==
    ASSUME Tiled, Blocks' = Blocks, lost' = lost,
           held' \cap FreeBlocks' = {}, TaskBlocks' \cap (held' \cup FreeBlocks') = {}
    PROVE  Tiled'
    BY DEF Tiled

(* A list that loses a node gains no buddies.                               *)
LEMMA FewerFree ==
    ASSUME NoBuddies, \A o \in Levels : FreeList(o)' \subseteq FreeList(o)
    PROVE  NoBuddies'
<1>1. 0 .. MAX_ORDER - 2 \subseteq Levels
    BY OrderAssumption DEF Levels
<1>2. QED
    BY <1>1 DEF NoBuddies

(* Nor does one that gains a node whose buddy is not on it.                 *)
LEMMA OneMoreFree ==
    ASSUME Good, NEW o \in Levels, NEW i, Fits(<<i, o>>), BuddyIdx(i, o) \notin FreeList(o),
           \A l \in Levels : FreeList(l)' = IF l = o THEN FreeList(o) \cup {i} ELSE FreeList(l)
    PROVE  NoBuddies'
<1>1. 0 .. MAX_ORDER - 2 \subseteq Levels
    BY OrderAssumption DEF Levels
<1> SUFFICES ASSUME NEW l \in 0 .. MAX_ORDER - 2, NEW x \in FreeList(l)'
             PROVE  BuddyIdx(x, l) \notin FreeList(l)'
    BY DEF NoBuddies
<1>2. l \in Levels
    BY <1>1
<1>3. CASE l # o
    BY <1>2, <1>3 DEF Good, NoBuddies
<1>4. CASE l = o
  <2>1. BuddyIdx(i, o) # i /\ BuddyIdx(BuddyIdx(i, o), o) = i
      BY BuddyPair
  <2>2. CASE x = i
      BY <1>4, <2>1, <2>2
  <2>3. CASE x # i
    <3>1. x \in FreeList(o)
        BY <1>4, <2>3
    <3>2. Fits(<<x, o>>)
        BY <3>1, FreeFacts
    <3>3. BuddyIdx(BuddyIdx(x, o), o) = x
        BY <3>2, BuddyPair
    <3>4. BuddyIdx(x, o) # i
        BY <3>1, <3>3
    <3>5. BuddyIdx(x, o) \notin FreeList(o)
        BY <1>4, <3>1 DEF Good, NoBuddies
    <3>6. QED
        BY <1>4, <3>4, <3>5
  <2>4. QED
      BY <2>2, <2>3
<1>5. QED
    BY <1>3, <1>4

(* page_allocator_alloc takes a free block in hand.                         *)
LEMMA AllocPopStep == ASSUME Good, NEW order \in Orders, AllocPop(order) PROVE Good'
<1>1. PICK o \in Levels :
         /\ o >= order /\ order_list[o] # Nil
         /\ task' = [op |-> "split", idx |-> order_list[o], order |-> order, i |-> o]
         /\ Pop(order_list[o], o)
    BY DEF AllocPop
<1> DEFINE h == order_list[o]
<1>2. task = Idle /\ UNCHANGED <<held, stale, lost>>
    BY DEF AllocPop
<1>3. ListsTyped /\ Separate /\ Linked
    BY FreeFacts
<1>4. /\ ListsTyped' /\ Linked'
      /\ \A l \in Levels : FreeList(l)' = IF l = o THEN FreeList(o) \ {h} ELSE FreeList(l)
    BY <1>1, <1>3, PopKeeps
<1>5. h \in FreeList(o) /\ h \in Pages
    BY <1>1, <1>3, ListFacts
<1> HIDE DEF h
<1>6. FreeBlocks' = FreeBlocks \ {<<h, o>>} /\ <<h, o>> \in FreeBlocks
    BY <1>4, <1>5, FreeBlocksChange, FreeMembers
<1>7. TaskBlocks = {}
    BY <1>2 DEF TaskBlocks, Idle
<1>8. task' = [op |-> "split", idx |-> h, order |-> order, i |-> o]
    BY <1>1 DEF h
<1>9. TaskBlocks' = {<<h, o>>}
    BY <1>8 DEF TaskBlocks
<1>10. Tiled'
  <2>1. Blocks' = Blocks
      BY <1>2, <1>6, <1>7, <1>9 DEF Blocks
  <2>2. Tiled
      BY DEF Good
  <2>3. held' \cap FreeBlocks' = {} /\ TaskBlocks' \cap (held' \cup FreeBlocks') = {}
      BY <1>2, <1>6, <1>9, <2>2 DEF Tiled
  <2>4. QED
      BY <1>2, <2>1, <2>2, <2>3, Rearranged
<1>11. NoBuddies'
    BY <1>4, FewerFree DEF Good
<1>12. order \in Levels
    BY OrderAssumption DEF Levels
<1>13. TypeOK'
  <2>1. task' \in [op : {"split"}, idx : Pages, order : Levels, i : Levels]
      BY <1>5, <1>8, <1>12
  <2>2. QED
      BY <1>2, <1>4, <2>1 DEF Good, TypeOK, ListsTyped
<1>14. Asked'
  <2>1. order <= o
      BY <1>1, <1>12 DEF Levels
  <2>2. QED
      BY <1>2, <1>8, <2>1 DEF Good, Asked
<1>15. QED
    BY <1>4, <1>10, <1>11, <1>13, <1>14 DEF Good

(* The call in progress by its kind.                                        *)
LEMMA TaskKinds ==
    ASSUME TypeOK
    PROVE  /\ task.op = "split" =>
                 /\ task \in [op : {"split"}, idx : Pages, order : Levels, i : Levels]
                 /\ TaskBlocks = {<<task.idx, task.i>>}
           /\ task.op = "merge" =>
                 /\ task \in [op : {"merge"}, idx : Pages, order : 0 .. MAX_ORDER]
                 /\ TaskBlocks = {<<task.idx, task.order>>}
           /\ task = Idle => TaskBlocks = {}
    BY DEF TypeOK, TaskBlocks, Idle

(* Its first half stays in hand, its second goes to the list below.         *)
LEMMA AllocSplitStep == ASSUME Good, AllocSplit PROVE Good'
<1> DEFINE o == task.i - 1
<1> DEFINE l == task.idx
<1>1. /\ task.op = "split" /\ task.i > task.order
      /\ task' = [task EXCEPT !.i = @ - 1]
      /\ Push(BuddyIdx(l, o), o)
      /\ UNCHANGED <<held, stale, lost>>
    BY DEF AllocSplit
<1>2. /\ task \in [op : {"split"}, idx : Pages, order : Levels, i : Levels]
      /\ TaskBlocks = {<<task.idx, task.i>>}
    BY <1>1, TaskKinds DEF Good
<1>3. o \in Levels /\ task.i = o + 1 /\ task.order <= o
  <2>1. task.i \in 0 .. MAX_ORDER - 1 /\ task.order \in 0 .. MAX_ORDER - 1 /\ task.i > task.order
      BY <1>1, <1>2 DEF Levels
  <2>2. QED
      BY <2>1, OrderAssumption DEF Levels
<1>4. /\ task' = [op |-> "split", idx |-> l, order |-> task.order, i |-> o]
      /\ task.order \in Levels /\ l \in Pages
    BY <1>1, <1>2
<1>5. TaskBlocks = {<<l, o + 1>>}
    BY <1>2, <1>3
<1> HIDE DEF o, l
<1>6. ListsTyped /\ Separate /\ Linked /\ Tiled /\ <<l, o + 1>> \in Blocks
      /\ \A q \in Levels : \A p \in PagesOf(<<l, o + 1>>) : p \notin FreeList(q)
    BY <1>5, FreeFacts DEF Good
<1> DEFINE x == l + Size[o]
<1> DEFINE C == (Blocks \ {<<l, o + 1>>}) \cup {<<l, o>>, <<l + Size[o], o>>}
<1>7. /\ Tiling(C) /\ CoverOf(C) = CoverOf(Blocks)
      /\ <<l, o>> \notin Blocks /\ <<x, o>> \notin Blocks /\ <<l, o>> # <<x, o>>
      /\ BuddyIdx(l, o) = x /\ BuddyIdx(x, o) = l
    BY <1>3, <1>6, SplitTiling DEF Tiled
<1>8. Fits(<<x, o>>)
    BY <1>7 DEF Tiling
<1>9. x \in Pages /\ x \in PagesOf(<<l, o + 1>>)
  <2>1. x \in PagesOf(<<x, o>>) /\ x \in Pages
      BY <1>8, OwnPages
  <2>2. l \in Nat
      BY <1>4, RangeAssumption DEF Pages
  <2>3. PagesOf(<<l, o + 1>>) = PagesOf(<<l, o>>) \cup PagesOf(<<l + Size[o], o>>)
      BY <1>3, <2>2, HalfPages
  <2>4. QED
      BY <2>1, <2>3
<1>10. C = (Blocks \ {<<l, o + 1>>}) \cup {<<l, o>>, <<x, o>>}
    OBVIOUS
<1> HIDE DEF x, C
<1>11. /\ ListsTyped' /\ Linked'
       /\ \A q \in Levels : FreeList(q)' = IF q = o THEN FreeList(o) \cup {x} ELSE FreeList(q)
  <2>1. Push(x, o)
      BY <1>1, <1>7
  <2>2. \A q \in Levels : x \notin FreeList(q)
      BY <1>6, <1>9
  <2>3. QED
      BY <1>3, <1>6, <1>9, <2>1, <2>2, PushKeeps
<1>12. FreeBlocks' = FreeBlocks \cup {<<x, o>>}
    BY <1>3, <1>11, FreeBlocksChange
<1>13. TaskBlocks' = {<<l, o>>}
    BY <1>4 DEF TaskBlocks
<1>14. Tiled'
  <2>1. <<l, o + 1>> \notin held \cup FreeBlocks
      BY <1>5, <1>6 DEF Tiled
  <2>2. Blocks' = C
      BY <1>1, <1>5, <1>10, <1>12, <1>13, <2>1 DEF Blocks
  <2>3. held' \cap FreeBlocks' = {}
      BY <1>1, <1>6, <1>7, <1>12 DEF Tiled, Blocks
  <2>4. TaskBlocks' \cap (held' \cup FreeBlocks') = {}
      BY <1>1, <1>7, <1>12, <1>13 DEF Blocks
  <2>5. QED
      BY <1>1, <1>6, <1>7, <2>2, <2>3, <2>4 DEF Tiled
<1>15. NoBuddies'
  <2>1. l \notin FreeList(o)
      BY <1>3, <1>7, FreeFacts
  <2>2. QED
      BY <1>3, <1>7, <1>8, <1>11, <2>1, OneMoreFree
<1>16. TypeOK'
  <2>1. task' \in [op : {"split"}, idx : Pages, order : Levels, i : Levels]
      BY <1>3, <1>4
  <2>2. QED
      BY <1>1, <1>11, <2>1 DEF Good, TypeOK, ListsTyped
<1>17. Asked'
    BY <1>1, <1>3, <1>4 DEF Good, Asked
<1>18. QED
    BY <1>11, <1>14, <1>15, <1>16, <1>17 DEF Good

(* The lists are as they were.                                              *)
LEMMA ListsSame ==
    ASSUME Good, UNCHANGED lists
    PROVE  FreeBlocks' = FreeBlocks /\ NoBuddies' /\ Linked' /\ ListsTyped'
<1>1. \A o : FreeList(o)' = FreeList(o)
    BY DEF FreeList, lists
<1>2. FreeBlocks' = FreeBlocks
    BY <1>1 DEF FreeBlocks
<1>3. NoBuddies'
    BY <1>1, FewerFree DEF Good
<1>4. Linked' /\ ListsTyped'
    BY <1>1 DEF Good, Linked, ListsTyped, TypeOK, lists
<1>5. QED
    BY <1>2, <1>3, <1>4

(* The block in hand is handed out.                                         *)
LEMMA AllocReturnStep == ASSUME Good, AllocReturn PROVE Good'
<1>1. /\ task.op = "split" /\ task.i = task.order
      /\ held' = held \cup {<<task.idx, task.order>>}
      /\ task' = Idle /\ UNCHANGED lists /\ stale' = stale /\ lost' = lost
    BY DEF AllocReturn
<1>2. /\ task \in [op : {"split"}, idx : Pages, order : Levels, i : Levels]
      /\ TaskBlocks = {<<task.idx, task.order>>}
    BY <1>1, TaskKinds DEF Good
<1>3. FreeBlocks' = FreeBlocks /\ NoBuddies' /\ Linked' /\ ListsTyped'
    BY <1>1, ListsSame
<1>4. TaskBlocks' = {}
    BY <1>1 DEF TaskBlocks, Idle
<1>5. Tiled'
  <2>1. Tiled
      BY DEF Good
  <2>2. Blocks' = Blocks
      BY <1>1, <1>2, <1>3, <1>4 DEF Blocks
  <2>3. held' \cap FreeBlocks' = {} /\ TaskBlocks' \cap (held' \cup FreeBlocks') = {}
      BY <1>1, <1>2, <1>3, <1>4, <2>1 DEF Tiled
  <2>4. QED
      BY <1>1, <2>1, <2>2, <2>3, Rearranged
<1>6. TypeOK'
    BY <1>1, <1>2, <1>3 DEF Good, TypeOK, ListsTyped, Block
<1>7. Asked'
    BY <1>1 DEF Good, Asked, Idle
<1>8. QED
    BY <1>3, <1>5, <1>6, <1>7 DEF Good

(* page_allocator_free takes a block in use in hand.                        *)
LEMMA FreeCallStep == ASSUME Good, NEW b \in held, FreeCall(b) PROVE Good'
<1>1. /\ task = Idle /\ held' = held \ {b}
      /\ task' = [op |-> "merge", idx |-> b[1], order |-> b[2]]
      /\ UNCHANGED lists /\ stale' = stale /\ lost' = lost
    BY DEF FreeCall
<1>2. b \in Pages \X Levels /\ b = <<b[1], b[2]>> /\ b[1] \in Pages /\ b[2] \in 0 .. MAX_ORDER
    BY OrderAssumption DEF Good, TypeOK, Block, Levels
<1>3. FreeBlocks' = FreeBlocks /\ NoBuddies' /\ Linked' /\ ListsTyped'
    BY <1>1, ListsSame
<1>4. TaskBlocks = {} /\ TaskBlocks' = {b}
    BY <1>1, <1>2 DEF TaskBlocks, Idle
<1>5. Tiled'
  <2>1. Tiled
      BY DEF Good
  <2>2. Blocks' = Blocks
      BY <1>1, <1>3, <1>4 DEF Blocks
  <2>3. held' \cap FreeBlocks' = {} /\ TaskBlocks' \cap (held' \cup FreeBlocks') = {}
      BY <1>1, <1>3, <1>4, <2>1 DEF Tiled
  <2>4. QED
      BY <1>1, <2>1, <2>2, <2>3, Rearranged
<1>6. TypeOK'
  <2>1. task' \in [op : {"merge"}, idx : Pages, order : 0 .. MAX_ORDER]
      BY <1>1, <1>2
  <2>2. QED
      BY <1>1, <1>3, <2>1 DEF Good, TypeOK, ListsTyped
<1>7. Asked'
    BY <1>1 DEF Good, Asked
<1>8. QED
    BY <1>3, <1>5, <1>6, <1>7 DEF Good

(* The buddy found free is taken in hand with the block, unless it makes a  *)
(* stale unlink.                                                            *)
LEMMA FreeMergeStep == ASSUME Good, FreeMerge PROVE BInv'
<1> DEFINE o == task.order
<1> DEFINE i == task.idx
<1> DEFINE b == BuddyIdx(i, o)
<1>1. /\ task.op = "merge" /\ o < MAX_ORDER
      /\ b \in FreeList(o)
      /\ Unlink(b, o)
      /\ stale' = (stale \/ (prev_pg[b] # Nil /\ order_list[o] = b))
      /\ task' = [task EXCEPT !.idx = Lower(i, b), !.order = @ + 1]
      /\ held' = held /\ lost' = lost
    BY DEF FreeMerge
<1> SUFFICES ASSUME ~stale' PROVE Good'
    BY DEF BInv
<1>2. /\ task \in [op : {"merge"}, idx : Pages, order : 0 .. MAX_ORDER]
      /\ TaskBlocks = {<<i, o>>}
    BY <1>1, TaskKinds DEF Good
<1>3. o \in Levels /\ o + 1 \in 0 .. MAX_ORDER
    BY <1>1, <1>2, OrderAssumption DEF Levels
<1>4. task' = [op |-> "merge", idx |-> Lower(i, b), order |-> o + 1]
    BY <1>1, <1>2
<1> HIDE DEF o, i
<1>5. ListsTyped /\ Separate /\ Linked /\ Tiled /\ <<i, o>> \in Blocks /\ <<b, o>> \in Blocks
    BY <1>1, <1>2, <1>3, FreeFacts DEF Good
<1> DEFINE l == Lower(i, b)
<1> DEFINE C == (Blocks \ {<<i, o>>, <<b, o>>}) \cup {<<l, o + 1>>}
<1>6. Tiling(C) /\ CoverOf(C) = CoverOf(Blocks) /\ <<l, o + 1>> \notin Blocks
    BY <1>3, <1>5, MergeTiling DEF Tiled
<1>7. prev_pg[b] # Nil => order_list[o] # b
    BY <1>1
<1> HIDE DEF b, l
<1>8. /\ ListsTyped' /\ Linked'
      /\ \A q \in Levels : FreeList(q)' = IF q = o THEN FreeList(o) \ {b} ELSE FreeList(q)
    BY <1>1, <1>3, <1>5, <1>7, UnlinkKeeps
<1>9. FreeBlocks' = FreeBlocks \ {<<b, o>>} /\ <<b, o>> \in FreeBlocks
    BY <1>1, <1>3, <1>8, FreeBlocksChange, FreeMembers
<1>10. TaskBlocks' = {<<l, o + 1>>}
    BY <1>4 DEF TaskBlocks, l
<1>11. Tiled'
  <2>1. <<i, o>> \notin held \cup FreeBlocks /\ <<b, o>> \notin held
      BY <1>2, <1>5, <1>9 DEF Tiled
  <2>2. Blocks' = C
      BY <1>1, <1>2, <1>9, <1>10, <2>1 DEF Blocks
  <2>3. held' \cap FreeBlocks' = {} /\ TaskBlocks' \cap (held' \cup FreeBlocks') = {}
      BY <1>1, <1>5, <1>6, <1>9, <1>10 DEF Tiled, Blocks
  <2>4. QED
      BY <1>1, <1>5, <1>6, <2>2, <2>3 DEF Tiled
<1>12. NoBuddies'
    BY <1>8, FewerFree DEF Good
<1>13. TypeOK'
  <2>1. Fits(<<l, o + 1>>)
      BY <1>6 DEF Tiling
  <2>2. l \in Pages
      BY <2>1, OwnPages
  <2>3. task' \in [op : {"merge"}, idx : Pages, order : 0 .. MAX_ORDER]
      BY <1>3, <1>4, <2>2 DEF l
  <2>4. stale' \in BOOLEAN
      BY <1>1
  <2>5. QED
      BY <1>1, <1>8, <2>3, <2>4 DEF Good, TypeOK, ListsTyped
<1>14. Asked'
    BY <1>1, <1>4 DEF Good, Asked
<1>15. QED
    BY <1>8, <1>11, <1>12, <1>13, <1>14 DEF Good

(* The block goes to the list of its order, where its buddy is not.         *)
LEMMA FreePushStep == ASSUME Good, FreePush PROVE Good'
<1> DEFINE o == task.order
<1> DEFINE i == task.idx
<1>1. /\ task.op = "merge" /\ o < MAX_ORDER
      /\ BuddyIdx(i, o) \notin FreeList(o)
      /\ Push(i, o) /\ task' = Idle
      /\ UNCHANGED <<held, stale, lost>>
    BY DEF FreePush
<1>2. /\ task \in [op : {"merge"}, idx : Pages, order : 0 .. MAX_ORDER]
      /\ TaskBlocks = {<<i, o>>}
    BY <1>1, TaskKinds DEF Good
<1>3. o \in Levels /\ i \in Pages
    BY <1>1, <1>2, OrderAssumption DEF Levels
<1> HIDE DEF o, i
<1>4. ListsTyped /\ Separate /\ Linked /\ Tiled /\ Fits(<<i, o>>)
      /\ \A q \in Levels : \A p \in PagesOf(<<i, o>>) : p \notin FreeList(q)
    BY <1>2, FreeFacts DEF Good
<1>5. \A q \in Levels : i \notin FreeList(q)
    BY <1>4, OwnPages
<1>6. /\ ListsTyped' /\ Linked'
      /\ \A q \in Levels : FreeList(q)' = IF q = o THEN FreeList(o) \cup {i} ELSE FreeList(q)
    BY <1>1, <1>3, <1>4, <1>5, PushKeeps
<1>7. FreeBlocks' = FreeBlocks \cup {<<i, o>>}
    BY <1>3, <1>6, FreeBlocksChange
<1>8. TaskBlocks' = {}
    BY <1>1 DEF TaskBlocks, Idle
<1>9. Tiled'
  <2>1. Blocks' = Blocks
      BY <1>1, <1>2, <1>7, <1>8 DEF Blocks
  <2>2. held' \cap FreeBlocks' = {} /\ TaskBlocks' \cap (held' \cup FreeBlocks') = {}
      BY <1>1, <1>2, <1>4, <1>7, <1>8 DEF Tiled
  <2>3. QED
      BY <1>1, <1>4, <2>1, <2>2, Rearranged
<1>10. NoBuddies'
    BY <1>1, <1>3, <1>4, <1>6, OneMoreFree
<1>11. TypeOK'
    BY <1>1, <1>6 DEF Good, TypeOK, ListsTyped
<1>12. Asked'
    BY <1>1 DEF Good, Asked, Idle
<1>13. QED
    BY <1>6, <1>9, <1>10, <1>11, <1>12 DEF Good

(* A block of more than the highest order is dropped.                       *)
LEMMA FreeDropStep == ASSUME Good, FreeDrop PROVE Good'
<1>1. /\ lost' = TRUE /\ task' = Idle
      /\ UNCHANGED lists /\ held' = held /\ stale' = stale
    BY DEF FreeDrop
<1>2. FreeBlocks' = FreeBlocks /\ NoBuddies' /\ Linked' /\ ListsTyped'
    BY <1>1, ListsSame
<1>3. TaskBlocks' = {}
    BY <1>1 DEF TaskBlocks, Idle
<1>4. Tiled'
  <2>1. Blocks' \subseteq Blocks
      BY <1>1, <1>2, <1>3 DEF Blocks
  <2>2. Tiled
      BY DEF Good
  <2>3. Tiling(Blocks')
      BY <2>1, <2>2 DEF Tiled, Tiling, Apart
  <2>4. QED
      BY <1>1, <1>2, <1>3, <2>2, <2>3 DEF Tiled
<1>5. TypeOK'
    BY <1>1, <1>2 DEF Good, TypeOK, ListsTyped
<1>6. Asked'
    BY <1>1 DEF Good, Asked, Idle
<1>7. QED
    BY <1>2, <1>4, <1>5, <1>6 DEF Good

-----------------------------------------------------------------------------
(* The initial lists                                                        *)

(* __page_allocator_init takes the largest aligned block that fits.         *)
LEMMA InitOrderIs ==
    ASSUME NEW s \in Pages
    PROVE  /\ InitOrder(s) \in Levels /\ Size[InitOrder(s)] \in Nat \ {0}
           /\ s % Size[InitOrder(s)] = 0 /\ s + Size[InitOrder(s)] <= Last
           /\ \A o \in Levels : s % Size[o] = 0 /\ s + Size[o] <= Last => o <= InitOrder(s)
<1> DEFINE S == {o \in Levels : s % Size[o] = 0 /\ s + Size[o] <= Last}
<1>1. S \in SUBSET (0 .. MAX_ORDER) /\ MAX_ORDER \in Nat
    BY OrderAssumption DEF Levels
<1>2. 0 \in S
  <2>1. s \in Nat /\ s + 1 <= Last /\ s % 1 = 0
      BY RangeAssumption DEF Pages
  <2>2. 0 \in Levels
      BY OrderAssumption DEF Levels
  <2>3. QED
      BY <2>1, <2>2, SizeDoubles
<1>3. \E x \in S : \A y \in S : y <= x
    BY <1>1, <1>2, Greatest
<1>4. InitOrder(s) = CHOOSE x \in S : \A y \in S : y <= x
    BY DEF InitOrder, Biggest
<1>5. InitOrder(s) \in S /\ \A y \in S : y <= InitOrder(s)
    BY <1>3, <1>4
<1>6. QED
    BY <1>1, <1>5, SizeDoubles

After(s) == s + Size[InitOrder(s)]

(* The loop moves on and stays in the range.                                *)
LEMMA Onwards == ASSUME NEW s \in Pages PROVE After(s) \in Nat /\ s < After(s) /\ After(s) <= Last
    BY InitOrderIs, RangeAssumption DEF After, Pages

(* Starts is the set of the indices that the loop comes to from s.          *)
LEMMA StartsIs ==
    /\ Starts[Last] = {}
    /\ \A s \in Pages : Starts[s] = {s} \cup Starts[After(s)]
<1> DEFINE Rule(d, f) == f = [s \in Last - d .. Last |->
                                 IF s = Last THEN {} ELSE {s} \cup f[s + Size[InitOrder(s)]]]
<1> DEFINE N == Last - First
<1> DEFINE Bad == {d \in 0 .. N : ~\E f : Rule(d, f)}
<1>1. First \in Nat /\ Last \in Nat /\ First < Last /\ N \in Nat
    BY RangeAssumption
<1>2. \A d \in 0 .. N : \A s \in Last - d .. Last :
         s # Last => /\ s \in Pages /\ After(s) \in Last - d .. Last /\ After(s) # s
                     /\ After(s) # Last - d
  <2> SUFFICES ASSUME NEW d \in 0 .. N, NEW s \in Last - d .. Last, s # Last
               PROVE  /\ s \in Pages /\ After(s) \in Last - d .. Last /\ After(s) # s
                      /\ After(s) # Last - d
      OBVIOUS
  <2>1. s \in Pages /\ s \in Nat /\ d \in Nat
      BY <1>1 DEF Pages
  <2>2. After(s) \in Nat /\ s < After(s) /\ After(s) <= Last
      BY <2>1, Onwards
  <2>3. QED
      BY <1>1, <2>1, <2>2
<1>3. Bad = {}
  <2> SUFFICES ASSUME Bad # {} PROVE FALSE
      OBVIOUS
  <2>1. Bad \in SUBSET Nat
      BY <1>1
  <2>2. PICK d \in Bad : \A y \in Bad : d <= y
      BY <2>1, Least
  <2>3. d \in 0 .. N /\ ~\E f : Rule(d, f)
      OBVIOUS
  <2>4. CASE d = 0
    <3> DEFINE f == [s \in Last - d .. Last |-> {}]
    <3>1. \A s \in Last - d .. Last : s = Last
        BY <1>1, <2>4
    <3>2. Rule(d, f)
        BY <3>1
    <3> HIDE DEF Rule
    <3>3. QED
        BY <2>3, <3>2
  <2>5. CASE d # 0
    <3>1. d - 1 \in 0 .. N /\ ~(d <= d - 1)
        BY <1>1, <2>3, <2>5
    <3>2. PICK f : Rule(d - 1, f)
        BY <2>2, <3>1
    <3> DEFINE g == [s \in Last - d .. Last |->
                        IF s = Last - d THEN {s} \cup f[After(s)] ELSE f[s]]
    <3>3. Last - d # Last /\ \A s \in Last - d .. Last :
             s # Last - d => s \in Last - (d - 1) .. Last
        BY <1>1, <2>3, <2>5
    <3>4. ASSUME NEW s \in Last - d .. Last
          PROVE  g[s] = IF s = Last THEN {} ELSE {s} \cup g[After(s)]
      <4>1. CASE s = Last
          BY <3>2, <3>3, <4>1
      <4>2. CASE s # Last
        <5>1. After(s) \in Last - d .. Last /\ After(s) # Last - d
            BY <1>2, <2>3, <4>2
        <5>2. g[After(s)] = f[After(s)]
            BY <5>1
        <5>3. g[s] = {s} \cup f[After(s)]
          <6>1. CASE s = Last - d
              BY <6>1
          <6>2. CASE s # Last - d
              BY <3>2, <3>3, <4>2, <6>2 DEF After
          <6>3. QED
              BY <6>1, <6>2
        <5>4. QED
            BY <4>2, <5>2, <5>3
      <4>3. QED
          BY <4>1, <4>2
    <3>5. DOMAIN g = Last - d .. Last /\ g = [s \in DOMAIN g |-> g[s]]
        OBVIOUS
    <3> HIDE DEF g
    <3>6. Rule(d, g)
        BY <3>4, <3>5 DEF After
    <3> HIDE DEF Rule
    <3>7. QED
        BY <2>3, <3>6
  <2>6. QED
      BY <2>4, <2>5
<1>4. N \in 0 .. N /\ Last - N = First
    BY <1>1
<1>5. PICK f : Rule(N, f)
    BY <1>3, <1>4
<1> DEFINE Whole(h) == h = [s \in First .. Last |->
                               IF s = Last THEN {} ELSE {s} \cup h[s + Size[InitOrder(s)]]]
<1>6. Whole(f)
    BY <1>4, <1>5
<1>7. Starts = CHOOSE h : Whole(h)
    BY Zenon DEF Starts
<1> HIDE DEF Whole
<1>8. Whole(Starts)
    BY <1>6, <1>7, Zenon
<1> USE DEF Whole
<1>9. Last \in First .. Last /\ \A s \in Pages : s \in First .. Last /\ s # Last
    BY <1>1 DEF Pages
<1>10. QED
    BY <1>8, <1>9 DEF After

(* From s on, the blocks lie apart and leave nothing out.                   *)
Laid(s) ==
    /\ Starts[s] \subseteq s .. Last - 1
    /\ \A p \in s .. Last - 1 : \E t \in Starts[s] : t <= p /\ p < After(t)
    /\ \A t, u \in Starts[s] : t < u => After(t) <= u

(* So do all the blocks of the range.                                       *)
LEMMA AllLaid == Laid(First)
<1>1. First \in Nat /\ Last \in Nat /\ First < Last
    BY RangeAssumption
<1> DEFINE Bad == {d \in 0 .. Last - First : ~Laid(Last - d)}
<1>2. Bad = {}
  <2> SUFFICES ASSUME Bad # {} PROVE FALSE
      OBVIOUS
  <2>1. Bad \in SUBSET Nat
      BY <1>1
  <2>2. PICK d \in Bad : \A y \in Bad : d <= y
      BY <2>1, Least
  <2>3. d \in 0 .. Last - First /\ ~Laid(Last - d)
      OBVIOUS
  <2> DEFINE s == Last - d
  <2> DEFINE a == After(s)
  <2>4. CASE d = 0
    <3>1. s = Last /\ s .. Last - 1 = {}
        BY <1>1, <2>4
    <3>2. Starts[s] = {}
        BY <3>1, StartsIs
    <3>3. Laid(s)
        BY <3>1, <3>2 DEF Laid
    <3>4. QED
        BY <2>3, <3>3
  <2>5. CASE d # 0
    <3>1. s \in Pages /\ s \in Nat
        BY <1>1, <2>3, <2>5 DEF Pages
    <3>2. a \in Nat /\ s < a /\ a <= Last
        BY <3>1, Onwards
    <3>3. Last - a \in 0 .. Last - First /\ ~(d <= Last - a) /\ Last - (Last - a) = a
        BY <1>1, <2>3, <3>1, <3>2
    <3>4. Laid(Last - (Last - a))
        BY <2>2, <3>3
    <3>5. Laid(a)
        BY <3>3, <3>4
    <3>6. Starts[s] = {s} \cup Starts[a]
        BY <3>1, StartsIs
    <3>x. a = After(s)
        OBVIOUS
    <3> HIDE DEF a, s
    <3>7. Starts[a] \subseteq a .. Last - 1
        BY <3>5 DEF Laid
    <3>8. Starts[s] \subseteq s .. Last - 1
        BY <1>1, <3>1, <3>2, <3>6, <3>7
    <3>9. ASSUME NEW p \in s .. Last - 1 PROVE \E t \in Starts[s] : t <= p /\ p < After(t)
      <4>1. CASE p < a
          BY <3>1, <3>6, <3>x, <4>1
      <4>2. CASE ~(p < a)
        <5>1. p \in a .. Last - 1
            BY <1>1, <3>1, <3>2, <4>2
        <5>2. QED
            BY <3>5, <3>6, <5>1 DEF Laid
      <4>3. QED
          BY <4>1, <4>2
    <3>10. ASSUME NEW t \in Starts[s], NEW u \in Starts[s], t < u PROVE After(t) <= u
      <4>1. CASE t = s
        <5>1. u \in Starts[a]
            BY <3>1, <3>6, <3>10, <4>1
        <5>2. u \in a .. Last - 1
            BY <3>7, <5>1
        <5>3. QED
            BY <3>2, <3>x, <4>1, <5>2
      <4>2. CASE t # s
        <5>1. t \in Starts[a] /\ t \in a .. Last - 1
            BY <3>6, <3>7, <4>2
        <5>2. u # s
            BY <1>1, <3>1, <3>2, <3>10, <5>1
        <5>3. u \in Starts[a]
            BY <3>6, <5>2
        <5>4. QED
            BY <3>5, <3>10, <5>1, <5>3 DEF Laid
      <4>3. QED
          BY <4>1, <4>2
    <3>11. Laid(s)
        BY <3>8, <3>9, <3>10 DEF Laid
    <3>12. QED
        BY <2>3, <3>11 DEF s
  <2>6. QED
      BY <2>4, <2>5
<1>3. Last - First \in 0 .. Last - First /\ Last - (Last - First) = First
    BY <1>1
<1>4. Laid(Last - (Last - First))
    BY <1>2, <1>3
<1>5. QED
    BY <1>3, <1>4

(* The last page of a set of pages, and the first.                          *)
LEMMA Ends ==
    ASSUME NEW S \in SUBSET Pages
    PROVE  /\ S = {} => MaxOrNil(S) = Nil /\ MinOrNil(S) = Nil
           /\ S # {} => /\ MaxOrNil(S) \in S /\ \A y \in S : y <= MaxOrNil(S)
                        /\ MinOrNil(S) \in S /\ \A y \in S : MinOrNil(S) <= y
<1>1. S \in SUBSET Nat /\ S \in SUBSET (0 .. Last) /\ Last \in Nat
    BY RangeAssumption DEF Pages
<1>2. ASSUME S # {} PROVE MaxOrNil(S) \in S /\ \A y \in S : y <= MaxOrNil(S)
  <2>1. \E x \in S : \A y \in S : y <= x
      BY <1>1, <1>2, Greatest
  <2>2. MaxOrNil(S) = CHOOSE x \in S : \A y \in S : y <= x
      BY <1>2 DEF MaxOrNil, Biggest
  <2>3. QED
      BY <2>1, <2>2
<1>3. ASSUME S # {} PROVE MinOrNil(S) \in S /\ \A y \in S : MinOrNil(S) <= y
  <2>1. \E x \in S : \A y \in S : x <= y
      BY <1>1, <1>3, Least
  <2>2. MinOrNil(S) = CHOOSE x \in S : \A y \in S : x <= y
      BY <1>3 DEF MinOrNil
  <2>3. QED
      BY <2>1, <2>2
<1>4. QED
    BY <1>2, <1>3 DEF MaxOrNil, MinOrNil

(* The loop's blocks are aligned, in the range, apart, and all of it.       *)
LEMMA InitTiles ==
    /\ Starts[First] \subseteq Pages
    /\ Tiling({<<s, InitOrder(s)>> : s \in Starts[First]})
    /\ CoverOf({<<s, InitOrder(s)>> : s \in Starts[First]}) = Pages
<1> DEFINE S == Starts[First]
<1> DEFINE B == {<<s, InitOrder(s)>> : s \in S}
<1>1. First \in Nat /\ Last \in Nat
    BY RangeAssumption
<1>2. /\ S \subseteq Pages
      /\ \A p \in Pages : \E t \in S : t <= p /\ p < After(t)
      /\ \A t, u \in S : t < u => After(t) <= u
    BY AllLaid DEF Laid, Pages
<1> HIDE DEF S
<1>3. \A s \in S : Fits(<<s, InitOrder(s)>>)
  <2> SUFFICES ASSUME NEW s \in S PROVE Fits(<<s, InitOrder(s)>>)
      OBVIOUS
  <2>1. /\ InitOrder(s) \in Levels /\ Size[InitOrder(s)] \in Nat \ {0}
        /\ s % Size[InitOrder(s)] = 0 /\ s + Size[InitOrder(s)] <= Last
      BY <1>2, InitOrderIs
  <2>2. s \in Nat /\ First <= s
      BY <1>1, <1>2 DEF Pages
  <2>3. \A u \in Nat \ {0}, n \in Nat : n % u = 0 => \E q \in Nat : n = u * q
      OBVIOUS
  <2>4. \E q \in Nat : s = Size[InitOrder(s)] * q
      BY <2>1, <2>2, <2>3
  <2>5. InitOrder(s) \in 0 .. MAX_ORDER
      BY <2>1, OrderAssumption DEF Levels
  <2>6. QED
      BY <2>1, <2>2, <2>4, <2>5 DEF Fits, Aligned
<1>8. \A s \in S : s \in Nat /\ After(s) \in Nat /\ After(s) <= Last
  <2>1. \A s \in S : s \in Nat /\ s \in Pages
      BY <1>1, <1>2 DEF Pages
  <2>2. QED
      BY <2>1, Onwards
<1>4. \A s \in S : PagesOf(<<s, InitOrder(s)>>) = s .. After(s) - 1
  <2>1. \A s \in S : Size[InitOrder(s)] \in Nat \ {0}
      BY <1>2, InitOrderIs
  <2>2. \A s \in S : s \in Nat
      BY <1>8
  <2>3. QED
      BY <2>1, <2>2 DEF PagesOf, After
<1>5. Tiling(B)
  <2>1. \A b \in B : Fits(b)
      BY <1>3
  <2>2. ASSUME NEW s \in S, NEW t \in S, s # t
        PROVE  PagesOf(<<s, InitOrder(s)>>) \cap PagesOf(<<t, InitOrder(t)>>) = {}
    <3>0. s \in Nat /\ t \in Nat /\ After(s) \in Nat /\ After(t) \in Nat
        BY <1>8
    <3>1. s < t \/ t < s
        BY <2>2, <3>0
    <3>2. After(s) <= t \/ After(t) <= s
        BY <1>2, <3>1
    <3>3. (s .. After(s) - 1) \cap (t .. After(t) - 1) = {}
        BY <3>0, <3>2
    <3>4. QED
        BY <1>4, <3>3
  <2>3. Apart(B)
      BY <2>2 DEF Apart
  <2>4. QED
      BY <2>1, <2>3 DEF Tiling
<1>6. CoverOf(B) = Pages
  <2>1. CoverOf(B) \subseteq Pages
      BY <1>3, OwnPages DEF CoverOf
  <2>2. ASSUME NEW p \in Pages PROVE p \in CoverOf(B)
    <3>1. PICK t \in S : t <= p /\ p < After(t)
        BY <1>2
    <3>2. p \in t .. After(t) - 1
      <4>1. p \in Nat /\ t \in Nat /\ After(t) \in Nat
          BY <1>1, <1>8 DEF Pages
      <4>2. QED
          BY <3>1, <4>1
    <3>3. QED
        BY <1>4, <3>2 DEF CoverOf
  <2>3. QED
      BY <2>1, <2>2
<1>7. QED
    BY <1>2, <1>5, <1>6 DEF S

(* page_allocator_init establishes the invariant.                           *)
LEMMA InitGood == Init => Good
<1> SUFFICES ASSUME Init PROVE Good
    OBVIOUS
<1> DEFINE S == Starts[First]
<1>1. /\ S \subseteq Pages /\ Tiling({<<s, InitOrder(s)>> : s \in S})
      /\ CoverOf({<<s, InitOrder(s)>> : s \in S}) = Pages
    BY InitTiles
<1>2. /\ order_list = [o \in Levels |-> MaxOrNil(InitList(o))]
      /\ next_pg = [n \in Nodes |->
            IF n \in S THEN MaxOrNil({s \in InitList(InitOrder(n)) : s < n}) ELSE Nil]
      /\ prev_pg = [n \in Nodes |->
            IF n \in S THEN MinOrNil({s \in InitList(InitOrder(n)) : s > n}) ELSE Nil]
      /\ task = Idle /\ held = {} /\ stale = FALSE /\ lost = FALSE
    BY DEF Init
<1>3. \A o : InitList(o) = {s \in S : InitOrder(s) = o}
    BY DEF InitList
<1> HIDE DEF S
<1>4. Nil \notin Pages /\ Pages \subseteq Nodes /\ Nil \in Nodes /\ Pages \subseteq Nat
    BY RangeAssumption DEF Pages, Nil, Nodes
<1>5. \A n \in S : InitOrder(n) \in Levels
    BY <1>1, InitOrderIs
<1>6. \A T \in SUBSET Pages : MaxOrNil(T) \in Nodes /\ MinOrNil(T) \in Nodes
    BY <1>4, Ends
<1>7. ListsTyped
  <2>1. \A o : InitList(o) \in SUBSET Pages
      BY <1>1, <1>3
  <2>2. \A n, o : {s \in InitList(o) : s < n} \in SUBSET Pages
                  /\ {s \in InitList(o) : s > n} \in SUBSET Pages
      BY <2>1
  <2>3. \A o \in Levels : MaxOrNil(InitList(o)) \in Nodes
      BY <1>6, <2>1
  <2>4. \A n, o : MaxOrNil({s \in InitList(o) : s < n}) \in Nodes
                  /\ MinOrNil({s \in InitList(o) : s > n}) \in Nodes
      BY <1>6, <2>2
  <2>5. QED
      BY <1>2, <1>4, <2>3, <2>4 DEF ListsTyped
<1>8. ASSUME NEW o \in Levels, NEW m \in InitList(o)
      PROVE  /\ m \in S /\ m \in Nodes /\ InitOrder(m) = o
             /\ next_pg[m] = MaxOrNil({s \in InitList(o) : s < m})
             /\ prev_pg[m] = MinOrNil({s \in InitList(o) : s > m})
    BY <1>1, <1>2, <1>3, <1>4, <1>8
<1>9. ASSUME NEW o \in Levels
      PROVE  /\ IsList(InitList(o), order_list[o], next_pg)
             /\ \A m \in InitList(o) : /\ next_pg[m] # order_list[o]
                                       /\ next_pg[m] # Nil => prev_pg[next_pg[m]] = m
  <2> DEFINE L == InitList(o)
  <2> DEFINE below(m) == {s \in L : s < m}
  <2> DEFINE above(m) == {s \in L : s > m}
  <2>1. L \in SUBSET Pages /\ \A m : below(m) \in SUBSET Pages /\ above(m) \in SUBSET Pages
      BY <1>1, <1>3
  <2>2. \A m \in L : next_pg[m] = MaxOrNil(below(m)) /\ prev_pg[m] = MinOrNil(above(m))
      BY <1>8
  <2>3. order_list[o] = MaxOrNil(L)
      BY <1>2
  <2>4. \A m \in L : m \in Nat
      BY <1>4, <2>1
  <2> HIDE DEF L
  <2>5. Closed(L, order_list[o], next_pg)
    <3>1. order_list[o] \in L \cup {Nil}
        BY <2>1, <2>3, Ends
    <3>2. ASSUME NEW m \in L PROVE next_pg[m] \in L \cup {Nil}
      <4>1. MaxOrNil(below(m)) \in below(m) \cup {Nil}
        <5> HIDE DEF below
        <5>1. QED
            BY <2>1, Ends
      <4>2. QED
          BY <2>2, <4>1
    <3>3. QED
        BY <3>1, <3>2 DEF Closed
  <2>6. ASSUME NEW m \in L, below(m) # {}
        PROVE  /\ next_pg[m] \in L /\ next_pg[m] < m
               /\ \A s \in L : s < m => s <= next_pg[m]
    <3>1. MaxOrNil(below(m)) \in below(m) /\ \A y \in below(m) : y <= MaxOrNil(below(m))
      <4>1. below(m) \in SUBSET Pages /\ below(m) # {}
          BY <2>1, <2>6
      <4> HIDE DEF below
      <4>2. QED
          BY <4>1, Ends
    <3>2. QED
        BY <2>2, <3>1
  <2>7. ASSUME NEW m \in L, below(m) = {} PROVE next_pg[m] = Nil
    <3>1. below(m) \in SUBSET Pages
        BY <2>1
    <3> HIDE DEF below
    <3>2. MaxOrNil(below(m)) = Nil
        BY <2>7, <3>1, Ends
    <3>3. QED
        BY <2>2, <3>2
  <2>8. ASSUME L # {} PROVE order_list[o] \in L /\ \A y \in L : y <= order_list[o]
      BY <2>1, <2>3, <2>8, Ends
  <2>9. ASSUME NEW T \in SUBSET Pages, Closed(T, order_list[o], next_pg) PROVE L \subseteq T
    <3> DEFINE R == L \ T
    <3> SUFFICES ASSUME R # {} PROVE FALSE
        OBVIOUS
    <3>1. R \in SUBSET (0 .. Last) /\ Last \in Nat
        BY <1>4, <2>1, RangeAssumption DEF Pages
    <3>2. PICK x \in R : \A y \in R : y <= x
        BY <3>1, Greatest
    <3>3. x \in L /\ x \notin T /\ x \in Nat
        BY <2>4
    <3>4. order_list[o] \in L /\ order_list[o] \in T
        BY <1>4, <2>1, <2>8, <2>9, <3>3 DEF Closed
    <3>5. x <= order_list[o] /\ x # order_list[o]
        BY <2>8, <3>3, <3>4
    <3> DEFINE A == {y \in L : x < y}
    <3>6. A \in SUBSET Nat /\ A # {}
      <4>1. order_list[o] \in Nat
          BY <2>4, <3>4
      <4>2. x < order_list[o]
          BY <3>3, <3>5, <4>1
      <4>3. order_list[o] \in A
          BY <3>4, <4>2
      <4>4. QED
          BY <2>4, <4>3
    <3>7. PICK y \in A : \A z \in A : y <= z
        BY <3>6, Least
    <3>8. y \in L /\ x < y /\ y \in Nat
        BY <2>4
    <3>9. y \in T
      <4>1. ~(y <= x)
          BY <3>3, <3>8
      <4>2. QED
          BY <3>2, <3>8, <4>1
    <3>10. x \in below(y)
        BY <3>3, <3>8
    <3>11. next_pg[y] \in L /\ next_pg[y] < y /\ x <= next_pg[y]
        BY <2>6, <3>3, <3>8, <3>10
    <3>12. next_pg[y] = x
      <4> DEFINE n == next_pg[y]
      <4>1. n \in L /\ n \in Nat /\ n < y /\ x <= n
          BY <2>4, <3>11
      <4> HIDE DEF n
      <4>2. ~(y <= n)
          BY <3>8, <4>1
      <4>3. n \notin A
          BY <3>7, <4>2
      <4>4. ~(x < n)
          BY <4>1, <4>3
      <4>5. n = x
          BY <3>3, <4>1, <4>4
      <4>6. QED
          BY <4>5 DEF n
    <3>13. next_pg[y] \in T \cup {Nil}
        BY <2>9, <3>9 DEF Closed
    <3>14. QED
        BY <1>4, <2>1, <3>3, <3>12, <3>13
  <2>10. ASSUME NEW m \in L PROVE next_pg[m] # order_list[o]
    <3>1. CASE below(m) = {}
        BY <1>4, <2>1, <2>7, <2>8, <3>1
    <3>2. CASE below(m) # {}
      <4>1. next_pg[m] \in Nat /\ next_pg[m] < m /\ m <= order_list[o] /\ m \in Nat
            /\ order_list[o] \in Nat
          BY <2>4, <2>6, <2>8, <3>2
      <4>2. QED
          BY <4>1
    <3>3. QED
        BY <3>1, <3>2
  <2>11. ASSUME NEW m \in L, next_pg[m] # Nil PROVE prev_pg[next_pg[m]] = m
    <3> DEFINE x == next_pg[m]
    <3>1. below(m) # {}
        BY <2>7, <2>11
    <3>2. x \in L /\ x < m /\ x \in Nat /\ m \in Nat /\ \A s \in L : s < m => s <= x
        BY <2>4, <2>6, <3>1
    <3> HIDE DEF x
    <3>3. above(x) # {} /\ m \in above(x)
        BY <3>2
    <3>4. MinOrNil(above(x)) \in above(x) /\ \A y \in above(x) : MinOrNil(above(x)) <= y
      <4>1. above(x) \in SUBSET Pages
          BY <2>1
      <4> HIDE DEF above
      <4>2. QED
          BY <3>3, <4>1, Ends
    <3> DEFINE z == MinOrNil(above(x))
    <3>5. z \in L /\ x < z /\ z <= m /\ z \in Nat
        BY <2>4, <3>3, <3>4
    <3> HIDE DEF z
    <3>6. z = m
        BY <3>2, <3>5
    <3>7. QED
        BY <2>2, <3>2, <3>6 DEF x, z
  <2>12. IsList(L, order_list[o], next_pg)
      BY <2>1, <2>5, <2>9 DEF IsList
  <2>13. QED
      BY <2>10, <2>11, <2>12 DEF L
<1>10. \A o \in Levels : FreeList(o) = InitList(o)
  <2>1. \A o \in Levels : IsList(FreeList(o), order_list[o], next_pg)
      BY <1>7, FreeListIs
  <2>2. QED
      BY <1>9, <2>1, OneList
<1>11. FreeBlocks = {<<s, InitOrder(s)>> : s \in S}
  <2>1. \A b : b \in FreeBlocks <=> \E l \in Levels : \E x \in FreeList(l) : b = <<x, l>>
      BY DEF FreeBlocks
  <2>2. \A b : b \in FreeBlocks <=> \E x \in S : b = <<x, InitOrder(x)>>
      BY <1>3, <1>5, <1>10, <2>1
  <2>3. QED
      BY <2>2
<1>12. Tiled
  <2>1. TaskBlocks = {} /\ held = {}
      BY <1>2 DEF TaskBlocks, Idle
  <2>2. Blocks = {<<s, InitOrder(s)>> : s \in S}
      BY <1>11, <2>1 DEF Blocks
  <2>3. QED
      BY <1>1, <2>1, <2>2 DEF Tiled
<1>13. Linked
    BY <1>9, <1>10 DEF Linked
<1>14. NoBuddies
  <2> SUFFICES ASSUME NEW o \in 0 .. MAX_ORDER - 2, NEW i \in FreeList(o),
                      BuddyIdx(i, o) \in FreeList(o)
               PROVE  FALSE
      BY DEF NoBuddies
  <2>1. o \in Levels /\ o + 1 \in Levels /\ o \in Nat
      BY OrderAssumption DEF Levels
  <2>2. i \in InitList(o) /\ BuddyIdx(i, o) \in InitList(o)
      BY <1>10, <2>1
  <2>3. Fits(<<i, o>>)
      BY <1>1, <1>3, <2>2 DEF Tiling
  <2>4. PICK l \in Nat, k \in Nat : l = Size[o + 1] * k /\ {i, BuddyIdx(i, o)} = {l, l + Size[o]}
      BY <2>1, <2>3, BuddyPair
  <2>5. l \in InitList(o) /\ l + Size[o] \in InitList(o)
      BY <2>2, <2>4
  <2>6. l \in Pages /\ l + Size[o] \in Pages /\ InitOrder(l) = o /\ InitOrder(l + Size[o]) = o
      BY <1>1, <1>3, <2>5
  <2>7. Size[o] \in Nat \ {0} /\ Size[o + 1] = 2 * Size[o] /\ Size[o + 1] \in Nat \ {0}
      BY <2>1, SizeDoubles, OrderAssumption DEF Levels
  <2>8. (l + Size[o]) + Size[o] <= Last
      BY <2>6, InitOrderIs
  <2>9. l + Size[o + 1] <= Last
      BY <2>7, <2>8, RangeAssumption
  <2>10. l % Size[o + 1] = 0
    <3>1. \A u \in Nat \ {0}, q \in Nat : (u * q) % u = 0
        OBVIOUS
    <3>2. QED
        BY <2>4, <2>7, <3>1
  <2>11. o + 1 <= o
      BY <2>1, <2>6, <2>9, <2>10, InitOrderIs
  <2>12. QED
      BY <2>1, <2>11
<1>15. TypeOK
    BY <1>2, <1>7 DEF TypeOK, ListsTyped
<1>16. Asked
    BY <1>2 DEF Asked, Idle
<1>17. QED
    BY <1>12, <1>13, <1>14, <1>15, <1>16 DEF Good

-----------------------------------------------------------------------------
(* What the invariant implies                                               *)

(* A run of pages that are free, aligned to its size, meets a free block of *)
(* its order or a higher one: else the smallest block in it has a free      *)
(* buddy.                                                                   *)
LEMMA RunIsBlock ==
    ASSUME Good, NEW o \in Levels, NEW s \in Pages, s % Size[o] = 0,
           PagesOf(<<s, o>>) \subseteq CoverOf(FreeBlocks)
    PROVE  \E b \in FreeBlocks : b[2] >= o
<1> SUFFICES ASSUME \A b \in FreeBlocks : ~(b[2] >= o) PROVE FALSE
    OBVIOUS
<1> DEFINE run == <<s, o>>
<1>1. /\ Apart(FreeBlocks)
      /\ \A b \in FreeBlocks :
            Fits(b) /\ b[2] \in Levels /\ b[1] \in FreeList(b[2]) /\ b = <<b[1], b[2]>>
  <2>1. \A b \in FreeBlocks : b[2] \in Levels /\ b[1] \in FreeList(b[2]) /\ b = <<b[1], b[2]>>
      BY DEF FreeBlocks
  <2>2. \A b \in FreeBlocks : Fits(b)
      BY <2>1, FreeFacts
  <2>3. Apart(FreeBlocks)
      BY DEF Good, Tiled, Tiling, Apart, Blocks
  <2>4. QED
      BY <2>1, <2>2, <2>3
<1>2. o \in Nat /\ MAX_ORDER \in Nat /\ o <= MAX_ORDER - 1 /\ o \in 0 .. MAX_ORDER
    BY OrderAssumption DEF Levels
<1>3. \A b \in FreeBlocks : b[2] \in Nat /\ b[2] < o /\ b[2] \in 0 .. MAX_ORDER
    BY <1>1, <1>2 DEF Levels
<1>4. Size[o] \in Nat \ {0} /\ s \in Nat /\ s < Last /\ First <= s /\ Last \in Nat
    BY <1>2, SizeDoubles, RangeAssumption DEF Pages
<1>5. PagesOf(run) = s .. s + Size[o] - 1 /\ s \in PagesOf(run)
    BY <1>4 DEF PagesOf
<1>6. Fits(run)
  <2>1. \E q \in Nat : s = Size[o] * q
    <3>1. \A u \in Nat \ {0}, n \in Nat : n % u = 0 => \E q \in Nat : n = u * q
        OBVIOUS
    <3>2. QED
        BY <1>4, <3>1
  <2>2. s + Size[o] <= Last
    <3>1. s + Size[o] - 1 \in PagesOf(run)
        BY <1>4, <1>5
    <3>2. CoverOf(FreeBlocks) \subseteq Pages
        BY <1>1, OwnPages DEF CoverOf
    <3>3. s + Size[o] - 1 \in Pages
        BY <3>1, <3>2
    <3>4. QED
        BY <1>4, <3>3 DEF Pages
  <2>3. QED
      BY <1>2, <1>4, <2>1, <2>2 DEF Fits, Aligned
<1> HIDE DEF run
<1>7. \A p \in PagesOf(run) :
        \E b \in FreeBlocks : p \in PagesOf(b) /\ PagesOf(b) \subseteq PagesOf(run)
  <2> SUFFICES ASSUME NEW p \in PagesOf(run)
               PROVE  \E b \in FreeBlocks : p \in PagesOf(b) /\ PagesOf(b) \subseteq PagesOf(run)
      OBVIOUS
  <2>1. PICK b \in FreeBlocks : p \in PagesOf(b)
      BY DEF CoverOf, run
  <2>2. Fits(b) /\ b[2] <= run[2]
      BY <1>1, <1>2, <1>3 DEF run
  <2>3. PagesOf(b) \subseteq PagesOf(run)
      BY <1>6, <2>1, <2>2, Nested DEF Fits
  <2>4. QED
      BY <2>1, <2>3
<1> DEFINE Within == {b \in FreeBlocks : PagesOf(b) \subseteq PagesOf(run)}
<1> DEFINE Sizes == {b[2] : b \in Within}
<1>8. Sizes \in SUBSET Nat /\ Sizes # {}
  <2>1. Within # {}
      BY <1>5, <1>7
  <2>2. QED
      BY <1>3, <2>1
<1>9. PICK m \in Sizes : \A n \in Sizes : m <= n
    BY <1>8, Least
<1>10. PICK x \in Within : x[2] = m
    OBVIOUS
<1> DEFINE i == x[1]
<1> DEFINE j == BuddyIdx(i, m)
<1>11. /\ x = <<i, m>> /\ Fits(<<i, m>>) /\ m \in Levels /\ i \in FreeList(m) /\ m \in Nat /\ m < o
       /\ PagesOf(<<i, m>>) \subseteq PagesOf(run) /\ <<i, m>> \in FreeBlocks
    BY <1>1, <1>3, <1>10
<1> HIDE DEF i
<1>12. PICK l \in Nat, k \in Nat : l = Size[m + 1] * k /\ {i, j} = {l, l + Size[m]}
    BY <1>11, BuddyPair
<1> HIDE DEF j
<1> DEFINE w == <<l, m + 1>>
<1>13. /\ PagesOf(w) = PagesOf(<<i, m>>) \cup PagesOf(<<j, m>>)
       /\ PagesOf(<<i, m>>) \cap PagesOf(<<j, m>>) = {}
  <2>1. PagesOf(w) = PagesOf(<<l, m>>) \cup PagesOf(<<l + Size[m], m>>)
        /\ PagesOf(<<l, m>>) \cap PagesOf(<<l + Size[m], m>>) = {}
      BY <1>11, HalfPages
  <2>2. (i = l /\ j = l + Size[m]) \/ (j = l /\ i = l + Size[m])
    <3>1. Size[m] \in Nat \ {0}
        BY <1>11, SizeDoubles, OrderAssumption DEF Levels
    <3>2. l # l + Size[m]
        BY <3>1
    <3>3. QED
        BY <1>12, <3>2
  <2>3. QED
      BY <2>1, <2>2
<1>14. i \in PagesOf(<<i, m>>)
    BY <1>11, OwnPages
(* The block and its buddy lie within the run: the run is as aligned.       *)
<1>15. PagesOf(w) \subseteq PagesOf(run)
  <2>1. m + 1 \in 0 .. MAX_ORDER /\ m + 1 <= o
      BY <1>2, <1>11
  <2>2. Aligned(w) /\ w[2] = m + 1
      BY <1>12, <2>1 DEF Aligned
  <2>3. i \in PagesOf(w) /\ i \in PagesOf(run)
      BY <1>11, <1>13, <1>14
  <2>4. Aligned(run) /\ run[2] = o
      BY <1>6 DEF Fits, run
  <2> HIDE DEF w
  <2>5. QED
      BY <2>1, <2>2, <2>3, <2>4, Nested DEF Fits
<1>16. Fits(w) /\ Fits(<<j, m>>)
  <2>1. Size[m] \in Nat \ {0} /\ Size[m + 1] = 2 * Size[m] /\ m + 1 \in 0 .. MAX_ORDER
      BY <1>11, SizeDoubles, OrderAssumption DEF Levels
  <2>2. l \in PagesOf(w) /\ l + Size[m + 1] - 1 \in PagesOf(w)
      BY <2>1 DEF PagesOf
  <2>3. PagesOf(run) \subseteq Pages
      BY <1>6, OwnPages
  <2>4. l \in Pages /\ l + Size[m + 1] - 1 \in Pages
      BY <1>15, <2>2, <2>3
  <2>5. First <= l /\ l + Size[m + 1] <= Last
      BY <1>4, <2>1, <2>4 DEF Pages
  <2>6. Fits(w)
      BY <1>12, <2>1, <2>5 DEF Fits, Aligned
  <2>7. Fits(<<l, m>>) /\ Fits(<<l + Size[m], m>>)
      BY <1>11, <1>12, <2>6, HalvesFit
  <2>8. QED
      BY <1>12, <2>6, <2>7
<1>17. j \in PagesOf(<<j, m>>) /\ <<j, m>>[2] = m
    BY <1>16, OwnPages
(* What covers the buddy is no smaller, since the block is the smallest,    *)
(* and no larger, since it would cover the block too.                       *)
<1>18. PICK y \in FreeBlocks : j \in PagesOf(y) /\ PagesOf(y) \subseteq PagesOf(run)
  <2>1. j \in PagesOf(run)
      BY <1>13, <1>15, <1>17
  <2>2. QED
      BY <1>7, <2>1
<1>19. m <= y[2] /\ Fits(y) /\ y[2] \in Nat
    BY <1>1, <1>3, <1>9, <1>18
<1>20. y # <<i, m>>
    BY <1>13, <1>17, <1>18
<1>21. y[2] = m
  <2> SUFFICES ASSUME m + 1 <= y[2] PROVE FALSE
      BY <1>11, <1>19
  <2>1. w[2] <= y[2] /\ j \in PagesOf(w)
      BY <1>13, <1>17
  <2> HIDE DEF w
  <2>2. PagesOf(w) \subseteq PagesOf(y)
      BY <1>16, <1>18, <1>19, <2>1, Nested DEF Fits
  <2>3. i \in PagesOf(y)
      BY <1>13, <1>14, <2>2
  <2>4. QED
      BY <1>1, <1>11, <1>14, <1>18, <1>20, <2>3 DEF Apart
<1>22. y[1] = j
  <2> DEFINE z == <<j, m>>
  <2>1. Fits(z) /\ j \in PagesOf(z) /\ z[2] = m /\ z[1] = j
      BY <1>16, <1>17
  <2> HIDE DEF z
  <2>2. PagesOf(z) \subseteq PagesOf(y) /\ PagesOf(y) \subseteq PagesOf(z)
      BY <1>11, <1>18, <1>19, <1>21, <2>1, Nested DEF Fits
  <2>3. y[1] \in PagesOf(z) /\ z[1] \in PagesOf(y)
      BY <1>19, <2>1, <2>2, OwnPages
  <2>4. z[1] <= y[1] /\ y[1] <= z[1]
      BY <2>3 DEF PagesOf
  <2>5. z[1] \in Nat /\ y[1] \in Nat
      BY <1>19, <2>1 DEF Fits, Aligned
  <2>6. QED
      BY <2>1, <2>4, <2>5
<1>23. j \in FreeList(m)
    BY <1>1, <1>18, <1>21, <1>22
<1>24. m \in 0 .. MAX_ORDER - 2
    BY <1>2, <1>11
<1>25. QED
    BY <1>11, <1>23, <1>24 DEF Good, NoBuddies, j

-----------------------------------------------------------------------------

(* Every turn of a loop of the allocator keeps the invariant, unless it     *)
(* unlinks a stale head.                                                    *)
LEMMA BuddyStep == BInv /\ [Next]_vars => BInv'
<1> SUFFICES ASSUME BInv, [Next]_vars PROVE BInv'
    OBVIOUS
<1>1. CASE UNCHANGED vars
  <2>1. CASE stale
      BY <1>1, <2>1 DEF BInv, vars
  <2>2. CASE Good
    <3>1. FreeBlocks' = FreeBlocks /\ NoBuddies' /\ Linked' /\ ListsTyped'
        BY <1>1, <2>2, ListsSame DEF vars
    <3>2. task' = task /\ held' = held /\ stale' = stale /\ lost' = lost
        BY <1>1 DEF vars
    <3>3. TaskBlocks' = TaskBlocks /\ Blocks' = Blocks
        BY <3>1, <3>2 DEF TaskBlocks, Blocks
    <3>4. Tiled' /\ Asked'
        BY <2>2, <3>1, <3>2, <3>3 DEF Good, Tiled, Asked
    <3>5. TypeOK'
        BY <2>2, <3>1, <3>2 DEF Good, TypeOK, ListsTyped
    <3>6. QED
        BY <3>1, <3>4, <3>5 DEF BInv, Good
  <2>3. QED
      BY <2>1, <2>2 DEF BInv
<1>2. CASE stale /\ Next
    BY <1>2 DEF BInv, Next, AllocPop, AllocSplit, AllocReturn,
        FreeCall, FreeMerge, FreePush, FreeDrop
<1>3. CASE ~stale /\ Next
  <2>1. Good
      BY <1>3 DEF BInv
  <2>2. ASSUME NEW o \in Orders, AllocPop(o) PROVE BInv'
      BY <2>1, <2>2, AllocPopStep DEF BInv
  <2>3. CASE AllocSplit
      BY <2>1, <2>3, AllocSplitStep DEF BInv
  <2>4. CASE AllocReturn
      BY <2>1, <2>4, AllocReturnStep DEF BInv
  <2>5. ASSUME NEW b \in held, FreeCall(b) PROVE BInv'
      BY <2>1, <2>5, FreeCallStep DEF BInv
  <2>6. CASE FreeMerge
      BY <2>1, <2>6, FreeMergeStep
  <2>7. CASE FreePush
      BY <2>1, <2>7, FreePushStep DEF BInv
  <2>8. CASE FreeDrop
      BY <2>1, <2>8, FreeDropStep DEF BInv
  <2>9. QED
      BY <1>3, <2>2, <2>3, <2>4, <2>5, <2>6, <2>7, <2>8 DEF Next
<1>4. QED
    BY <1>1, <1>2, <1>3

(* The invariant holds from page_allocator_init to the first stale unlink.  *)
LEMMA BuddyInvariant == Spec => []BInv
<1>1. Init => BInv
    BY InitGood DEF BInv
<1>2. QED
    BY <1>1, BuddyStep, PTL DEF Spec

(* Up to the first stale unlink every variable keeps its type; in           *)
(* particular the halves and merged blocks of page_alloc.c:137-138 and 197  *)
(* lie in the allocator's range, for any range and number of orders.        *)
THEOREM TypeCorrect == Spec => [](stale \/ TypeOK)
<1>1. BInv => stale \/ TypeOK
    BY DEF BInv, Good
<1>2. QED
    BY <1>1, BuddyInvariant, PTL

(* Blocks in use and free blocks partition the memory between calls, until  *)
(* blocks of the highest order merge (page_alloc.c:108-222).                *)
THEOREM MemoryPartitioned == Spec => []Partition
<1>1. BInv => Partition
  <2> SUFFICES ASSUME Good, task = Idle PROVE Partition
      BY DEF BInv, Partition
  <2>1. Tiled /\ TaskBlocks = {}
      BY TaskKinds DEF Good
  <2>2. Blocks = held \cup FreeBlocks
      BY <2>1 DEF Blocks
  <2>3. CoverOf(Blocks) = CoverOf(held) \cup CoverOf(FreeBlocks)
      BY <2>2 DEF CoverOf
  <2>4. QED
      BY <2>1, <2>2, <2>3 DEF Partition, Tiled, Tiling
<1>2. QED
    BY <1>1, BuddyInvariant, PTL

(* Free memory is coalesced between calls: a request fails only if no       *)
(* aligned run of its size is free (page_alloc.c:118-127, 161-202).         *)
THEOREM MemoryCoalesced == Spec => []Coalesced
<1>1. BInv => Coalesced
  <2> SUFFICES ASSUME Good, NEW o \in Levels,
                      \A l \in o .. MAX_ORDER - 1 : order_list[l] = Nil,
                      NEW s \in Pages, s % Size[o] = 0,
                      PagesOf(<<s, o>>) \subseteq CoverOf(FreeBlocks)
               PROVE  FALSE
      BY DEF BInv, Coalesced
  <2>1. PICK b \in FreeBlocks : b[2] >= o
      BY RunIsBlock
  <2>2. b[2] \in Levels /\ b[1] \in FreeList(b[2])
      BY DEF FreeBlocks
  <2>3. order_list[b[2]] # Nil
      BY <2>2, FreeFacts, ListFacts
  <2>4. b[2] \in o .. MAX_ORDER - 1
      BY <2>1, <2>2, OrderAssumption DEF Levels
  <2>5. QED
      BY <2>3, <2>4
<1>2. QED
    BY <1>1, BuddyInvariant, PTL

(* The free lists of page_alloc.c implement the set of blocks that mm.h     *)
(* promises: a block handed out has the size asked for, lies in the range   *)
(* and shares no page with another that is in use.                          *)
THEOREM ListsImplementPageAlloc == Spec => ImplementsPageAlloc
<1>1. Init => P!PageInit
    BY DEF Init, P!PageInit
<1>2. BInv /\ [Next]_vars => [stale \/ P!PageNext]_held
  <2> SUFFICES ASSUME BInv, Next, ~stale, held' # held PROVE P!PageNext
      BY DEF vars
  <2>1. Good
      BY DEF BInv
  <2>2. CASE AllocReturn
    <3> DEFINE b == <<task.idx, task.order>>
    <3>1. task.op = "split" /\ task.i = task.order /\ held' = held \cup {b}
        BY <2>2 DEF AllocReturn
    <3>2. b \in (First .. Last - 1) \X Orders
      <4>1. task \in [op : {"split"}, idx : Pages, order : Levels, i : Levels]
          BY <2>1, <3>1, TaskKinds DEF Good
      <4>2. QED
          BY <2>1, <3>1, <4>1 DEF Good, Asked, Pages
    <3>3. b \in TaskBlocks
        BY <3>1 DEF TaskBlocks
    <3> HIDE DEF b
    <3>4. PagesOf(b) \subseteq Pages
        BY <2>1, <3>3, FreeFacts, OwnPages
    <3>5. \A h \in held : PagesOf(b) \cap PagesOf(h) = {}
      <4>1. b \in Blocks /\ b \notin held /\ held \subseteq Blocks
          BY <2>1, <3>3 DEF Good, Tiled, Blocks
      <4>2. QED
          BY <2>1, <4>1 DEF Good, Tiled, Tiling, Apart
    <3>6. \A x : P!PagesOf(x) = PagesOf(x)
        BY DEF P!PagesOf, PagesOf
    <3>7. PagesOf(b) \cap P!HeldPages(held) = {}
        BY <3>5, <3>6 DEF P!HeldPages
    <3>8. P!Grant(b)
        BY <3>1, <3>4, <3>6, <3>7 DEF P!Grant, Pages
    <3>9. QED
        BY <3>2, <3>8 DEF P!PageNext
  <2>3. ASSUME NEW b \in held, FreeCall(b) PROVE P!PageNext
    <3>1. held' = held \ {b}
        BY <2>3 DEF FreeCall
    <3>2. b \in (First .. Last - 1) \X Orders
        BY <2>1 DEF Good, TypeOK, Block, Asked, Pages
    <3>3. P!Release(b)
        BY <3>1 DEF P!Release
    <3>4. QED
        BY <3>2, <3>3 DEF P!PageNext
  <2>4. QED
      BY <2>2, <2>3 DEF Next, AllocPop, AllocSplit, FreeMerge, FreePush, FreeDrop
<1>3. QED
    BY <1>1, <1>2, BuddyInvariant, PTL DEF Spec, ImplementsPageAlloc
=============================================================================
