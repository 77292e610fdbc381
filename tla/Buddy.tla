-------------------------------- MODULE Buddy --------------------------------
(***************************************************************************)
(* The buddy allocator of src/mm/page_alloc.c: free lists per order, kept  *)
(* as indices in the page_info array.  One call is one sequence of steps   *)
(* of its loop; no other call interleaves, because the kernel is not       *)
(* preempted and no interrupt handler allocates.                           *)
(*                                                                         *)
(* A definition marked "Flaw" is a plausible slip in the definition after  *)
(* it; no action uses it, and a run is known to notice it.                 *)
(***************************************************************************)
EXTENDS Integers, FiniteSets

CONSTANTS
    MAX_ORDER,   \* mm.h:8
    First,       \* index of the page at addr_begin
    Last,        \* index of the page at addr_end
    Orders,      \* the orders the kernel's clients ask for
    MaxHeld      \* bound: blocks in use at a time

ASSUME RangeAssumption == First \in Nat \ {0} /\ Last \in Nat /\ First < Last
ASSUME OrderAssumption == MAX_ORDER \in Nat \ {0} /\ Orders \subseteq 0 .. MAX_ORDER - 1
ASSUME HeldAssumption == MaxHeld \in Nat

Pages == First .. Last - 1
Levels == 0 .. MAX_ORDER - 1
Nil == -1
Nodes == Pages \cup {Nil}     \* pg_info[-1] is written, never read

VARIABLES
    order_list,  \* head of the free list of each order
    next_pg,     \* struct page_info.next_pg
    prev_pg,     \* struct page_info.prev_pg
    task,        \* the call in progress
    held,        \* history: blocks handed out and not freed, <<first page, order>>
    stale,       \* history: a list head was unlinked as if it were not the head
    lost         \* history: two buddies of the highest order were merged

lists == <<order_list, next_pg, prev_pg>>
vars == <<lists, task, held, stale, lost>>

(* 1 << order                                                               *)
Size[o \in 0 .. MAX_ORDER] == IF o = 0 THEN 1 ELSE 2 * Size[o - 1]

Idle == [op |-> "idle"]
Block == Pages \X Levels
BuddyIdx(i, o) == IF (i \div Size[o]) % 2 = 0 THEN i + Size[o] ELSE i - Size[o]
Lower(a, b) == IF a < b THEN a ELSE b
Biggest(S) == CHOOSE x \in S : \A y \in S : y <= x

TypeOK ==
    /\ order_list \in [Levels -> Nodes]
    /\ next_pg \in [Nodes -> Nodes] /\ prev_pg \in [Nodes -> Nodes]
    /\ held \subseteq Block
    /\ stale \in BOOLEAN /\ lost \in BOOLEAN
    /\ \/ task = Idle
       \/ task \in [op : {"split"}, idx : Pages, order : Levels, i : Levels]
       \/ task \in [op : {"merge"}, idx : Pages, order : 0 .. MAX_ORDER]

-----------------------------------------------------------------------------
(* __page_allocator_init: the range is cut into aligned blocks from below,  *)
(* each pushed on its list, so a list runs from high to low addresses.      *)

InitOrder(s) == Biggest({o \in Levels : s % Size[o] = 0 /\ s + Size[o] <= Last})

Starts[s \in First .. Last] ==
    IF s = Last THEN {} ELSE {s} \cup Starts[s + Size[InitOrder(s)]]

InitList(o) == {s \in Starts[First] : InitOrder(s) = o}
MaxOrNil(S) == IF S = {} THEN Nil ELSE Biggest(S)
MinOrNil(S) == IF S = {} THEN Nil ELSE CHOOSE x \in S : \A y \in S : x <= y

Init ==
    /\ order_list = [o \in Levels |-> MaxOrNil(InitList(o))]
    /\ next_pg = [n \in Nodes |->
          IF n \in Starts[First]
          THEN MaxOrNil({s \in InitList(InitOrder(n)) : s < n}) ELSE Nil]
    /\ prev_pg = [n \in Nodes |->
          IF n \in Starts[First]
          THEN MinOrNil({s \in InitList(InitOrder(n)) : s > n}) ELSE Nil]
    /\ task = Idle
    /\ held = {}
    /\ stale = FALSE /\ lost = FALSE

-----------------------------------------------------------------------------
(* Operations on the lists.                                                 *)

(* The nodes of the list from a head on, position by position.              *)
Walk(head, next) ==
    LET at[k \in 0 .. Last - First] ==
            IF k = 0 THEN head
            ELSE IF at[k - 1] = Nil THEN Nil ELSE next[at[k - 1]]
    IN  {at[k] : k \in DOMAIN at}

FreeList(o) == Walk(order_list[o], next_pg) \ {Nil}

(* __add_free_page_block                                                    *)
Push(i, o) ==
    /\ order_list' = [order_list EXCEPT ![o] = i]
    /\ next_pg' = [next_pg EXCEPT ![i] = order_list[o]]
    /\ prev_pg' = [prev_pg EXCEPT ![i] = Nil, ![order_list[o]] = i]

(* Flaw: the buddy stays on its list.                                       *)
UnlinkNothing(b, o) == UNCHANGED lists

(* Lines 187-195: a block whose prev_pg is -1 is taken for the list head.   *)
Unlink(b, o) ==
    \/ /\ prev_pg[b] = Nil
       /\ order_list' = [order_list EXCEPT ![o] = next_pg[b]]
       /\ prev_pg' = [prev_pg EXCEPT ![next_pg[b]] = Nil]
       /\ UNCHANGED next_pg
    \/ /\ prev_pg[b] # Nil
       /\ next_pg' = [next_pg EXCEPT ![prev_pg[b]] = next_pg[b]]
       /\ prev_pg' = [prev_pg EXCEPT ![next_pg[b]] = prev_pg[b]]
       /\ UNCHANGED order_list

(* Flaw: the block handed out stays at the head of its list.                *)
PopKeepsHead(i, o) ==
    /\ next_pg' = [next_pg EXCEPT ![i] = Nil]
    /\ UNCHANGED <<order_list, prev_pg>>

(* Pop of page_allocator_alloc: prev_pg of the new head is left as it was.  *)
Pop(i, o) ==
    /\ order_list' = [order_list EXCEPT ![o] = next_pg[i]]
    /\ next_pg' = [next_pg EXCEPT ![i] = Nil]
    /\ UNCHANGED prev_pg

-----------------------------------------------------------------------------
(* page_allocator_alloc                                                     *)

AllocPop(order) ==
    /\ task = Idle
    /\ Cardinality(held) < MaxHeld
    /\ \E o \in Levels :
        /\ o >= order /\ order_list[o] # Nil
        /\ \A l \in order .. o - 1 : order_list[l] = Nil
        /\ task' = [op |-> "split", idx |-> order_list[o], order |-> order, i |-> o]
        /\ Pop(order_list[o], o)
    /\ UNCHANGED <<held, stale, lost>>

(* Flaw: the second half is sought one order too high.                      *)
AllocSplitTooHigh ==
    /\ task.op = "split" /\ task.i > task.order
    /\ task' = [task EXCEPT !.i = @ - 1]
    /\ Push(BuddyIdx(task.idx, task.i), task.i - 1)
    /\ UNCHANGED <<held, stale, lost>>

AllocSplit ==
    /\ task.op = "split" /\ task.i > task.order
    /\ task' = [task EXCEPT !.i = @ - 1]
    /\ Push(BuddyIdx(task.idx, task.i - 1), task.i - 1)
    /\ UNCHANGED <<held, stale, lost>>

AllocReturn ==
    /\ task.op = "split" /\ task.i = task.order
    /\ held' = held \cup {<<task.idx, task.order>>}
    /\ task' = Idle
    /\ UNCHANGED <<lists, stale, lost>>

-----------------------------------------------------------------------------
(* page_allocator_free and the loop of __add_free_page                      *)

FreeCall(b) ==
    /\ task = Idle
    /\ held' = held \ {b}
    /\ task' = [op |-> "merge", idx |-> b[1], order |-> b[2]]
    /\ UNCHANGED <<lists, stale, lost>>

FreeMerge ==
    /\ task.op = "merge" /\ task.order < MAX_ORDER
    /\ LET b == BuddyIdx(task.idx, task.order)
       IN  /\ b \in FreeList(task.order)
           /\ Unlink(b, task.order)
           /\ stale' = (stale \/ (prev_pg[b] # Nil /\ order_list[task.order] = b))
           /\ task' = [task EXCEPT !.idx = Lower(task.idx, b), !.order = @ + 1]
    /\ UNCHANGED <<held, lost>>

(* Flaw: the buddy is not looked for.                                       *)
FreePushAnyway ==
    /\ task.op = "merge" /\ task.order < MAX_ORDER
    /\ Push(task.idx, task.order)
    /\ task' = Idle
    /\ UNCHANGED <<held, stale, lost>>

FreePush ==
    /\ task.op = "merge" /\ task.order < MAX_ORDER
    /\ BuddyIdx(task.idx, task.order) \notin FreeList(task.order)
    /\ Push(task.idx, task.order)
    /\ task' = Idle
    /\ UNCHANGED <<held, stale, lost>>

(* The loop ends without putting the merged block on any list.              *)
FreeDrop ==
    /\ task.op = "merge" /\ task.order = MAX_ORDER
    /\ lost' = TRUE
    /\ task' = Idle
    /\ UNCHANGED <<lists, held, stale>>

-----------------------------------------------------------------------------

Next ==
    \/ \E o \in Orders : AllocPop(o)
    \/ AllocSplit \/ AllocReturn
    \/ \E b \in held : FreeCall(b)
    \/ FreeMerge \/ FreePush \/ FreeDrop

Spec == Init /\ [][Next]_vars

(* Bound of the runs that check what holds before the first stale unlink.   *)
BeforeStale == ~stale

-----------------------------------------------------------------------------
(* Properties, at the end of each call.                                     *)

PagesOf(b) == b[1] .. b[1] + Size[b[2]] - 1
FreeBlocks == UNION {FreeList(o) \X {o} : o \in Levels}
CoverOf(blocks) == UNION {PagesOf(b) : b \in blocks}
Apart(blocks) == \A a, b \in blocks : a # b => PagesOf(a) \cap PagesOf(b) = {}

(* No page is handed out while somebody holds it: the block that the search *)
(* of page_alloc.c:118-122 finds is a free one.                             *)
Exclusive ==
    /\ Apart(held)
    /\ task.op = "split" =>
          PagesOf(<<task.idx, task.order>>) \cap CoverOf(held) = {}

(* Until a stale head is unlinked, blocks in use and free blocks never      *)
(* overlap and, until two blocks of the highest order merge, they are all   *)
(* the memory.                                                              *)
Partition ==
    task = Idle /\ ~stale =>
        /\ Apart(held \cup FreeBlocks)
        /\ held \cap FreeBlocks = {}
        /\ ~lost => CoverOf(held) \cup CoverOf(FreeBlocks) = Pages

(* Until then free memory is coalesced: a request finds no block only if    *)
(* no aligned run of its size is free.                                      *)
Coalesced ==
    task = Idle /\ ~stale =>
        \A o \in Levels :
            (\A l \in o .. MAX_ORDER - 1 : order_list[l] = Nil) =>
                \A s \in Pages :
                    ~ /\ s % Size[o] = 0
                      /\ PagesOf(<<s, o>>) \subseteq CoverOf(FreeBlocks)

(* Until then every call does what PageAlloc promises.                      *)
P == INSTANCE PageAlloc
ImplementsPageAlloc == P!PageInit /\ [][stale \/ P!PageNext]_held
=============================================================================
