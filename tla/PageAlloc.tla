------------------------------ MODULE PageAlloc ------------------------------
(***************************************************************************)
(* What src/include/mm.h promises of page_alloc_v2 and page_free_v2: a     *)
(* block handed out is a run of Size[order] pages that nobody else holds.  *)
(***************************************************************************)
EXTENDS Integers

CONSTANTS First, Last,  \* the allocator's pages are First .. Last - 1
          Orders,       \* the orders its clients ask for
          Size          \* 1 << order

VARIABLE held           \* blocks in use, each as <<first page, order>>

PagesOf(b) == b[1] .. b[1] + Size[b[2]] - 1

HeldPages(blocks) == UNION {PagesOf(b) : b \in blocks}

PageInit == held = {}

Grant(b) ==
    /\ PagesOf(b) \subseteq First .. Last - 1
    /\ PagesOf(b) \cap HeldPages(held) = {}
    /\ held' = held \cup {b}

Release(b) ==
    /\ b \in held
    /\ held' = held \ {b}

PageNext ==
    \E b \in (First .. Last - 1) \X Orders : Grant(b) \/ Release(b)

PageSpec == PageInit /\ [][PageNext]_held
=============================================================================
