------------------------------ MODULE FreeList ------------------------------
(***************************************************************************)
(* The physical page allocator: the address-ordered free list of           *)
(* lab2/kern/mm/default_pmm.c (first fit, also used from lab3 on) and of   *)
(* best_fit_pmm.c, on the linked lists of libs/list.h.  The two files      *)
(* differ in the loop of alloc_pages only.                                 *)
(*                                                                         *)
(* pmm.c calls them with interrupts off, so the calls do not interleave;   *)
(* each turn of a loop over the list is an action, because the list is     *)
(* changed by the loop that walks it.  Page p is the p-th entry of the     *)
(* array pages; a page is named by its index, and the list entry in it by  *)
(* the same number.                                                        *)
(***************************************************************************)
EXTENDS Integers, FiniteSets, FiniteSetsExt

CONSTANTS
  NPAGE,     \* the pages that page_init hands to init_memmap
  Managers,  \* what pmm_manager may be: "default", "best_fit"
  MAX_N,     \* bound: the largest n of alloc_pages and free_pages
  Roomy      \* the callers leave the last page of memory free

ASSUME FreeListAssumption ==
  /\ NPAGE \in Nat \ {0}
  /\ Managers \subseteq {"default", "best_fit"}
  /\ MAX_N \in 1..NPAGE
  /\ Roomy \in BOOLEAN

Pages == 0..(NPAGE - 1)
free_list == -1    \* the head of the list
NULL == -2

VARIABLES
  pmm_manager,   \* which of the two managers runs
  link,          \* next and prev of the list entries
  property,      \* page->property
  PG_property,   \* the pages with this flag
  nr_free,
  used,          \* the pages that the callers have
  pc,            \* where the call is that is in progress
  le, base, page, n   \* its local variables; page is also what it returns

list == <<link, property, PG_property, nr_free>>
vars == <<pmm_manager, list, used, pc, le, base, page, n>>

Block(p, k) == p..(p + k - 1)
-----------------------------------------------------------------------------
(* libs/list.h *)
list_add_between(l, elm, prv, nxt) ==
  [next |-> [l.next EXCEPT ![prv] = elm, ![elm] = nxt],
   prev |-> [l.prev EXCEPT ![nxt] = elm, ![elm] = prv]]

list_add(l, at, elm) == list_add_between(l, elm, at, l.next[at])
list_add_before(l, at, elm) == list_add_between(l, elm, l.prev[at], at)

list_del(l, elm) ==
  [next |-> [l.next EXCEPT ![l.prev[elm]] = l.next[elm]],
   prev |-> [l.prev EXCEPT ![l.next[elm]] = l.prev[elm]]]
-----------------------------------------------------------------------------
(* init and init_memmap: one block of all the pages. *)
Init ==
  /\ pmm_manager \in Managers
  /\ LET empty == [p \in Pages \cup {free_list} |-> free_list]
     IN  link = list_add([next |-> empty, prev |-> empty], free_list, 0)
  /\ property = [p \in Pages |-> IF p = 0 THEN NPAGE ELSE 0]
  /\ PG_property = {0}
  /\ nr_free = NPAGE
  /\ used = {}
  /\ pc = "idle"
  /\ le = free_list /\ base = NULL /\ page = NULL /\ n = 0

(* The runs of k free pages, by their first page, and how long the run of  *)
(* free pages is that starts at b.                                         *)
Runs(k) == {b \in Pages : Block(b, k) \subseteq Pages \ used}
RunLength(b) == Max({k \in 0..NPAGE : b \in Runs(k)})
RunStarts(k) == {b \in Runs(k) : b - 1 \notin Pages \ used}

(* What alloc_pages(k) should return: the first run of free pages that is  *)
(* long enough, or the first of the shortest of them.                      *)
Fit(k) ==
  IF RunStarts(k) = {} THEN NULL
  ELSE IF pmm_manager = "best_fit"
       THEN Min({b \in RunStarts(k) : \A c \in RunStarts(k) : RunLength(b) <= RunLength(c)})
       ELSE Min(RunStarts(k))

Acceptable(k) == Roomy => NPAGE - 1 \notin Block(Fit(k), k)
-----------------------------------------------------------------------------
(* A definition named Bug_x is the definition x with a plausible mistake;  *)
(* the mutation runs put it in the place of x.                             *)
-----------------------------------------------------------------------------
Bug_Following == link.next[free_list]   \* the walk starts over at each turn

(* le = list_next(le), the step of each loop. *)
Following == link.next[le]

(* alloc_pages up to its loop. *)
alloc_pages(k) ==
  /\ pc = "idle"
  /\ Acceptable(k)
  /\ pc' = IF k > nr_free THEN "alloc_ret" ELSE "alloc_scan"
  /\ n' = k /\ page' = NULL /\ le' = free_list
  /\ UNCHANGED <<list, used, base>>

(* A turn of the loop of default_alloc_pages, which stops at a match. *)
default_scan ==
  /\ pmm_manager = "default" /\ pc = "alloc_scan"
  /\ le' = Following
  /\ IF le' = free_list THEN pc' = "alloc_ret" /\ UNCHANGED page
     ELSE IF property[le'] >= n THEN pc' = "alloc_take" /\ page' = le'
     ELSE UNCHANGED <<pc, page>>
  /\ UNCHANGED <<list, used, base, n>>

Bug_min_size == property[Following] + 1   \* the last match wins

(* property of the best match so far. *)
min_size == IF page = NULL THEN nr_free + 1 ELSE property[page]

(* A turn of the loop of best_fit_alloc_pages, which goes on to the end. *)
best_fit_scan ==
  /\ pmm_manager = "best_fit" /\ pc = "alloc_scan"
  /\ le' = Following
  /\ IF le' = free_list
     THEN /\ pc' = IF page = NULL THEN "alloc_ret" ELSE "alloc_take"
          /\ UNCHANGED page
     ELSE /\ page' = IF property[le'] >= n /\ property[le'] < min_size THEN le' ELSE page
          /\ UNCHANGED pc
  /\ UNCHANGED <<list, used, base, n>>

Bug_Rest_lost(l, prv) == l   \* what is left is forgotten

(* The rest of a block that is too large takes its place in the list. *)
Rest(l, prv) == list_add(l, prv, page + n)

Remaining == nr_free - n

(* alloc_pages after its loop. *)
alloc_take ==
  LET larger == property[page] > n
      l == list_del(link, page)
  IN  /\ pc = "alloc_take"
      /\ link' = IF larger THEN Rest(l, link.prev[page]) ELSE l
      /\ property' = IF larger THEN [property EXCEPT ![page + n] = property[page] - n] ELSE property
      /\ PG_property' = (PG_property \cup (IF larger THEN {page + n} ELSE {})) \ {page}
      /\ nr_free' = Remaining
      /\ pc' = "alloc_ret"
      /\ UNCHANGED <<used, le, base, page, n>>

(* The caller has the pages. *)
alloc_ret ==
  /\ pc = "alloc_ret"
  /\ used' = IF page = NULL THEN used ELSE used \cup Block(page, n)
  /\ pc' = "idle" /\ le' = free_list /\ page' = NULL /\ n' = 0
  /\ UNCHANGED <<list, base>>
-----------------------------------------------------------------------------
(* free_pages up to its insertion loop.  The callers give back pages that  *)
(* they have, not always in the blocks they got them in (default_check).   *)
free_pages(b, k) ==
  /\ pc = "idle" /\ Block(b, k) \subseteq used
  /\ used' = used \ Block(b, k)
  /\ IF Block(b, k) \cap PG_property # {}
     THEN pc' = "panic" /\ UNCHANGED <<list, le, base>>
     ELSE /\ property' = [property EXCEPT ![b] = k]
          /\ PG_property' = PG_property \cup {b}
          /\ nr_free' = nr_free + k
          /\ IF link.next[free_list] = free_list
             THEN link' = list_add(link, free_list, b) /\ pc' = "merge_prev"
             ELSE UNCHANGED link /\ pc' = "insert"
          /\ base' = b /\ le' = free_list
  /\ UNCHANGED <<page, n>>

Before(at) == base < at

(* A turn of the insertion loop.  It does not end with the block that it   *)
(* adds at the end of the list: the next turn meets that block.            *)
insert ==
  LET at == Following IN
  /\ pc = "insert"
  /\ le' = at
  /\ pc' = IF at = free_list \/ Before(at) THEN "merge_prev" ELSE "insert"
  /\ link' = IF at = free_list THEN link
             ELSE IF Before(at) THEN list_add_before(link, at, base)
             ELSE IF link.next[at] = free_list THEN list_add(link, at, base)
             ELSE link
  /\ UNCHANGED <<property, PG_property, nr_free, used, base, page, n>>

(* The block of q begins where the block of p ends. *)
Adjacent(p, q) == p # free_list /\ q # free_list /\ p + property[p] = q

(* Block p takes in block q. *)
Merge(p, q) ==
  /\ property' = [property EXCEPT ![p] = @ + property[q]]
  /\ PG_property' = PG_property \ {q}
  /\ link' = list_del(link, q)

merge_prev ==
  LET p == link.prev[base] IN
  /\ pc = "merge_prev"
  /\ \/ Adjacent(p, base) /\ Merge(p, base) /\ base' = p
     \/ ~Adjacent(p, base) /\ UNCHANGED <<link, property, PG_property, base>>
  /\ pc' = "merge_next"
  /\ UNCHANGED <<nr_free, used, le, page, n>>

Bug_merge_next ==   \* blocks are merged to the left only
  /\ pc = "merge_next"
  /\ pc' = "idle" /\ base' = NULL /\ le' = free_list
  /\ UNCHANGED <<list, used, page, n>>

merge_next ==
  LET p == link.next[base] IN
  /\ pc = "merge_next"
  /\ \/ Adjacent(base, p) /\ Merge(base, p)
     \/ ~Adjacent(base, p) /\ UNCHANGED <<link, property, PG_property>>
  /\ pc' = "idle" /\ base' = NULL /\ le' = free_list
  /\ UNCHANGED <<nr_free, used, page, n>>
-----------------------------------------------------------------------------
Call ==
  /\ \E k \in 1..MAX_N : alloc_pages(k) \/ \E b \in Pages : free_pages(b, k)
  /\ UNCHANGED pmm_manager

Step ==
  /\ \/ default_scan \/ best_fit_scan \/ alloc_take \/ alloc_ret
     \/ insert \/ merge_prev \/ merge_next
  /\ UNCHANGED pmm_manager

Next == Call \/ Step

Spec == Init /\ [][Next]_vars

(* A call runs with interrupts off and is never left waiting. *)
FairSpec == Spec /\ WF_vars(Step)
-----------------------------------------------------------------------------
(* The values of the variables. *)
TypeOK ==
  /\ pmm_manager \in Managers
  /\ link \in [next : [Pages \cup {free_list} -> Pages \cup {free_list}],
               prev : [Pages \cup {free_list} -> Pages \cup {free_list}]]
  /\ property \in [Pages -> 0..NPAGE]
  /\ PG_property \subseteq Pages
  /\ nr_free \in 0..NPAGE
  /\ used \subseteq Pages
  /\ pc \in {"idle", "alloc_scan", "alloc_take", "alloc_ret", "insert", "merge_prev",
             "merge_next", "panic"}
  /\ le \in Pages \cup {free_list}
  /\ base \in Pages \cup {NULL} /\ page \in Pages \cup {NULL} /\ n \in 0..MAX_N

(* Between two calls the list holds the pages with PG_property in the      *)
(* order of their addresses, and prev is the inverse of next: what         *)
(* list_del relies on.                                                     *)
ListOK ==
  pc = "idle" =>
    \A p \in PG_property \cup {free_list} :
      LET higher == {q \in PG_property : p < q} IN
      /\ link.next[p] = IF higher = {} THEN free_list ELSE Min(higher)
      /\ link.prev[link.next[p]] = p

(* The blocks in the list are disjoint, hold just the pages that nobody    *)
(* has, and nr_free counts these; the list is whole, and the assertion of  *)
(* free_pages that the pages it is given have PG_property cleared never    *)
(* fails.                                                                  *)
FreeOK ==
  /\ pc # "panic" /\ TypeOK /\ ListOK
  /\ pc = "idle" =>
       /\ \A p, q \in PG_property : p # q => Block(p, property[p]) \cap Block(q, property[q]) = {}
       /\ UNION {Block(p, property[p]) : p \in PG_property} = Pages \ used
       /\ nr_free = Cardinality(Pages \ used)

(* free_pages merges a block with both its neighbours: between two calls   *)
(* no block ends where another one begins.                                 *)
Coalesced == pc = "idle" => \A p, q \in PG_property : p + property[p] # q

(* What alloc_pages returns is the first fit, or the best fit, among the   *)
(* runs of free pages; it fails only if there is no run long enough.       *)
AllocFits == pc = "alloc_ret" => page = Fit(n)

(* No page is handed out while somebody has it: the pages that basic_check *)
(* allocates are distinct.                                                 *)
PagesDistinct ==
  (pc = "alloc_ret" /\ page # NULL) => Block(page, n) \subseteq Pages \ used

(* The loops over the list come to an end. *)
CallsReturn == pc # "idle" ~> pc = "idle"
=============================================================================
