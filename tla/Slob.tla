---------------------------------- MODULE Slob ----------------------------------
(***************************************************************************)
(* kmalloc and kfree of lab4 to lab8 (kern/mm/kmalloc.c): the SLOB heap, a *)
(* ring of free blocks that starts with the static arena and grows by a    *)
(* page when nothing fits, and whole pages for what does not fit in one.   *)
(*                                                                         *)
(* An address is the number of a unit of SLOB_UNIT bytes; the arena is at  *)
(* 0, and page p begins at p * PageUnits.  The allocator runs with         *)
(* interrupts off and the kernel is not preempted: a call is one step.     *)
(* Its callers pass align as 0.  None asks for a size between the limits   *)
(* of slob_alloc and __kmalloc, nor for one so little above a power of two *)
(* of pages that find_order drops the difference.                          *)
(***************************************************************************)
EXTENDS Integers, FiniteSets, FiniteSetsExt

CONSTANTS
  NPages,       \* pages that alloc_pages can give us
  PAGE_SIZE, SLOB_UNIT,
  BIGBLOCK,     \* sizeof(bigblock_t)
  Sizes,        \* that the kernel asks kmalloc for
  MaxTaken      \* bound: blocks in use at once

(* 1 << k *)
Shift[k \in Nat] == IF k = 0 THEN 1 ELSE 2 * Shift[k - 1]

ASSUME SlobAssumption ==
  /\ {NPages, PAGE_SIZE, SLOB_UNIT, BIGBLOCK, MaxTaken} \subseteq Nat \ {0}
  /\ SLOB_UNIT < BIGBLOCK /\ PAGE_SIZE % SLOB_UNIT = 0 /\ BIGBLOCK + SLOB_UNIT < PAGE_SIZE
  /\ \A size \in Sizes :
       /\ size \in Nat \ {0}
       /\ size + 2 * SLOB_UNIT < PAGE_SIZE \/ size >= PAGE_SIZE - SLOB_UNIT
       /\ \A k \in 0..size : ~(PAGE_SIZE * Shift[k] < size /\ size < (PAGE_SIZE + 1) * Shift[k])

VARIABLES
  heap,        \* units and next of the headers, and slobfree
  bigblocks,   \* the list, which is only searched by address, as a set
  unused,      \* the pages that alloc_pages still has
  taken        \* what the callers have been given: [block, size]

slob_vars == <<heap, bigblocks, unused, taken>>

PageUnits == PAGE_SIZE \div SLOB_UNIT
SlobPages == 1..NPages
Addrs == 0..(PageUnits * (NPages + 1) - 1)
arena == 0
NoBlock == 0
SLOB_UNITS(size) == (size + SLOB_UNIT - 1) \div SLOB_UNIT
Extent(b, units) == b..(b + units - 1)

SlobInit ==
  /\ heap = [units |-> [b \in Addrs |-> IF b = arena THEN 1 ELSE 0],
             next |-> [b \in Addrs |-> arena], slobfree |-> arena]
  /\ bigblocks = {} /\ unused = SlobPages /\ taken = {}
-----------------------------------------------------------------------------
(* The blocks on the ring, from slobfree on, round and round. *)
Walk(h) ==
  LET at[k \in 0..Cardinality(Addrs)] == IF k = 0 THEN h.slobfree ELSE h.next[at[k - 1]]
  IN  at

Bug_Between(h, cur, b) ==   \* at the end of the ring whatever the address is
  \/ cur < b /\ b < h.next[cur]
  \/ cur >= h.next[cur]

(* The place of a block: between two free ones, or where the ring closes.  *)
Between(h, cur, b) ==
  \/ cur < b /\ b < h.next[cur]
  \/ cur >= h.next[cur] /\ (b > cur \/ b < h.next[cur])

(* Free block a ends where b begins. *)
Touches(h, a, b) == a + h.units[a] = b

(* Block b comes before nxt, and then behind cur. *)
join_next(h, b, nxt) ==
  IF Touches(h, b, nxt)
  THEN [h EXCEPT !.units[b] = @ + h.units[nxt], !.next[b] = h.next[nxt]]
  ELSE [h EXCEPT !.next[b] = nxt]

join_prev(h, cur, b) ==
  IF Touches(h, cur, b)
  THEN [h EXCEPT !.units[cur] = @ + h.units[b], !.next[cur] = h.next[b]]
  ELSE [h EXCEPT !.next[cur] = b]

slob_free(h, b, units) ==
  LET at == Walk(h)
      cur == at[Min({k \in DOMAIN at : Between(h, at[k], b)})]
      put == [h EXCEPT !.units[b] = units, !.slobfree = cur]
  IN  join_prev(join_next(put, b, h.next[cur]), cur, b)

(* The turns of the loop of slob_alloc, once round the ring, that find     *)
(* room enough.                                                            *)
Fitting(h, units) ==
  LET at == Walk(h)
      last == Min({k \in DOMAIN at \ {0} : at[k] = h.slobfree})
  IN  {k \in 1..last : h.units[at[k]] >= units}

(* The first of them: the block is unlinked, or what it has too much stays. *)
Carve(h, units, left) ==
  LET at == Walk(h)
      k == Min(Fitting(h, units))
      prev == at[k - 1]
      cur == at[k]
      rest == cur + units
  IN  [block |-> cur, unused |-> left,
       heap |-> IF h.units[cur] = units
                THEN [h EXCEPT !.next[prev] = h.next[cur], !.slobfree = prev]
                ELSE [h EXCEPT !.next[prev] = rest, !.units[rest] = h.units[cur] - units,
                               !.next[rest] = h.next[cur], !.units[cur] = units,
                               !.slobfree = prev]]

(* What slob_alloc may end with; alloc_page may return any unused page.    *)
slob_alloc(size) ==
  LET units == SLOB_UNITS(size)
  IN  IF Fitting(heap, units) # {} THEN {Carve(heap, units, unused)}
      ELSE IF unused = {} THEN {[block |-> NoBlock, heap |-> heap, unused |-> unused]}
      ELSE {Carve(slob_free(heap, p * PageUnits, PageUnits), units, unused \ {p}) : p \in unused}

find_order(size) == Min({k \in 0..size : size \div Shift[k] <= PAGE_SIZE})

kmalloc_small(size) ==
  /\ size < PAGE_SIZE - SLOB_UNIT
  /\ \E r \in slob_alloc(size + SLOB_UNIT) :
       /\ heap' = r.heap /\ unused' = r.unused
       /\ taken' = IF r.block = NoBlock THEN taken
                   ELSE taken \cup {[block |-> r.block + 1, size |-> size]}
  /\ UNCHANGED bigblocks

(* Whole pages, with an entry in bigblocks; any run of unused pages will do. *)
kmalloc_big(size) ==
  /\ size >= PAGE_SIZE - SLOB_UNIT
  /\ \E r \in slob_alloc(BIGBLOCK) :
       LET n == Shift[find_order(size)]
           runs == {p \in SlobPages : p..(p + n - 1) \subseteq r.unused}
       IN  IF r.block # NoBlock /\ runs # {}
           THEN \E p \in runs :
                  /\ heap' = r.heap
                  /\ unused' = r.unused \ (p..(p + n - 1))
                  /\ bigblocks' = bigblocks \cup {[bb |-> r.block, order |-> find_order(size), pages |-> p]}
                  /\ taken' = taken \cup {[block |-> p * PageUnits, size |-> size]}
           ELSE /\ heap' = IF r.block = NoBlock THEN r.heap
                           ELSE slob_free(r.heap, r.block, SLOB_UNITS(BIGBLOCK))
                /\ unused' = r.unused
                /\ UNCHANGED <<bigblocks, taken>>

(* kfree looks for a block that begins a page in bigblocks; the block of a *)
(* small one may begin a page too, behind a header in the page before.     *)
kfree(t) ==
  LET big == {e \in bigblocks : e.pages * PageUnits = t.block}
  IN  /\ taken' = taken \ {t}
      /\ IF big # {}
         THEN \E e \in big :
                /\ bigblocks' = bigblocks \ {e}
                /\ unused' = unused \cup e.pages..(e.pages + Shift[e.order] - 1)
                /\ heap' = slob_free(heap, e.bb, SLOB_UNITS(BIGBLOCK))
         ELSE /\ heap' = slob_free(heap, t.block - 1, heap.units[t.block - 1])
              /\ UNCHANGED <<bigblocks, unused>>

SlobNext ==
  \/ \E size \in Sizes : /\ Cardinality(taken) < MaxTaken
                         /\ kmalloc_small(size) \/ kmalloc_big(size)
  \/ \E t \in taken : kfree(t)

SlobSpec == SlobInit /\ [][SlobNext]_slob_vars
-----------------------------------------------------------------------------
Ring == {Walk(heap)[k] : k \in 0..Cardinality(Addrs)}
Small == {t \in taken : \A e \in bigblocks : e.pages * PageUnits # t.block}

(* A state without what is left in memory that nobody reads any more. *)
View ==
  <<[b \in Ring |-> <<heap.units[b], heap.next[b]>>], heap.slobfree,
    [t \in Small |-> heap.units[t.block - 1]], bigblocks, unused, taken>>

(* Every piece of the memory: free, in a block with its header, in an      *)
(* entry of bigblocks, in a big block, or in a page never used.            *)
Pieces ==
  {Extent(b, heap.units[b]) : b \in Ring \ {arena}}
  \cup {Extent(t.block - 1, heap.units[t.block - 1]) : t \in Small}
  \cup {Extent(e.bb, SLOB_UNITS(BIGBLOCK)) : e \in bigblocks}
  \cup {Extent(e.pages * PageUnits, Shift[e.order] * PageUnits) : e \in bigblocks}
  \cup {Extent(p * PageUnits, PageUnits) : p \in unused}

(* Nothing is lost, given out twice or cut too short over any sequence of  *)
(* kmalloc and kfree: the pieces of memory do not overlap and leave        *)
(* nothing out, each block has room for what was asked for, the ring is in *)
(* the order of addresses and no two free blocks touch.                    *)
HeapOK ==
  /\ \A b \in Ring : LET higher == {c \in Ring : c > b} IN
       /\ heap.next[b] = IF higher = {} THEN arena ELSE Min(higher)
       /\ b + heap.units[b] \notin Ring
  /\ UNION Pieces = Addrs \ Extent(arena, PageUnits)
  /\ \A x, y \in Pieces : x # y => x \cap y = {}
  /\ Cardinality(Pieces) = Cardinality(Ring) - 1 + Cardinality(Small)
                           + 2 * Cardinality(bigblocks) + Cardinality(unused)
  /\ \A t \in Small : t.size <= (heap.units[t.block - 1] - 1) * SLOB_UNIT
  /\ \A t \in taken, e \in bigblocks : e.pages * PageUnits = t.block => t.size <= Shift[e.order] * PAGE_SIZE
================================================================================
