---------------------------------- MODULE Swap ----------------------------------
(***************************************************************************)
(* Page replacement of lab3: page faults (kern/mm/vmm.c, pmm.c), swapping  *)
(* out and in (swap.c, kern/fs/swapfs.c) and the managers of swap_fifo.c,  *)
(* swap_clock.c and swap_lru.c, for the one address space that is in use.  *)
(* The list of swappable pages is kept as its links.  A fault is one step: *)
(* lab3 has no processes, and the disk is a copy in memory.  A page is its *)
(* address / PGSIZE; its swap entry is the next number, and nobody else's. *)
(***************************************************************************)
EXTENDS Integers, FiniteSets, FiniteSetsExt

CONSTANTS
  Pages,          \* the virtual pages of the area, by their numbers
  NFrames,        \* physical pages for them
  max_swap_offset,\* of the disk: entries from here on do not exist
  Managers,       \* what sm may be: "fifo", "clock", "lru"
  HeadVisited     \* what le2page(pra_list_head)->visited reads: 0, 1 or another

Frames == 1..NFrames
Values == {0, 1}
Head == 0       \* pra_list_head
Null == -1      \* a link that nobody has set
Entries == {Head} \cup Frames

ASSUME SwapAssumption ==
  /\ Pages \subseteq Nat \ {0}
  /\ NFrames \in Nat \ {0}
  /\ max_swap_offset \in Nat /\ max_swap_offset >= 7   \* swap_init panics below
  /\ Managers \subseteq {"fifo", "clock", "lru"}

VARIABLES
  sm,           \* the swap manager
  next, prev,   \* pra_page_link of the frames, and of pra_list_head
  visited,      \* page->visited, with the word that stands for that of the head
  vaddr,        \* page->pra_vaddr
  free,         \* the frames that alloc_page may return
  data,         \* what is in a frame
  pte,          \* of a page: its frame, 0 for none yet, or Swapped
  disk,         \* the swap entry of a page
  panic         \* an assertion has failed, or a pointer was NULL

vars == <<sm, next, prev, visited, vaddr, free, data, pte, disk, panic>>

Swapped == -1

swap_init == sm \in Managers

init_mm ==   \* the same in the three managers; curr_ptr of the clock is never used
  next = [e \in Entries |-> IF e = Head THEN Head ELSE Null] /\ prev = next

Init ==
  /\ swap_init
  /\ init_mm
  /\ visited = [e \in Entries |-> IF e = Head THEN HeadVisited ELSE 0]
  /\ vaddr = [f \in Frames |-> 0]
  /\ free = Frames
  /\ data \in [Frames -> Values]
  /\ pte = [v \in Pages |-> 0]
  /\ disk = [v \in Pages |-> 0]
  /\ panic = FALSE
-----------------------------------------------------------------------------
(* The list, as a record of its links.                                     *)
Links == [next |-> next, prev |-> prev]

list_del(l, e) ==
  [next |-> [l.next EXCEPT ![l.prev[e]] = l.next[e]],
   prev |-> [l.prev EXCEPT ![l.next[e]] = l.prev[e]]]

Insert(l, e, before, after) ==   \* __list_add
  [next |-> [l.next EXCEPT ![before] = e, ![e] = after],
   prev |-> [l.prev EXCEPT ![after] = e, ![e] = before]]

(* fifo and the clock put a page after the head, lru before it, after it   *)
(* has taken the page out of a list that it may not be in.                 *)
fifo_map_swappable(l, f) == Insert(l, f, Head, l.next[Head])

lru_map_swappable(l, f) ==
  LET out == list_del(l, f) IN Insert(out, f, out.prev[Head], Head)

map_swappable(l, f) ==
  IF sm = "lru" THEN lru_map_swappable(l, f) ELSE fifo_map_swappable(l, f)

CanMap(l, f) == sm = "lru" => Null \notin {l.next[f], l.prev[f]}

(* The walk of the clock from the head back: it clears the bits that it    *)
(* passes, the head's among them, until it finds one that is 0.            *)
Walk[k \in 0..(2 * (NFrames + 1))] ==
  IF k = 0 THEN [at |-> Head, visited |-> visited, found |-> FALSE]
  ELSE LET w == Walk[k - 1]
           e == prev[w.at]
       IN  IF w.found THEN w
           ELSE [at |-> e, found |-> w.visited[e] = 0,
                 visited |-> [w.visited EXCEPT ![e] = IF @ = 1 THEN 0 ELSE @]]

(* The entry that a manager takes out, and the bits it leaves.             *)
Victim ==
  CASE sm = "fifo" -> [at |-> prev[Head], visited |-> visited]
    [] sm = "clock" -> LET w == Walk[2 * (NFrames + 1)] IN [at |-> w.at, visited |-> w.visited]
    [] sm = "lru" -> [at |-> next[Head], visited |-> visited]

swap_offset(v) == v + 1
HasSlot(v) == swap_offset(v) \in 1..(max_swap_offset - 1)

(* alloc_page, which swaps a page out when no frame is free: the frame it  *)
(* returns, and what has become of the rest.  swap_out asserts that the    *)
(* victim is mapped, and swap_offset that its entry exists.                *)
alloc_page ==
  IF free # {}
  THEN [frame |-> Min(free), links |-> Links, visited |-> visited, pte |-> pte, disk |-> disk,
        free |-> free \ {Min(free)}, ok |-> TRUE]
  ELSE LET f == Victim.at IN
       IF f \in Frames /\ pte[vaddr[f]] \notin {0, Swapped} /\ HasSlot(vaddr[f])
       THEN [frame |-> f, links |-> list_del(Links, f), visited |-> Victim.visited,
             pte |-> [pte EXCEPT ![vaddr[f]] = Swapped],
             disk |-> [disk EXCEPT ![vaddr[f]] = data[f]], free |-> {}, ok |-> TRUE]
       ELSE [ok |-> FALSE]

(* What a page has in it after swap_in, with the frame and the disk that   *)
(* alloc_page has left.                                                    *)
Bug_swap_in(a, v) == data[a.frame]   \* ide_read_secs copies nothing

swap_in(a, v) == a.disk[v]

(* do_pgfault: a new page, with anything in it, or one that comes back     *)
(* from the disk.                                                          *)
do_pgfault(v) ==
  /\ pte[v] \in {0, Swapped}
  /\ LET a == alloc_page IN
     IF a.ok /\ CanMap(a.links, a.frame)
     THEN /\ next' = map_swappable(a.links, a.frame).next
          /\ prev' = map_swappable(a.links, a.frame).prev
          /\ visited' = [a.visited EXCEPT ![a.frame] = IF sm = "clock" THEN 1 ELSE @]
          /\ vaddr' = [vaddr EXCEPT ![a.frame] = v]
          /\ free' = a.free
          /\ data' = IF pte[v] = Swapped THEN [data EXCEPT ![a.frame] = swap_in(a, v)] ELSE data
          /\ pte' = [a.pte EXCEPT ![v] = a.frame]
          /\ disk' = a.disk
          /\ UNCHANGED <<sm, panic>>
     ELSE panic' = TRUE /\ UNCHANGED <<sm, next, prev, visited, vaddr, free, data, pte, disk>>

Store(v, value) ==
  /\ pte[v] \in Frames
  /\ data' = [data EXCEPT ![pte[v]] = value]
  /\ UNCHANGED <<sm, next, prev, visited, vaddr, free, pte, disk, panic>>

Next ==
  /\ ~panic
  /\ \E v \in Pages : do_pgfault(v) \/ \E value \in Values : Store(v, value)

Spec == Init /\ [][Next]_vars
-----------------------------------------------------------------------------
(* Page faults never show: a fault gives the page its first content, or    *)
(* leaves all of them as they are, whether they are in memory, go to the   *)
(* disk or come back; a store changes its own page.  The kernel stops only *)
(* with lru, whose _lru_map_swappable follows a NULL link at the first     *)
(* fault, or when no frame is free while a page without a swap entry may   *)
(* have to go.                                                             *)
Undef == -1
mem ==
  [p \in {"mm"} |->
    [v \in Pages |-> CASE pte[v] = 0 -> Undef
                       [] pte[v] = Swapped -> disk[v]
                       [] OTHER -> data[pte[v]]]]

Abstract == INSTANCE Memory WITH Procs <- {"mm"}, Images <- {}

Kept ==   \* what a step does to the contents is what its operation may do
  IF panic'
  THEN /\ UNCHANGED mem
       /\ \/ sm = "lru"
          \/ free = {} /\ \E v \in Pages : pte[v] \in Frames /\ ~HasSlot(v)
  ELSE \A v \in Pages :
         /\ do_pgfault(v) => Abstract!Fault("mm", v)
         /\ \A value \in Values : Store(v, value) => Abstract!Write("mm", v, value)

SwapKeeps == [][Kept]_vars
================================================================================
