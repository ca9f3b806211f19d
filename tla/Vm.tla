----------------------------------- MODULE Vm -----------------------------------
(***************************************************************************)
(* The address spaces of lab5: the areas of a process (kern/mm/vmm.c), its *)
(* page tables and the reference counts of pages (kern/mm/pmm.c), and what *)
(* exec, fork, exit and page faults do to them (kern/process/proc.c,       *)
(* do_pgfault).  When vm.cow holds, the functions of kern/mm/cow.c take    *)
(* the place of copy_range and of the copy in do_pgfault, as the lines     *)
(* that are commented out in do_fork and do_pgfault have it.               *)
(*                                                                         *)
(* The kernel is not preemptive and nothing here waits: a system call or a *)
(* page fault is one step.  A state of the memory is a record:             *)
(*   left              nr_free, of the pages that the kernel leaves to us  *)
(*   free, ref, data   for the pages that processes may map: which ones    *)
(*                     are free, page_ref and the content                  *)
(*   page              what alloc_page has returned                        *)
(*   mm                the mm_struct of a process, or NoMm                 *)
(*   panic             the kernel has stopped                              *)
(*   cow               the kernel is built with cow.c                      *)
(* Pages that serve as page tables, and those that get lost, are only      *)
(* counted: they are the ones that are neither left nor out of free.       *)
(***************************************************************************)
EXTENDS Integers, Sequences, FiniteSets, FiniteSetsExt, SequencesExt, Functions

CONSTANTS
  Procs,
  NPages,       \* physical pages, for tables and for processes
  NFrames,      \* bound: how many of them processes may map
  NPTEENTRY,    \* entries of a page table
  NPDEENTRY,    \* entries of a level 0 page directory
  NPD,          \* entries of a level 1 page directory
  Programs,     \* sequences of segments, records [start, end, write]
  StackArea,    \* the area of the stack
  StackPages,   \* how many pages load_icode maps at the top of it
  Builds,       \* the values that cow may have
  MaxRef        \* bound: no step from a state with a larger page_ref

Frames == 1..NFrames
Pages == 0..(NPD * NPDEENTRY * NPTEENTRY - 1)
PTs == 0..(NPD * NPDEENTRY - 1)
PDs == 0..(NPD - 1)
Values == {0, 1}    \* of a page; what a program loads is 0
None == 0

In(area) == area.start..(area.end - 1)

ASSUME VmAssumption ==
  /\ {NPages, NFrames, NPTEENTRY, NPDEENTRY, NPD} \subseteq Nat \ {0}
  /\ Builds \subseteq BOOLEAN
  /\ IsFiniteSet(Procs)
  /\ \A prog \in Programs : prog \in Seq(Range(prog))
  /\ \A area \in {StackArea} \cup UNION {Range(prog) : prog \in Programs} :
       {area.start, area.end} \subseteq Int /\ In(area) \subseteq Pages /\ In(area) # {}
  /\ StackPages \in 1..Cardinality(In(StackArea))

VARIABLE vm
vars == vm

NoMm == [areas |-> <<>>]   \* an address space has the area of the stack
PTE(f, perm) == [frame |-> f, perm |-> perm]   \* perm: "none", "r" or "rw", with PTE_U
NoPTE == PTE(None, "none")

PT(page) == page \div NPTEENTRY
PD(pt) == pt \div NPDEENTRY

Init ==
  \E cow \in Builds :
    vm = [left |-> NPages, free |-> Frames, ref |-> [f \in Frames |-> 0],
          data |-> [f \in Frames |-> 0], page |-> None, mm |-> [p \in Procs |-> NoMm],
          panic |-> FALSE, cow |-> cow]

Mapped(s, p) == {page \in Pages : s.mm[p].pte[page] # NoPTE}
Visible(s) ==
  UNION {{s.mm[p].pte[page].frame : page \in Mapped(s, p)} : p \in {q \in Procs : s.mm[q] # NoMm}}

(* A step to s.  What is in a page that nobody maps does not matter:       *)
(* before it is used again the kernel may have written anything there.  A  *)
(* kernel that stops leaves no state worth looking at.                     *)
Goto(s) ==
  vm' = IF s.panic THEN [vm EXCEPT !.panic = TRUE]
        ELSE [s EXCEPT !.page = None,
                       !.data = [f \in Frames |-> IF f \in Visible(s) THEN @[f] ELSE 0]]
-----------------------------------------------------------------------------
(* Physical pages.  When there is none for alloc_page, alloc_pages calls   *)
(* swap_out with check_mm_struct, which is NULL, and the kernel faults.    *)
take_page(s) ==
  IF s.left = 0 THEN [s EXCEPT !.panic = TRUE] ELSE [s EXCEPT !.left = @ - 1]

alloc_page(s) ==   \* a page to be mapped
  IF s.free = {} THEN [s EXCEPT !.panic = TRUE]
  ELSE [take_page(s) EXCEPT !.page = Min(s.free), !.free = @ \ {Min(s.free)}]

page_ref_dec(s, f) ==
  IF s.ref[f] = 1
  THEN [s EXCEPT !.left = @ + 1, !.free = @ \cup {f}, !.ref[f] = 0]
  ELSE [s EXCEPT !.ref[f] = @ - 1]

(* Page tables.                                                            *)
get_pte(s, p, page) ==
  LET pt == PT(page)
      pd == PD(pt)
      upper == IF s.mm[p].pd[pd] THEN s ELSE [take_page(s) EXCEPT !.mm[p].pd[pd] = TRUE]
  IN  IF upper.mm[p].pt[pt] THEN upper ELSE [take_page(upper) EXCEPT !.mm[p].pt[pt] = TRUE]

page_remove_pte(s, p, page) ==
  LET f == s.mm[p].pte[page].frame
  IN  [page_ref_dec(s, f) EXCEPT !.mm[p].pte[page] = NoPTE]

Bug_page_insert(s, p, page, f, perm) ==   \* the same page again counts twice
  LET t == get_pte(s, p, page)
      old == t.mm[p].pte[page].frame
      inc == [t EXCEPT !.ref[f] = @ + 1]
      dec == IF old \in {None, f} THEN inc ELSE page_remove_pte(inc, p, page)
  IN  IF t.panic THEN t ELSE [dec EXCEPT !.mm[p].pte[page] = PTE(f, perm)]

page_insert(s, p, page, f, perm) ==
  LET t == get_pte(s, p, page)
      old == t.mm[p].pte[page].frame
      inc == [t EXCEPT !.ref[f] = @ + 1]
      dec == CASE old = None -> inc
               [] old = f -> page_ref_dec(inc, f)
               [] OTHER -> page_remove_pte(inc, p, page)
  IN  IF t.panic THEN t ELSE [dec EXCEPT !.mm[p].pte[page] = PTE(f, perm)]

(* A new page with v in it.                                                *)
pgdir_alloc_page(s, p, page, perm, v) ==
  LET a == alloc_page(s)
  IN  IF a.panic THEN a
      ELSE [page_insert(a, p, page, a.page, perm) EXCEPT !.page = a.page, !.data[a.page] = v]

setup_pgdir(s, p) ==
  [take_page(s) EXCEPT !.mm[p] = [areas |-> <<>>,
                                  pd |-> [d \in PDs |-> FALSE], pt |-> [t \in PTs |-> FALSE],
                                  pte |-> [page \in Pages |-> NoPTE]]]

put_pgdir(s, p) == [s EXCEPT !.left = @ + 1, !.mm[p] = NoMm]
-----------------------------------------------------------------------------
(* The end of an address space.                                            *)
unmap_range(s, p, area) ==
  FoldSet(LAMBDA page, t : page_remove_pte(t, p, page), s, In(area) \cap Mapped(s, p))

(* A page table is freed when it is empty; the directory above it when all *)
(* tables that the area reaches were there.                                *)
free_tables(s, p, area, pd) ==
  LET pts == {pt \in PTs : PD(pt) = pd /\ pt \in PT(area.start)..PT(area.end - 1)}
      valid == {pt \in pts : s.mm[p].pt[pt]}
      empty == {pt \in valid : \A page \in Mapped(s, p) : PT(page) # pt}
      freed == [s EXCEPT !.left = @ + Cardinality(empty),
                         !.mm[p].pt = [pt \in PTs |-> @[pt] /\ pt \notin empty]]
  IN  IF valid = pts
      THEN [freed EXCEPT !.left = @ + 1, !.mm[p].pd[pd] = FALSE]
      ELSE freed

exit_range(s, p, area) ==
  FoldSet(LAMBDA pd, t : IF t.mm[p].pd[pd] THEN free_tables(t, p, area, pd) ELSE t,
          s, PD(PT(area.start))..PD(PT(area.end - 1)))

exit_mmap(s, p) ==
  LET areas == s.mm[p].areas
      unmapped == FoldLeft(LAMBDA t, area : unmap_range(t, p, area), s, areas)
  IN  FoldLeft(LAMBDA t, area : exit_range(t, p, area), unmapped, areas)

free_mm(s, p) == IF s.mm[p] = NoMm THEN s ELSE put_pgdir(exit_mmap(s, p), p)

do_exit(p) ==
  /\ vm.mm[p] # NoMm
  /\ Goto(free_mm(vm, p))

(* exec.  The areas of a program come in ascending order.                  *)
mm_map(s, p, area) == [s EXCEPT !.mm[p].areas = Append(@, area)]

MapRefused(areas, area) ==   \* find_vma(start)
  \E k \in DOMAIN areas : area.start \in In(areas[k])

fill(s, p, pages, perm, v) ==
  FoldSet(LAMBDA page, t : pgdir_alloc_page(t, p, page, perm, v), s, pages)

load_segment(s, p, seg) ==
  fill(mm_map(s, p, seg), p, In(seg), IF seg.write THEN "rw" ELSE "r", 0)

load_stack(s, p, v) ==
  fill(mm_map(s, p, StackArea), p,
       (StackArea.end - StackPages)..(StackArea.end - 1), "rw", v)

(* load_icode finds fault with the program at any header, or loads it.     *)
do_execve(p, prog) ==
  LET Loaded(k) == FoldLeft(LAMBDA t, seg : load_segment(t, p, seg),
                            setup_pgdir(free_mm(vm, p), p), SubSeq(prog, 1, k))
      Accepted(k) == \A j \in 1..k : ~MapRefused(SubSeq(prog, 1, j - 1), prog[j])
  IN  \/ \E k \in 0..Len(prog) :
           /\ Accepted(k)
           /\ LET t == Loaded(k) IN Goto(IF t.panic THEN t ELSE free_mm(t, p))
      \/ /\ Accepted(Len(prog)) /\ ~MapRefused(prog, StackArea)
         /\ LET t == Loaded(Len(prog)) IN \E v \in Values : Goto(load_stack(t, p, v))
-----------------------------------------------------------------------------
(* fork.                                                                   *)
ReadOnly(perm) == IF perm = "rw" THEN "r" ELSE perm   \* perm & ~PTE_W

(* copy_range with share: npage is allocated and never used.               *)
copy_page(s, from, to, page) ==
  LET pte == s.mm[from].pte[page]
      npage == take_page(get_pte(s, to, page))
      again == page_insert(npage, from, page, pte.frame, ReadOnly(pte.perm))
  IN  IF npage.panic THEN npage
      ELSE page_insert(again, to, page, pte.frame, ReadOnly(pte.perm))

cow_copy_page(s, from, to, page) ==
  LET pte == s.mm[from].pte[page]
      t == [s EXCEPT !.mm[from].pte[page].perm = ReadOnly(pte.perm)]
  IN  page_insert(t, to, page, pte.frame, ReadOnly(pte.perm))

dup_mmap(s, from, to) ==
  LET copy(t, page) ==
        IF t.panic THEN t
        ELSE IF t.cow THEN cow_copy_page(t, from, to, page) ELSE copy_page(t, from, to, page)
  IN  FoldSet(LAMBDA page, t : copy(t, page),
              [s EXCEPT !.mm[to].areas = s.mm[from].areas], Mapped(s, from))

do_fork(p, child) ==
  /\ vm.mm[p] # NoMm /\ vm.mm[child] = NoMm
  /\ LET s == setup_pgdir(vm, child)
     IN  Goto(IF s.panic THEN s ELSE dup_mmap(s, p, child))

(* Page faults.  The fault is that of a load of a page without PTE_R, or   *)
(* of a store to one without PTE_W; do_pgfault does not tell them apart.   *)
Bug_cow_pgfault(s, p, page) ==   \* forgets the memcpy
  LET a == alloc_page(s)
  IN  IF a.panic THEN a
      ELSE page_insert([a EXCEPT !.mm[p].pte[page] = NoPTE], p, page, a.page, "rw")

cow_pgfault(s, p, page) ==
  LET old == s.mm[p].pte[page].frame
      a == alloc_page(s)
      copied == [a EXCEPT !.data[a.page] = s.data[old], !.mm[p].pte[page] = NoPTE]
  IN  IF a.panic THEN a ELSE page_insert(copied, p, page, a.page, "rw")

do_pgfault(p, page) ==
  LET pte == vm.mm[p].pte[page]
      area == {a \in Range(vm.mm[p].areas) : page \in In(a)}
      perm == IF \E a \in area : a.write THEN "rw" ELSE "none"
      New(v) == pgdir_alloc_page(vm, p, page, perm, v)
  IN  /\ vm.mm[p] # NoMm
      /\ pte.perm # "rw"
      /\ \/ area = {} /\ Goto([vm EXCEPT !.panic = TRUE])
         \/ area # {} /\ pte = NoPTE /\ \E v \in Values : Goto(New(v))
         \/ area # {} /\ pte # NoPTE
            /\ Goto(IF vm.cow THEN cow_pgfault(vm, p, page)
                    ELSE New(vm.data[pte.frame]))

(* A store by the process, or by the kernel for it, that does not fault.   *)
Store(p, page, v) ==
  /\ vm.mm[p] # NoMm
  /\ LET pte == vm.mm[p].pte[page]
     IN  /\ pte.perm = "rw"
         /\ vm' = [vm EXCEPT !.data[pte.frame] = v]

Next ==
  /\ ~vm.panic
  /\ \A f \in Frames : vm.ref[f] <= MaxRef
  /\ \E p \in Procs :
       \/ \E prog \in Programs : do_execve(p, prog)
       \/ \E child \in Procs : do_fork(p, child)
       \/ \E page \in Pages :
            \/ do_pgfault(p, page)
            \/ \E v \in Values : Store(p, page, v)
       \/ do_exit(p)

Spec == Init /\ [][Next]_vars
-----------------------------------------------------------------------------
Users == {p \in Procs : vm.mm[p] # NoMm}
Mappings(f) == {x \in Users \X Pages : vm.mm[x[1]].pte[x[2]].frame = f}

InUse ==   \* pages that are mapped or page tables
  Cardinality({f \in Frames : Mappings(f) # {}})
  + Cardinality({x \in Users \X PTs : vm.mm[x[1]].pt[x[2]]})
  + Cardinality({x \in Users \X PDs : vm.mm[x[1]].pd[x[2]]})
  + Cardinality(Users)

(* page_ref counts the entries that name a page, and a page is free when   *)
(* none does, over any sequence of exec, fork, copy on write, exit and     *)
(* failures of exec; a page that a process may write is mapped nowhere     *)
(* else; nothing is freed twice.  cow_pgfault does not give up the page    *)
(* that it has copied (RefsExact), so with it page_ref is a bound only.    *)
RefsExact == \A f \in Frames : vm.ref[f] = Cardinality(Mappings(f))

RefsRight ==
  /\ vm.cow \/ RefsExact
  /\ \A f \in Frames : vm.ref[f] >= Cardinality(Mappings(f))
  /\ vm.free = {f \in Frames : vm.ref[f] = 0}
  /\ \A p \in Users, page \in Pages :
       LET pte == vm.mm[p].pte[page]
       IN  pte.perm = "rw" => Mappings(pte.frame) = {<<p, page>>}
  /\ vm.left + InUse <= NPages

(* Each process has a memory of its own: sharing pages, copying them on    *)
(* write and recycling them never shows.  fork copies it, a store changes  *)
(* one page of one process, and a page fault changes none that has been    *)
(* used: whoever faults finds in the new page what was in the old one.     *)
Undef == -1
Covered(areas) == UNION {In(areas[k]) : k \in DOMAIN areas}
Images ==
  UNION {[Covered(Append(prog, StackArea)) -> Values \cup {Undef}] : prog \in Programs}

mem ==
  [p \in Procs |->
     IF vm.mm[p] = NoMm THEN <<>>
     ELSE [page \in Covered(vm.mm[p].areas) |->
             LET pte == vm.mm[p].pte[page]
             IN  IF pte = NoPTE THEN Undef ELSE vm.data[pte.frame]]]

Abstract == INSTANCE Memory

Exec(p, prog) ==
  \/ /\ mem'[p] \in [Covered(Append(prog, StackArea)) -> Values \cup {Undef}]
     /\ Abstract!Exec(p, mem'[p])
  \/ Abstract!Exit(p)   \* the program is refused

Kept ==   \* what a step does to the memories is what its operation may do
  IF vm'.panic THEN UNCHANGED mem
  ELSE \A p \in Procs :
         /\ \A prog \in Programs : do_execve(p, prog) => Exec(p, prog)
         /\ \A child \in Procs : do_fork(p, child) => Abstract!Fork(p, child)
         /\ \A page \in Pages :
              /\ do_pgfault(p, page) => Abstract!Fault(p, page)
              /\ \A v \in Values : Store(p, page, v) => Abstract!Write(p, page, v)
         /\ do_exit(p) => Abstract!Exit(p)

MemorySpec == Abstract!Spec /\ [][Kept]_vars

(* Every page is free or in use: "init check memory pass."                 *)
NoPageLost == vm.left + InUse = NPages

(* A page in an area can be read: do_pgfault goes on only with a write     *)
(* whose address is writable.                                              *)
PagesReadable ==
  \A p \in Users, page \in Pages :
    vm.mm[p].pte[page] # NoPTE => vm.mm[p].pte[page].perm # "none"
================================================================================
