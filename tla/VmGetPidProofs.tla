--------------------------- MODULE VmGetPidProofs ---------------------------
(***************************************************************************)
(* What each process of lab5 has for itself: its memory, and its pid.      *)
(*                                                                         *)
(* The address spaces of lab5 for every finite set of processes, every set *)
(* of programs and every size of memory and of page tables: the reference  *)
(* counts of the pages are right, and Vm implements Memory.                *)
(*                                                                         *)
(* The functions of Vm turn one memory into the next.  For each of them a  *)
(* lemma says what it leaves of the books (Good: who maps which page, and  *)
(* how many pages are left) and of the images of the processes.  Where it  *)
(* goes over a set of pages or a sequence of areas there is an induction   *)
(* over what it has been through already (UpTo, Shrinking).                *)
(***************************************************************************)
EXTENDS Vm, GetPid, WellFoundedInduction, FiniteSetTheorems, SequenceTheorems, TLAPS

(* What the fields of a state may be. *)
Perms == {"none", "r", "rw"}
Entry == [frame : Frames \cup {None}, perm : Perms]
Areas == {StackArea} \cup UNION {Range(prog) : prog \in Programs}
FullMm == [areas : Seq(Areas), pd : [PDs -> BOOLEAN], pt : [PTs -> BOOLEAN],
           pte : [Pages -> Entry]]
States == [left : Int, free : SUBSET (Frames \cup {None}), ref : [Frames -> Int],
           data : [Frames -> Values], page : Frames \cup {None},
           mm : [Procs -> FullMm \cup {NoMm}], panic : BOOLEAN, cow : BOOLEAN]

(* The states in which p has an address space. *)
With(p) == {s \in States : s.mm[p] \in FullMm}
-----------------------------------------------------------------------------
(* Induction up to n. *)
LEMMA UpTo ==
  ASSUME NEW n \in Nat, NEW T, 0 \in T, \A k \in 1..n : k - 1 \in T => k \in T
  PROVE  \A k \in 0..n : k \in T
  <1> DEFINE D == {k \in 0..n : k \notin T}
  <1>1. SUFFICES ASSUME D # {} PROVE FALSE
    OBVIOUS
  <1>2. D \subseteq Nat
    OBVIOUS
  <1>3. PICK k \in D : \A j \in D : ~(<<j, k>> \in OpToRel(<, Nat))
    BY <1>1, <1>2, NatLessThanWellFounded, WFMin
  <1>4. k \in 1..n /\ k - 1 \in 0..n /\ k - 1 < k /\ k \notin T
    OBVIOUS
  <1>5. k - 1 \in D
    BY <1>4
  <1>6. <<k - 1, k>> \in OpToRel(<, Nat)
    BY <1>2, <1>4, <1>5, SMT DEF OpToRel
  <1> QED
    BY <1>3, <1>5, <1>6

(* Induction over the subsets of a finite set, from which c takes one      *)
(* element after another.                                                  *)
Chooses(c, D) == \A u \in SUBSET D : u # {} => c[u] \in u
Grows(T, c, D) == \A u \in SUBSET D : u # {} /\ u \ {c[u]} \in T => u \in T

LEMMA Shrinking ==
  ASSUME NEW D, IsFiniteSet(D), NEW c, Chooses(c, D), NEW T, {} \in T, Grows(T, c, D)
  PROVE  \A u \in SUBSET D : u \in T
  <1> USE DEF Chooses, Grows
  <1> DEFINE K == {k \in 0..Cardinality(D) : \A u \in SUBSET D : Cardinality(u) = k => u \in T}
  <1>1. /\ Cardinality(D) \in Nat
        /\ \A u \in SUBSET D : IsFiniteSet(u) /\ Cardinality(u) \in 0..Cardinality(D)
    BY FS_Subset, FS_CardinalityType
  <1>2. 0 \in K
    BY <1>1, FS_EmptySet
  <1>3. ASSUME NEW k \in 1..Cardinality(D), k - 1 \in K PROVE k \in K
    <2>1. k \in 0..Cardinality(D)
      BY <1>1
    <2>2. ASSUME NEW u \in SUBSET D, Cardinality(u) = k PROVE u \in T
      <3>1. u # {} /\ IsFiniteSet(u)
        BY <1>1, <2>2, FS_EmptySet
      <3>2. c[u] \in u /\ u \ {c[u]} \in SUBSET D
        BY <3>1
      <3>3. Cardinality(u \ {c[u]}) = k - 1
        BY <2>2, <3>1, <3>2, FS_RemoveElement
      <3> QED
        BY <1>3, <3>1, <3>2, <3>3
    <2> QED
      BY <2>1, <2>2
  <1> HIDE DEF K
  <1>4. \A k \in 0..Cardinality(D) : k \in K
    BY <1>1, <1>2, <1>3, UpTo
  <1> QED
    BY <1>1, <1>4 DEF K

(* A fold over D that starts at base and applies F, which keeps G.         *)
Folds(it, D, c, F, base) ==
  it = [u \in SUBSET D |-> IF u = {} THEN base ELSE F[c[u]][it[u \ {c[u]}]]]

LEMMA FoldExists ==
  ASSUME NEW D, IsFiniteSet(D), NEW c, Chooses(c, D),
         NEW G, NEW F \in [D -> [G -> G]], NEW base \in G
  PROVE  \E it \in [SUBSET D -> G] : Folds(it, D, c, F, base)
  <1> USE DEF Chooses
  <1> DEFINE Upto(k) == {u \in SUBSET D : Cardinality(u) <= k}
             Part(it, k) ==
               /\ it \in [Upto(k) -> G]
               /\ \A u \in Upto(k) : it[u] = IF u = {} THEN base ELSE F[c[u]][it[u \ {c[u]}]]
             K == {k \in 0..Cardinality(D) : \E it : Part(it, k)}
  <1>1. /\ Cardinality(D) \in Nat
        /\ \A u \in SUBSET D : IsFiniteSet(u) /\ Cardinality(u) \in Nat
                               /\ Cardinality(u) <= Cardinality(D)
    BY FS_Subset, FS_CardinalityType
  <1>2. \A u \in SUBSET D : u # {} =>
          /\ c[u] \in D /\ u \ {c[u]} \in SUBSET D
          /\ Cardinality(u \ {c[u]}) = Cardinality(u) - 1
    <2> SUFFICES ASSUME NEW u \in SUBSET D, u # {}
                 PROVE  /\ c[u] \in D /\ u \ {c[u]} \in SUBSET D
                        /\ Cardinality(u \ {c[u]}) = Cardinality(u) - 1
      OBVIOUS
    <2>1. c[u] \in u
      OBVIOUS
    <2> QED
      BY <1>1, <2>1, FS_RemoveElement
  <1>3. 0 \in K
    <2>1. PICK it : it = [u \in Upto(0) |-> base]
      OBVIOUS
    <2>2. \A u \in Upto(0) : u = {}
      BY <1>1, FS_EmptySet
    <2>3. Part(it, 0)
      BY <2>1, <2>2
    <2>4. 0 \in 0..Cardinality(D) /\ \E g : Part(g, 0)
      <3> HIDE DEF Part
      <3> QED
        BY <1>1, <2>3
    <2> QED
      BY <2>4
  <1>4. ASSUME NEW k \in 1..Cardinality(D), k - 1 \in K PROVE k \in K
    <2>1. PICK g : Part(g, k - 1)
      BY <1>4
    <2>2. PICK it : it = [u \in Upto(k) |->
                            IF u = {} THEN base ELSE F[c[u]][g[u \ {c[u]}]]]
      OBVIOUS
    <2>3. \A u \in Upto(k) : u # {} => u \ {c[u]} \in Upto(k - 1) /\ u \ {c[u]} \in Upto(k)
      BY <1>1, <1>2
    <2>4. \A u \in Upto(k - 1) : u \in Upto(k) /\ it[u] = g[u]
      <3>1. \A u \in Upto(k - 1) : u \in Upto(k)
        BY <1>1
      <3>2. \A u \in Upto(k - 1) : g[u] = IF u = {} THEN base ELSE F[c[u]][g[u \ {c[u]}]]
        BY <2>1
      <3> HIDE DEF Upto
      <3> QED
        BY <2>2, <3>1, <3>2
    <2>5. it \in [Upto(k) -> G]
      BY <1>2, <2>1, <2>2, <2>3, SMTT(30)
    <2>6. Part(it, k)
      BY <2>2, <2>3, <2>4, <2>5
    <2> QED
      <3> HIDE DEF Part
      <3> QED
        BY <1>1, <2>6
  <1> HIDE DEF K
  <1>5. Cardinality(D) \in K
    BY <1>1, <1>3, <1>4, UpTo
  <1>6. PICK it : Part(it, Cardinality(D))
    BY <1>5 DEF K
  <1>7. Upto(Cardinality(D)) = SUBSET D
    BY <1>1
  <1>8. it \in [SUBSET D -> G]
    BY <1>6, <1>7
  <1>9. \A u \in SUBSET D : it[u] = IF u = {} THEN base ELSE F[c[u]][it[u \ {c[u]}]]
    BY <1>6, <1>7
  <1> HIDE DEF Upto
  <1>10. Folds(it, D, c, F, base)
    BY <1>8, <1>9 DEF Folds
  <1> QED
    BY <1>8, <1>10

(* The least member of a set of numbers.                                   *)
LEMMA MinIn ==
  ASSUME NEW S \in SUBSET Nat, S # {}
  PROVE  Min(S) \in S /\ \A j \in S : Min(S) =< j
  <1>1. PICK k \in S : \A j \in S : ~(<<j, k>> \in OpToRel(<, Nat))
    BY NatLessThanWellFounded, WFMin
  <1>2. \A j \in S : k =< j
    <2> SUFFICES ASSUME NEW j \in S, ~(k =< j) PROVE FALSE
      OBVIOUS
    <2>1. j < k
      OBVIOUS
    <2>2. <<j, k>> \in OpToRel(<, Nat)
      BY <2>1, SMT DEF OpToRel
    <2> QED
      BY <1>1, <2>2
  <1> QED
    BY <1>1, <1>2 DEF Min
-----------------------------------------------------------------------------
(* The types of what the functions return.                                 *)
LEMMA MmTypes ==
  /\ NoMm \notin FullMm
  /\ \A p : With(p) \subseteq States
  /\ \A s \in States, p \in Procs : s.mm[p] # NoMm => s \in With(p)
  <1>1. NoMm \notin FullMm
    <2>1. SUFFICES ASSUME NoMm \in FullMm PROVE FALSE
      OBVIOUS
    <2>2. DOMAIN NoMm = {"areas", "pd", "pt", "pte"}
      BY <2>1 DEF FullMm
    <2>3. DOMAIN NoMm = {"areas"}
      BY DEF NoMm
    <2> QED
      BY <2>2, <2>3
  <1> QED
    BY <1>1 DEF With, States

LEMMA TakeType ==
  ASSUME NEW s \in States
  PROVE  /\ take_page(s) \in States
         /\ take_page(s).mm = s.mm /\ take_page(s).ref = s.ref /\ take_page(s).free = s.free
         /\ take_page(s).cow = s.cow /\ take_page(s).data = s.data
         /\ take_page(s).page = s.page
         /\ s.panic => take_page(s).panic
         /\ ~take_page(s).panic => take_page(s).left = s.left - 1
  <1>1. CASE s.left = 0
    <2>1. take_page(s) = [s EXCEPT !.panic = TRUE]
      BY <1>1 DEF take_page
    <2> QED
      BY <2>1 DEF States
  <1>2. CASE s.left # 0
    <2>1. take_page(s) = [s EXCEPT !.left = @ - 1]
      BY <1>2 DEF take_page
    <2> QED
      BY <2>1 DEF States
  <1> QED
    BY <1>1, <1>2

LEMMA AllocType ==
  ASSUME NEW s \in States
  PROVE  /\ alloc_page(s) \in States /\ alloc_page(s).mm = s.mm /\ alloc_page(s).cow = s.cow
         /\ alloc_page(s).ref = s.ref /\ alloc_page(s).data = s.data
         /\ s.panic => alloc_page(s).panic
         /\ ~alloc_page(s).panic =>
              /\ alloc_page(s).page \in s.free
              /\ alloc_page(s).free = s.free \ {alloc_page(s).page}
              /\ alloc_page(s).left = s.left - 1
  <1>1. PICK t : t = take_page(s)
    OBVIOUS
  <1>2. /\ t \in States /\ t.mm = s.mm /\ t.ref = s.ref /\ t.free = s.free
        /\ t.cow = s.cow /\ t.data = s.data
        /\ (s.panic => t.panic) /\ (~t.panic => t.left = s.left - 1)
    BY <1>1, TakeType
  <1>3. CASE s.free = {}
    <2>1. alloc_page(s) = [s EXCEPT !.panic = TRUE]
      BY <1>3 DEF alloc_page
    <2> QED
      BY <2>1 DEF States
  <1>4. CASE s.free # {}
    <2>1. PICK f : f = Min(s.free)
      OBVIOUS
    <2>2. f \in s.free
      <3>1. s.free \in SUBSET Nat
        BY DEF States, Frames, None
      <3> QED
        BY <1>4, <2>1, <3>1, MinIn
    <2>3. alloc_page(s) = [t EXCEPT !.page = f, !.free = @ \ {f}]
      BY <1>1, <1>4, <2>1 DEF alloc_page
    <2>4. f \in Frames \cup {None}
      BY <2>2 DEF States
    <2> QED
      BY <1>2, <2>2, <2>3, <2>4 DEF States
  <1> QED
    BY <1>3, <1>4

(* A change at one place, which may be none. *)
LEMMA PutType ==
  ASSUME NEW D, NEW V, NEW r \in [D -> V], NEW f, NEW v
  PROVE  /\ v \in V => [r EXCEPT ![f] = v] \in [D -> V]
         /\ f \notin D => [r EXCEPT ![f] = v] = r
         /\ DOMAIN [r EXCEPT ![f] = v] = D
         /\ f \in D => [r EXCEPT ![f] = v][f] = v
         /\ \A x \in D : x # f => [r EXCEPT ![f] = v][x] = r[x]
  OBVIOUS

LEMMA DecType ==
  ASSUME NEW s \in States, NEW f \in Frames \cup {None}
  PROVE  /\ page_ref_dec(s, f) \in States
         /\ page_ref_dec(s, f).mm = s.mm /\ page_ref_dec(s, f).cow = s.cow
         /\ page_ref_dec(s, f).panic = s.panic /\ page_ref_dec(s, f).data = s.data
         /\ page_ref_dec(s, f).page = s.page
  <1>1. PICK r : r = s.ref
    OBVIOUS
  <1>2. r \in [Frames -> Int] /\ s.free \in SUBSET (Frames \cup {None}) /\ s.left \in Int
    BY <1>1 DEF States
  <1>3. CASE r[f] = 1
    <2>1. PICK q : q = [r EXCEPT ![f] = 0]
      OBVIOUS
    <2>2. q \in [Frames -> Int]
      <3>1. 0 \in Int
        OBVIOUS
      <3> QED
        BY <1>2, <2>1, <3>1, PutType
    <2>3. page_ref_dec(s, f) = [s EXCEPT !.left = @ + 1, !.free = @ \cup {f}, !.ref = q]
      BY <1>1, <1>3, <2>1 DEF page_ref_dec
    <2>4. PICK l, u : l = s.left + 1 /\ u = s.free \cup {f}
      OBVIOUS
    <2>5. l \in Int /\ u \in SUBSET (Frames \cup {None})
      BY <1>2, <2>4
    <2>6. page_ref_dec(s, f) = [s EXCEPT !.left = l, !.free = u, !.ref = q]
      BY <2>3, <2>4
    <2> QED
      BY <2>2, <2>5, <2>6 DEF States
  <1>4. CASE r[f] # 1
    <2>1. PICK q : q = [r EXCEPT ![f] = @ - 1]
      OBVIOUS
    <2>2. q \in [Frames -> Int]
      <3>1. f \in Frames => r[f] - 1 \in Int
        BY <1>2
      <3> QED
        BY <1>2, <2>1, <3>1, PutType
    <2>3. page_ref_dec(s, f) = [s EXCEPT !.ref = q]
      BY <1>1, <1>4, <2>1 DEF page_ref_dec
    <2> QED
      BY <2>2, <2>3 DEF States
  <1> QED
    BY <1>3, <1>4
-----------------------------------------------------------------------------
(* An address space in another state: what a change of one is.             *)
SetMm(s, p, m) == [s EXCEPT !.mm[p] = m]

LEMMA SetMmType ==
  ASSUME NEW s \in States, NEW p \in Procs, NEW m \in FullMm \cup {NoMm}
  PROVE  /\ SetMm(s, p, m) \in States /\ SetMm(s, p, m).mm[p] = m
         /\ \A q \in Procs \ {p} : SetMm(s, p, m).mm[q] = s.mm[q]
         /\ SetMm(s, p, m).left = s.left /\ SetMm(s, p, m).free = s.free
         /\ SetMm(s, p, m).ref = s.ref /\ SetMm(s, p, m).data = s.data
         /\ SetMm(s, p, m).page = s.page /\ SetMm(s, p, m).panic = s.panic
         /\ SetMm(s, p, m).cow = s.cow
  <1>1. PICK r : r = s.mm
    OBVIOUS
  <1>2. r \in [Procs -> FullMm \cup {NoMm}]
    BY <1>1 DEF States
  <1>3. PICK q : q = [r EXCEPT ![p] = m]
    OBVIOUS
  <1>4. q \in [Procs -> FullMm \cup {NoMm}] /\ q[p] = m /\ \A x \in Procs \ {p} : q[x] = r[x]
    BY <1>2, <1>3, PutType
  <1>5. SetMm(s, p, m) = [s EXCEPT !.mm = q]
    BY <1>1, <1>3 DEF SetMm
  <1> QED
    BY <1>1, <1>4, <1>5 DEF States

(* A change of one entry of an address space.                               *)
PutAt(r, k, v) == [r EXCEPT ![k] = v]
PutPte(m, k, v) == [m EXCEPT !.pte[k] = v]
PutPd(m, k, v) == [m EXCEPT !.pd[k] = v]
PutPt(m, k, v) == [m EXCEPT !.pt[k] = v]

LEMMA MmSetPte ==
  ASSUME NEW m \in FullMm, NEW k, NEW v \in Entry, NEW w, w = PutPte(m, k, v)
  PROVE  /\ w \in FullMm /\ w.pte = PutAt(m.pte, k, v)
         /\ w.areas = m.areas /\ w.pd = m.pd /\ w.pt = m.pt
  <1>1. PICK a, d, t, e : a = m.areas /\ d = m.pd /\ t = m.pt /\ e = m.pte
    OBVIOUS
  <1>2. /\ a \in Seq(Areas) /\ d \in [PDs -> BOOLEAN] /\ t \in [PTs -> BOOLEAN]
        /\ e \in [Pages -> Entry] /\ m = [areas |-> a, pd |-> d, pt |-> t, pte |-> e]
    BY <1>1 DEF FullMm
  <1>3. PICK y : y = PutAt(e, k, v)
    OBVIOUS
  <1>4. y \in [Pages -> Entry]
    BY <1>2, <1>3, PutType DEF PutAt
  <1>5. w = [m EXCEPT !.pte = y]
    BY <1>1, <1>3, Zenon DEF PutPte, PutAt
  <1>6. w = [areas |-> a, pd |-> d, pt |-> t, pte |-> y]
    BY <1>1, <1>2, <1>5
  <1> QED
    BY <1>1, <1>2, <1>3, <1>4, <1>6 DEF FullMm

(* The same for a table that a directory names.                            *)
LEMMA MmSetPd ==
  ASSUME NEW m \in FullMm, NEW k, NEW v \in BOOLEAN, NEW w, w = PutPd(m, k, v)
  PROVE  /\ w \in FullMm /\ w.pd = PutAt(m.pd, k, v)
         /\ w.areas = m.areas /\ w.pt = m.pt /\ w.pte = m.pte
  <1>1. PICK a, d, t, e : a = m.areas /\ d = m.pd /\ t = m.pt /\ e = m.pte
    OBVIOUS
  <1>2. /\ a \in Seq(Areas) /\ d \in [PDs -> BOOLEAN] /\ t \in [PTs -> BOOLEAN]
        /\ e \in [Pages -> Entry] /\ m = [areas |-> a, pd |-> d, pt |-> t, pte |-> e]
    BY <1>1 DEF FullMm
  <1>3. PICK y : y = PutAt(d, k, v)
    OBVIOUS
  <1>4. y \in [PDs -> BOOLEAN]
    BY <1>2, <1>3, PutType DEF PutAt
  <1>5. w = [m EXCEPT !.pd = y]
    BY <1>1, <1>3, Zenon DEF PutPd, PutAt
  <1>6. w = [areas |-> a, pd |-> y, pt |-> t, pte |-> e]
    BY <1>1, <1>2, <1>5
  <1> QED
    BY <1>1, <1>2, <1>3, <1>4, <1>6 DEF FullMm

(* The same for a page table.                                              *)
LEMMA MmSetPt ==
  ASSUME NEW m \in FullMm, NEW k, NEW v \in BOOLEAN, NEW w, w = PutPt(m, k, v)
  PROVE  /\ w \in FullMm /\ w.pt = PutAt(m.pt, k, v)
         /\ w.areas = m.areas /\ w.pd = m.pd /\ w.pte = m.pte
  <1>1. PICK a, d, t, e : a = m.areas /\ d = m.pd /\ t = m.pt /\ e = m.pte
    OBVIOUS
  <1>2. /\ a \in Seq(Areas) /\ d \in [PDs -> BOOLEAN] /\ t \in [PTs -> BOOLEAN]
        /\ e \in [Pages -> Entry] /\ m = [areas |-> a, pd |-> d, pt |-> t, pte |-> e]
    BY <1>1 DEF FullMm
  <1>3. PICK y : y = PutAt(t, k, v)
    OBVIOUS
  <1>4. y \in [PTs -> BOOLEAN]
    BY <1>2, <1>3, PutType DEF PutAt
  <1>5. w = [m EXCEPT !.pt = y]
    BY <1>1, <1>3, Zenon DEF PutPt, PutAt
  <1>6. w = [areas |-> a, pd |-> d, pt |-> y, pte |-> e]
    BY <1>1, <1>2, <1>5
  <1> QED
    BY <1>1, <1>2, <1>3, <1>4, <1>6 DEF FullMm

(* What an entry is.                                                       *)
LEMMA EntryTypes ==
  /\ NoPTE \in Entry /\ NoPTE.frame = None
  /\ \A f \in Frames, perm \in Perms : PTE(f, perm) \in Entry /\ PTE(f, perm).frame = f
                                       /\ PTE(f, perm).perm = perm
  /\ None \notin Frames
  BY VmAssumption DEF NoPTE, PTE, Entry, Perms, None, Frames
-----------------------------------------------------------------------------
(* What the functions leave alone: t has come from s by work on the        *)
(* address space of p.                                                     *)
Only(p, s, t) ==
  /\ t \in With(p) /\ t.cow = s.cow /\ (s.panic => t.panic)
  /\ \A q \in Procs \ {p} : t.mm[q] = s.mm[q]
SameTables(p, s, t) == t.mm[p].pd = s.mm[p].pd /\ t.mm[p].pt = s.mm[p].pt
SameAreas(p, s, t) == t.mm[p].areas = s.mm[p].areas
SamePages(s, t) == t.free = s.free /\ t.ref = s.ref /\ t.data = s.data /\ t.page = s.page

LEMMA OnlyTwice ==
  ASSUME NEW p \in Procs, NEW s, NEW t, NEW u, Only(p, s, t), Only(p, t, u)
  PROVE  Only(p, s, u)
  BY DEF Only

LEMMA SetMmOnly ==
  ASSUME NEW p \in Procs, NEW s \in With(p), NEW m \in FullMm
  PROVE  Only(p, s, SetMm(s, p, m))
  BY SetMmType, MmTypes DEF Only, With

LEMMA TakeOnly ==
  ASSUME NEW p \in Procs, NEW s \in With(p)
  PROVE  Only(p, s, take_page(s)) /\ take_page(s).mm = s.mm /\ SamePages(s, take_page(s))
  BY TakeType, MmTypes DEF Only, With, SamePages

(* The sizes of things: every page has a table and every table a directory. *)
LEMMA Quotient ==
  ASSUME NEW a \in Nat \ {0}, NEW b \in Nat \ {0}, NEW n \in 0..(a * b - 1)
  PROVE  n \div b \in 0..(a - 1)
  <1>1. PICK q : q = n \div b
    OBVIOUS
  <1>2. q \in Int /\ n = b * q + (n % b) /\ n % b \in 0..(b - 1)
    BY <1>1
  <1>3. q >= 0
    <2>1. SUFFICES ASSUME q <= -1 PROVE FALSE
      BY <1>2
    <2>2. b * q <= -b
      BY <1>2, <2>1
    <2> QED
      BY <1>2, <2>2
  <1>4. q <= a - 1
    <2>1. SUFFICES ASSUME q >= a PROVE FALSE
      BY <1>2
    <2>2. b * q >= a * b
      BY <1>2, <2>1
    <2> QED
      BY <1>2, <2>2
  <1> QED
    BY <1>1, <1>2, <1>3, <1>4

Cells == Procs \X Pages

(* Everything that is counted is finite.                                   *)
LEMMA Sizes ==
  /\ Pages \subseteq Nat /\ IsFiniteSet(Pages) /\ IsFiniteSet(PTs) /\ IsFiniteSet(PDs)
  /\ IsFiniteSet(Frames) /\ Cardinality(Frames) = NFrames
  /\ IsFiniteSet(Cells) /\ IsFiniteSet(Procs \X PTs) /\ IsFiniteSet(Procs \X PDs)
  /\ \A page \in Pages : PT(page) \in PTs
  /\ \A pt \in PTs : PD(pt) \in PDs
  <1>1. /\ NPD \in Nat \ {0} /\ NPDEENTRY \in Nat \ {0} /\ NPTEENTRY \in Nat \ {0}
        /\ NFrames \in Nat \ {0} /\ IsFiniteSet(Procs)
    BY VmAssumption
  <1>2. PICK n : n = NPD * NPDEENTRY
    OBVIOUS
  <1>3. n \in Nat \ {0} /\ PTs = 0..(n - 1) /\ Pages = 0..(n * NPTEENTRY - 1)
    BY <1>1, <1>2 DEF PTs, Pages
  <1>4. n * NPTEENTRY - 1 \in Int
    BY <1>1, <1>3
  <1>5. /\ IsFiniteSet(Pages) /\ IsFiniteSet(PTs) /\ IsFiniteSet(PDs)
        /\ IsFiniteSet(Frames) /\ Cardinality(Frames) = NFrames
    BY <1>1, <1>3, <1>4, FS_Interval, SMTT(30) DEF PDs, Frames
  <1>6. \A page \in Pages : PT(page) \in PTs
    BY <1>1, <1>3, Quotient DEF PT
  <1>7. \A pt \in PTs : PD(pt) \in PDs
    BY <1>1, <1>2, <1>3, Quotient DEF PD, PDs
  <1>8. IsFiniteSet(Procs \X Pages) /\ IsFiniteSet(Procs \X PTs) /\ IsFiniteSet(Procs \X PDs)
    BY <1>1, <1>5, FS_Product
  <1>9. Pages \subseteq Nat
    BY <1>3, <1>4
  <1> QED
    BY <1>5, <1>6, <1>7, <1>8, <1>9 DEF Cells

(* What is in the tables of all processes, and the pages that it takes to  *)
(* hold them.                                                              *)
EntryOf(s) == [x \in Cells |-> IF s.mm[x[1]] = NoMm THEN NoPTE ELSE s.mm[x[1]].pte[x[2]]]
PtsOf(s) == {x \in Procs \X PTs : s.mm[x[1]] # NoMm /\ s.mm[x[1]].pt[x[2]]}
PdsOf(s) == {x \in Procs \X PDs : s.mm[x[1]] # NoMm /\ s.mm[x[1]].pd[x[2]]}
UsersOf(s) == {p \in Procs : s.mm[p] # NoMm}
Spent(s) == Cardinality(PtsOf(s)) + Cardinality(PdsOf(s)) + Cardinality(UsersOf(s))

(* They are finite.                                                        *)
LEMMA SpentSets ==
  ASSUME NEW s
  PROVE  /\ IsFiniteSet(PtsOf(s)) /\ IsFiniteSet(PdsOf(s)) /\ IsFiniteSet(UsersOf(s))
         /\ Cardinality(PtsOf(s)) \in Nat /\ Cardinality(PdsOf(s)) \in Nat
         /\ Cardinality(UsersOf(s)) \in Nat /\ Spent(s) \in Nat
  <1>1. /\ PtsOf(s) \in SUBSET (Procs \X PTs) /\ PdsOf(s) \in SUBSET (Procs \X PDs)
        /\ UsersOf(s) \in SUBSET Procs
    BY DEF PtsOf, PdsOf, UsersOf
  <1>2. IsFiniteSet(Procs) /\ IsFiniteSet(Procs \X PTs) /\ IsFiniteSet(Procs \X PDs)
    BY VmAssumption, Sizes
  <1>3. IsFiniteSet(PtsOf(s)) /\ IsFiniteSet(PdsOf(s)) /\ IsFiniteSet(UsersOf(s))
    BY <1>1, <1>2, FS_Subset
  <1>4. /\ Cardinality(PtsOf(s)) \in Nat /\ Cardinality(PdsOf(s)) \in Nat
        /\ Cardinality(UsersOf(s)) \in Nat
    BY <1>3, FS_CardinalityType
  <1> QED
    BY <1>3, <1>4 DEF Spent

(* What is not done to an address space does not show.                     *)
LEMMA ViewSame ==
  ASSUME NEW s, NEW t, t.mm = s.mm
  PROVE  EntryOf(t) = EntryOf(s) /\ Spent(t) = Spent(s) /\ UsersOf(t) = UsersOf(s)
  BY DEF EntryOf, Spent, PtsOf, PdsOf, UsersOf

(* The same for what is done to another part of it.                        *)
LEMMA ViewEntries ==
  ASSUME NEW p \in Procs, NEW s \in With(p), NEW t, Only(p, s, t), t.mm[p].pte = s.mm[p].pte
  PROVE  EntryOf(t) = EntryOf(s)
  <1>1. s.mm[p] # NoMm /\ t.mm[p] # NoMm
    BY MmTypes DEF With, Only
  <1>2. \A q \in Procs \ {p} : t.mm[q] = s.mm[q]
    BY DEF Only
  <1>3. ASSUME NEW x \in Cells
        PROVE  (IF t.mm[x[1]] = NoMm THEN NoPTE ELSE t.mm[x[1]].pte[x[2]])
               = (IF s.mm[x[1]] = NoMm THEN NoPTE ELSE s.mm[x[1]].pte[x[2]])
    <2>1. x[1] \in Procs
      BY DEF Cells
    <2> QED
      BY <1>1, <1>2, <2>1
  <1> QED
    BY <1>3 DEF EntryOf

(* Two address spaces, of which one has entry e for page and the other has *)
(* not.                                                                    *)
LEMMA ViewPut ==
  ASSUME NEW p \in Procs, NEW s \in With(p), NEW t, Only(p, s, t), NEW page \in Pages, NEW e,
         t.mm[p].pte = PutAt(s.mm[p].pte, page, e)
  PROVE  EntryOf(t) = PutAt(EntryOf(s), <<p, page>>, e)
  <1>1. s.mm[p] # NoMm /\ t.mm[p] # NoMm
    BY MmTypes DEF With, Only
  <1>2. \A q \in Procs \ {p} : t.mm[q] = s.mm[q]
    BY DEF Only
  <1>3. PICK r : r = s.mm[p].pte
    OBVIOUS
  <1>4. DOMAIN r = Pages
    BY <1>3 DEF With, FullMm
  <1>5. t.mm[p].pte[page] = e /\ \A g \in Pages \ {page} : t.mm[p].pte[g] = r[g]
    BY <1>3, <1>4 DEF PutAt
  <1>6. PICK E, F : E = EntryOf(s) /\ F = EntryOf(t)
    OBVIOUS
  <1>7. /\ DOMAIN E = Cells /\ F = [x \in Cells |-> F[x]]
        /\ \A q \in Procs, g \in Pages :
             /\ E[<<q, g>>] = IF s.mm[q] = NoMm THEN NoPTE ELSE s.mm[q].pte[g]
             /\ F[<<q, g>>] = IF t.mm[q] = NoMm THEN NoPTE ELSE t.mm[q].pte[g]
    BY <1>6 DEF EntryOf, Cells
  <1>8. ASSUME NEW q \in Procs, NEW g \in Pages
        PROVE  F[<<q, g>>] = IF <<q, g>> = <<p, page>> THEN e ELSE E[<<q, g>>]
    BY <1>1, <1>2, <1>3, <1>5, <1>7
  <1>9. \A x \in Cells : F[x] = IF x = <<p, page>> THEN e ELSE E[x]
    BY <1>8 DEF Cells
  <1>10. F = [E EXCEPT ![<<p, page>>] = e]
    BY <1>7, <1>9
  <1> QED
    BY <1>6, <1>10 DEF PutAt

(* Two address spaces with the same tables.                                *)
LEMMA ViewTables ==
  ASSUME NEW p \in Procs, NEW s \in With(p), NEW t, Only(p, s, t)
  PROVE  /\ UsersOf(t) = UsersOf(s)
         /\ t.mm[p].pt = s.mm[p].pt => PtsOf(t) = PtsOf(s)
         /\ t.mm[p].pd = s.mm[p].pd => PdsOf(t) = PdsOf(s)
         /\ SameTables(p, s, t) => Spent(t) = Spent(s)
  <1>1. s.mm[p] # NoMm /\ t.mm[p] # NoMm
    BY MmTypes DEF With, Only
  <1>2. \A q \in Procs \ {p} : t.mm[q] = s.mm[q]
    BY DEF Only
  <1>3. UsersOf(t) = UsersOf(s)
    BY <1>1, <1>2 DEF UsersOf
  <1>4. ASSUME t.mm[p].pt = s.mm[p].pt PROVE PtsOf(t) = PtsOf(s)
    <2>1. ASSUME NEW x \in Procs \X PTs PROVE x \in PtsOf(t) <=> x \in PtsOf(s)
      <3>1. x[1] \in Procs
        OBVIOUS
      <3> QED
        BY <1>1, <1>2, <1>4, <3>1 DEF PtsOf
    <2> QED
      BY <2>1 DEF PtsOf
  <1>5. ASSUME t.mm[p].pd = s.mm[p].pd PROVE PdsOf(t) = PdsOf(s)
    <2>1. ASSUME NEW x \in Procs \X PDs PROVE x \in PdsOf(t) <=> x \in PdsOf(s)
      <3>1. x[1] \in Procs
        OBVIOUS
      <3> QED
        BY <1>1, <1>2, <1>5, <3>1 DEF PdsOf
    <2> QED
      BY <2>1 DEF PdsOf
  <1> QED
    BY <1>3, <1>4, <1>5 DEF SameTables, Spent
(* Two address spaces, of which one names a table that the other does not.  *)
LEMMA ViewPd ==
  ASSUME NEW p \in Procs, NEW s \in With(p), NEW t, Only(p, s, t), NEW d \in PDs,
         NEW b \in BOOLEAN, b # s.mm[p].pd[d], t.mm[p].pd = PutAt(s.mm[p].pd, d, b),
         t.mm[p].pt = s.mm[p].pt
  PROVE  Spent(t) = IF b THEN Spent(s) + 1 ELSE Spent(s) - 1
  <1>1. s.mm[p] # NoMm /\ t.mm[p] # NoMm
    BY MmTypes DEF With, Only
  <1>2. \A q \in Procs \ {p} : t.mm[q] = s.mm[q]
    BY DEF Only
  <1>3. PICK r : r = s.mm[p].pd
    OBVIOUS
  <1>4. r \in [PDs -> BOOLEAN]
    BY <1>3 DEF With, FullMm
  <1>5. t.mm[p].pd[d] = b /\ \A g \in PDs \ {d} : t.mm[p].pd[g] = r[g]
    BY <1>3, <1>4 DEF PutAt
  <1>6. PICK S, T : S = PdsOf(s) /\ T = PdsOf(t)
    OBVIOUS
  <1>7. /\ S \subseteq Procs \X PDs /\ T \subseteq Procs \X PDs
        /\ \A q \in Procs, g \in PDs :
             /\ <<q, g>> \in S <=> s.mm[q] # NoMm /\ s.mm[q].pd[g]
             /\ <<q, g>> \in T <=> t.mm[q] # NoMm /\ t.mm[q].pd[g]
    BY <1>6 DEF PdsOf
  <1>8. \A q \in Procs, g \in PDs : <<q, g>> # <<p, d>> => (<<q, g>> \in T <=> <<q, g>> \in S)
    <2> SUFFICES ASSUME NEW q \in Procs, NEW g \in PDs, <<q, g>> # <<p, d>>
                 PROVE  <<q, g>> \in T <=> <<q, g>> \in S
      OBVIOUS
    <2>1. CASE q = p
      BY <1>1, <1>3, <1>5, <1>7, <2>1
    <2>2. CASE q # p
      BY <1>2, <1>7, <2>2
    <2> QED
      BY <2>1, <2>2
  <1>9. (<<p, d>> \in T <=> b) /\ (<<p, d>> \in S <=> ~b)
    BY <1>1, <1>3, <1>4, <1>5, <1>7
  <1>10. T = IF b THEN S \cup {<<p, d>>} ELSE S \ {<<p, d>>}
    BY <1>7, <1>8, <1>9
  <1>11. IsFiniteSet(S) /\ Cardinality(S) \in Nat
    BY <1>6, SpentSets
  <1>12. Cardinality(T) = IF b THEN Cardinality(S) + 1 ELSE Cardinality(S) - 1
    BY <1>9, <1>10, <1>11, FS_AddElement, FS_RemoveElement
  <1>13. UsersOf(t) = UsersOf(s) /\ PtsOf(t) = PtsOf(s)
    BY ViewTables
  <1>14. /\ Cardinality(PtsOf(s)) \in Nat /\ Cardinality(UsersOf(s)) \in Nat
    BY SpentSets
  <1> QED
    BY <1>6, <1>11, <1>12, <1>13, <1>14 DEF Spent

(* Two address spaces, of which one names a table that the other does not.  *)
LEMMA ViewPt ==
  ASSUME NEW p \in Procs, NEW s \in With(p), NEW t, Only(p, s, t), NEW d \in PTs,
         NEW b \in BOOLEAN, b # s.mm[p].pt[d], t.mm[p].pt = PutAt(s.mm[p].pt, d, b),
         t.mm[p].pd = s.mm[p].pd
  PROVE  Spent(t) = IF b THEN Spent(s) + 1 ELSE Spent(s) - 1
  <1>1. s.mm[p] # NoMm /\ t.mm[p] # NoMm
    BY MmTypes DEF With, Only
  <1>2. \A q \in Procs \ {p} : t.mm[q] = s.mm[q]
    BY DEF Only
  <1>3. PICK r : r = s.mm[p].pt
    OBVIOUS
  <1>4. r \in [PTs -> BOOLEAN]
    BY <1>3 DEF With, FullMm
  <1>5. t.mm[p].pt[d] = b /\ \A g \in PTs \ {d} : t.mm[p].pt[g] = r[g]
    BY <1>3, <1>4 DEF PutAt
  <1>6. PICK S, T : S = PtsOf(s) /\ T = PtsOf(t)
    OBVIOUS
  <1>7. /\ S \subseteq Procs \X PTs /\ T \subseteq Procs \X PTs
        /\ \A q \in Procs, g \in PTs :
             /\ <<q, g>> \in S <=> s.mm[q] # NoMm /\ s.mm[q].pt[g]
             /\ <<q, g>> \in T <=> t.mm[q] # NoMm /\ t.mm[q].pt[g]
    BY <1>6 DEF PtsOf
  <1>8. \A q \in Procs, g \in PTs : <<q, g>> # <<p, d>> => (<<q, g>> \in T <=> <<q, g>> \in S)
    <2> SUFFICES ASSUME NEW q \in Procs, NEW g \in PTs, <<q, g>> # <<p, d>>
                 PROVE  <<q, g>> \in T <=> <<q, g>> \in S
      OBVIOUS
    <2>1. CASE q = p
      BY <1>1, <1>3, <1>5, <1>7, <2>1
    <2>2. CASE q # p
      BY <1>2, <1>7, <2>2
    <2> QED
      BY <2>1, <2>2
  <1>9. (<<p, d>> \in T <=> b) /\ (<<p, d>> \in S <=> ~b)
    BY <1>1, <1>3, <1>4, <1>5, <1>7
  <1>10. T = IF b THEN S \cup {<<p, d>>} ELSE S \ {<<p, d>>}
    BY <1>7, <1>8, <1>9
  <1>11. IsFiniteSet(S) /\ Cardinality(S) \in Nat
    BY <1>6, SpentSets
  <1>12. Cardinality(T) = IF b THEN Cardinality(S) + 1 ELSE Cardinality(S) - 1
    BY <1>9, <1>10, <1>11, FS_AddElement, FS_RemoveElement
  <1>13. UsersOf(t) = UsersOf(s) /\ PdsOf(t) = PdsOf(s)
    BY ViewTables
  <1>14. /\ Cardinality(PdsOf(s)) \in Nat /\ Cardinality(UsersOf(s)) \in Nat
    BY SpentSets
  <1> QED
    BY <1>6, <1>11, <1>12, <1>13, <1>14 DEF Spent
AddPd(s, p, d) == [take_page(s) EXCEPT !.mm[p].pd[d] = TRUE]
AddPt(s, p, d) == [take_page(s) EXCEPT !.mm[p].pt[d] = TRUE]

(* A page that becomes a table.                                            *)
LEMMA NewPd ==
  ASSUME NEW p \in Procs, NEW s \in With(p), NEW d \in PDs, ~s.mm[p].pd[d],
         NEW t, t = AddPd(s, p, d)
  PROVE  /\ Only(p, s, t) /\ SameAreas(p, s, t) /\ SamePages(s, t)
         /\ t.mm[p].pte = s.mm[p].pte
         /\ ~t.panic => t.left + Spent(t) = s.left + Spent(s)
  <1>1. PICK a : a = take_page(s)
    OBVIOUS
  <1>2. /\ Only(p, s, a) /\ a.mm = s.mm /\ SamePages(s, a) /\ s \in States
        /\ ~a.panic => a.left = s.left - 1
    BY <1>1, TakeOnly, TakeType, MmTypes
  <1>3. PICK old : old = a.mm[p]
    OBVIOUS
  <1>4. PICK m : m = PutPd(old, d, TRUE)
    OBVIOUS
  <1>5. t = SetMm(a, p, m)
    BY <1>1, <1>3, <1>4, Zenon DEF SetMm, PutPd, AddPd
  <1>6. old \in FullMm /\ a \in With(p) /\ a \in States
    BY <1>2, <1>3, MmTypes DEF Only, With
  <1>7. m \in FullMm /\ m.areas = old.areas /\ m.pte = old.pte /\ m.pt = old.pt
        /\ m.pd = PutAt(old.pd, d, TRUE)
    BY <1>4, <1>6, MmSetPd, ZenonT(40)
  <1>8. Only(p, a, t)
    BY <1>5, <1>6, <1>7, SetMmOnly
  <1>9. t.mm[p] = m /\ SamePages(a, t) /\ t.left = a.left /\ t.panic = a.panic
    <2>1. m \in FullMm \cup {NoMm}
      BY <1>7
    <2>2. a \in States
      BY <1>6
    <2>3. /\ SetMm(a, p, m).mm[p] = m /\ SetMm(a, p, m).left = a.left
          /\ SetMm(a, p, m).free = a.free /\ SetMm(a, p, m).ref = a.ref
          /\ SetMm(a, p, m).data = a.data /\ SetMm(a, p, m).page = a.page
          /\ SetMm(a, p, m).panic = a.panic
      BY <2>1, <2>2, SetMmType, ZenonT(40)
    <2> QED
      BY <1>5, <2>3 DEF SamePages
  <1>10. Only(p, s, t) /\ SameAreas(p, s, t) /\ SamePages(s, t) /\ t.mm[p].pte = s.mm[p].pte
    BY <1>2, <1>3, <1>7, <1>8, <1>9, OnlyTwice DEF SamePages, SameAreas
  <1>11. t.mm[p].pd = PutAt(s.mm[p].pd, d, TRUE) /\ t.mm[p].pt = s.mm[p].pt
    BY <1>2, <1>3, <1>7, <1>9
  <1>12. TRUE # s.mm[p].pd[d]
    BY DEF With, FullMm
  <1>13. Spent(t) = Spent(s) + 1
    BY <1>10, <1>11, <1>12, ViewPd
  <1>14. s.left \in Int /\ Spent(s) \in Nat
    BY <1>2, SpentSets DEF States
  <1> QED
    BY <1>2, <1>9, <1>10, <1>13, <1>14

(* A page that becomes a table.                                            *)
LEMMA NewPt ==
  ASSUME NEW p \in Procs, NEW s \in With(p), NEW d \in PTs, ~s.mm[p].pt[d],
         NEW t, t = AddPt(s, p, d)
  PROVE  /\ Only(p, s, t) /\ SameAreas(p, s, t) /\ SamePages(s, t)
         /\ t.mm[p].pte = s.mm[p].pte
         /\ ~t.panic => t.left + Spent(t) = s.left + Spent(s)
  <1>1. PICK a : a = take_page(s)
    OBVIOUS
  <1>2. /\ Only(p, s, a) /\ a.mm = s.mm /\ SamePages(s, a) /\ s \in States
        /\ ~a.panic => a.left = s.left - 1
    BY <1>1, TakeOnly, TakeType, MmTypes
  <1>3. PICK old : old = a.mm[p]
    OBVIOUS
  <1>4. PICK m : m = PutPt(old, d, TRUE)
    OBVIOUS
  <1>5. t = SetMm(a, p, m)
    BY <1>1, <1>3, <1>4, Zenon DEF SetMm, PutPt, AddPt
  <1>6. old \in FullMm /\ a \in With(p) /\ a \in States
    BY <1>2, <1>3, MmTypes DEF Only, With
  <1>7. m \in FullMm /\ m.areas = old.areas /\ m.pte = old.pte /\ m.pd = old.pd
        /\ m.pt = PutAt(old.pt, d, TRUE)
    BY <1>4, <1>6, MmSetPt, ZenonT(40)
  <1>8. Only(p, a, t)
    BY <1>5, <1>6, <1>7, SetMmOnly
  <1>9. t.mm[p] = m /\ SamePages(a, t) /\ t.left = a.left /\ t.panic = a.panic
    <2>1. m \in FullMm \cup {NoMm}
      BY <1>7
    <2>2. a \in States
      BY <1>6
    <2>3. /\ SetMm(a, p, m).mm[p] = m /\ SetMm(a, p, m).left = a.left
          /\ SetMm(a, p, m).free = a.free /\ SetMm(a, p, m).ref = a.ref
          /\ SetMm(a, p, m).data = a.data /\ SetMm(a, p, m).page = a.page
          /\ SetMm(a, p, m).panic = a.panic
      BY <2>1, <2>2, SetMmType, ZenonT(40)
    <2> QED
      BY <1>5, <2>3 DEF SamePages
  <1>10. Only(p, s, t) /\ SameAreas(p, s, t) /\ SamePages(s, t) /\ t.mm[p].pte = s.mm[p].pte
    BY <1>2, <1>3, <1>7, <1>8, <1>9, OnlyTwice DEF SamePages, SameAreas
  <1>11. t.mm[p].pt = PutAt(s.mm[p].pt, d, TRUE) /\ t.mm[p].pd = s.mm[p].pd
    BY <1>2, <1>3, <1>7, <1>9
  <1>12. TRUE # s.mm[p].pt[d]
    BY DEF With, FullMm
  <1>13. Spent(t) = Spent(s) + 1
    BY <1>10, <1>11, <1>12, ViewPt
  <1>14. s.left \in Int /\ Spent(s) \in Nat
    BY <1>2, SpentSets DEF States
  <1> QED
    BY <1>2, <1>9, <1>10, <1>13, <1>14

(* get_pte makes the tables that a page needs.                             *)
LEMMA GetPteType ==
  ASSUME NEW p \in Procs, NEW s \in With(p), NEW page \in Pages,
         NEW t, t = get_pte(s, p, page)
  PROVE  /\ Only(p, s, t) /\ SameAreas(p, s, t) /\ SamePages(s, t)
         /\ t.mm[p].pte = s.mm[p].pte
         /\ ~t.panic => t.left + Spent(t) = s.left + Spent(s)
  <1>1. PICK pt : pt = PT(page)
    OBVIOUS
  <1>2. PICK pd : pd = PD(pt)
    OBVIOUS
  <1>3. pt \in PTs /\ pd \in PDs
    BY <1>1, <1>2, Sizes
  <1>4. PICK u : u = IF s.mm[p].pd[pd] THEN s ELSE AddPd(s, p, pd)
    OBVIOUS
  <1>5. t = IF u.mm[p].pt[pt] THEN u ELSE AddPt(u, p, pt)
    BY <1>1, <1>2, <1>4, Zenon DEF get_pte, AddPd, AddPt
  <1>6. /\ Only(p, s, u) /\ SameAreas(p, s, u) /\ SamePages(s, u)
        /\ u.mm[p].pte = s.mm[p].pte
        /\ ~u.panic => u.left + Spent(u) = s.left + Spent(s)
    <2>1. CASE s.mm[p].pd[pd]
      BY <1>4, <2>1 DEF Only, With, SameAreas, SamePages
    <2>2. CASE ~s.mm[p].pd[pd]
      <3>1. u = AddPd(s, p, pd)
        BY <1>4, <2>2
      <3> QED
        BY <1>3, <2>2, <3>1, NewPd
    <2> QED
      BY <2>1, <2>2
  <1>7. u \in With(p)
    BY <1>6 DEF Only
  <1>8. CASE u.mm[p].pt[pt]
    BY <1>5, <1>6, <1>8
  <1>9. CASE ~u.mm[p].pt[pt]
    <2>1. t = AddPt(u, p, pt)
      BY <1>5, <1>9
    <2>2. /\ Only(p, u, t) /\ SameAreas(p, u, t) /\ SamePages(u, t)
          /\ t.mm[p].pte = u.mm[p].pte
          /\ ~t.panic => t.left + Spent(t) = u.left + Spent(u)
      BY <1>3, <1>7, <1>9, <2>1, NewPt
    <2>3. Only(p, s, t) /\ (~t.panic => ~u.panic)
      BY <1>6, <2>2, OnlyTwice DEF Only
    <2> QED
      BY <1>6, <2>2, <2>3 DEF SamePages, SameAreas
  <1> QED
    BY <1>8, <1>9

LEMMA SetPteType ==
  ASSUME NEW p \in Procs, NEW s \in With(p), NEW page \in Pages, NEW e \in Entry
  PROVE  LET t == [s EXCEPT !.mm[p].pte[page] = e] IN
         /\ Only(p, s, t) /\ SameAreas(p, s, t) /\ SameTables(p, s, t) /\ SamePages(s, t)
         /\ t.mm[p].pte = PutAt(s.mm[p].pte, page, e)
         /\ t.left = s.left /\ t.panic = s.panic
  <1>0. PICK old : old = s.mm[p]
    OBVIOUS
  <1>1. PICK m : m = PutPte(old, page, e)
    OBVIOUS
  <1>2. old \in FullMm /\ s \in States
    BY <1>0 DEF With
  <1>3. /\ m \in FullMm /\ m.areas = old.areas /\ m.pd = old.pd /\ m.pt = old.pt
        /\ m.pte = PutAt(old.pte, page, e)
    BY <1>1, <1>2, MmSetPte
  <1>4. [s EXCEPT !.mm[p].pte[page] = e] = SetMm(s, p, m)
    BY <1>0, <1>1, Zenon DEF SetMm, PutPte
  <1>5. PICK t : t = SetMm(s, p, m)
    OBVIOUS
  <1>6. Only(p, s, t)
    BY <1>3, <1>5, SetMmOnly
  <1>7. /\ t.mm[p] = m /\ t.left = s.left /\ t.panic = s.panic /\ SamePages(s, t)
    BY <1>2, <1>3, <1>5, SetMmType DEF SamePages
  <1> QED
    BY <1>0, <1>3, <1>4, <1>5, <1>6, <1>7 DEF SameAreas, SameTables

LEMMA PteType ==
  ASSUME NEW p \in Procs, NEW s \in With(p), NEW page \in Pages
  PROVE  /\ s.mm[p].pte[page] \in Entry
         /\ s.mm[p].pte[page].frame \in Frames \cup {None} /\ s.mm[p].pte[page].perm \in Perms
  <1>1. s.mm[p].pte \in [Pages -> Entry]
    BY DEF With, FullMm
  <1> QED
    BY <1>1 DEF Entry

LEMMA RemoveType ==
  ASSUME NEW p \in Procs, NEW s \in With(p), NEW page \in Pages
  PROVE  LET t == page_remove_pte(s, p, page) IN
         /\ Only(p, s, t) /\ SameAreas(p, s, t) /\ SameTables(p, s, t)
         /\ t.mm[p].pte = PutAt(s.mm[p].pte, page, NoPTE)
         /\ t.panic = s.panic /\ t.data = s.data /\ t.page = s.page
  <1>1. PICK f : f = s.mm[p].pte[page].frame
    OBVIOUS
  <1>2. PICK a : a = page_ref_dec(s, f)
    OBVIOUS
  <1>3. f \in Frames \cup {None} /\ s \in States
    BY <1>1, PteType, MmTypes
  <1>4. /\ a \in States /\ a.mm = s.mm /\ a.cow = s.cow /\ a.panic = s.panic
        /\ a.data = s.data /\ a.page = s.page
    BY <1>2, <1>3, DecType
  <1>5. a \in With(p) /\ Only(p, s, a)
    BY <1>4, MmTypes DEF With, Only
  <1>6. page_remove_pte(s, p, page) = [a EXCEPT !.mm[p].pte[page] = NoPTE]
    BY <1>1, <1>2, Zenon DEF page_remove_pte
  <1>7. PICK t : t = page_remove_pte(s, p, page)
    OBVIOUS
  <1>8. /\ Only(p, a, t) /\ SameAreas(p, a, t) /\ SameTables(p, a, t) /\ SamePages(a, t)
        /\ t.mm[p].pte = PutAt(a.mm[p].pte, page, NoPTE)
        /\ t.panic = a.panic
    BY <1>5, <1>6, <1>7, EntryTypes, SetPteType
  <1> QED
    BY <1>4, <1>5, <1>7, <1>8, OnlyTwice DEF SameAreas, SameTables, SamePages
-----------------------------------------------------------------------------
(* The books of the kernel: E has the entries of all processes, ref the    *)
(* page_ref of every frame, fr the free ones, n the free pages and those   *)
(* that hold tables.                                                       *)
At(E, f) == {x \in Cells : E[x].frame = f}
Held(E) == {f \in Frames : At(E, f) # {}}
Clean(E) == \A x \in Cells : E[x].frame = None => E[x] = NoPTE
Sole(E) == \A x \in Cells : E[x].perm = "rw" => At(E, E[x].frame) = {x}
Balanced(E, ref, c) ==
  \A f \in Frames : Cardinality(At(E, f)) <= ref[f] /\ (c \/ ref[f] = Cardinality(At(E, f)))
Within(E, n) == n + Cardinality(Held(E)) <= NPages

Books(E, ref, fr, n, c) ==
  /\ E \in [Cells -> Entry] /\ ref \in [Frames -> Int] /\ n \in Int
  /\ Clean(E) /\ Sole(E) /\ Balanced(E, ref, c)
  /\ fr = {f \in Frames : ref[f] = 0}
  /\ Within(E, n)

(* What is counted in them is finite.                                      *)
LEMMA AtFinite ==
  ASSUME NEW E
  PROVE  /\ \A f : IsFiniteSet(At(E, f)) /\ Cardinality(At(E, f)) \in Nat
                   /\ (Cardinality(At(E, f)) = 0 <=> At(E, f) = {})
         /\ IsFiniteSet(Held(E)) /\ Cardinality(Held(E)) \in Nat
  <1>1. ASSUME NEW f PROVE IsFiniteSet(At(E, f)) /\ Cardinality(At(E, f)) \in Nat
                           /\ (Cardinality(At(E, f)) = 0 <=> At(E, f) = {})
    <2>1. At(E, f) \in SUBSET Cells
      BY DEF At
    <2>2. IsFiniteSet(At(E, f))
      BY <2>1, Sizes, FS_Subset
    <2> QED
      BY <2>2, FS_CardinalityType, FS_EmptySet
  <1>2. Held(E) \in SUBSET Frames
    BY DEF Held
  <1>3. IsFiniteSet(Held(E))
    BY <1>2, Sizes, FS_Subset
  <1> QED
    BY <1>1, <1>3, FS_CardinalityType

(* An entry that changes.                                                  *)
LEMMA AtPut ==
  ASSUME NEW E \in [Cells -> Entry], NEW x \in Cells, NEW e \in Entry,
         NEW F, F = PutAt(E, x, e)
  PROVE  /\ F \in [Cells -> Entry] /\ F[x] = e /\ \A y \in Cells \ {x} : F[y] = E[y]
         /\ \A f : At(F, f) = IF e.frame = f THEN At(E, f) \cup {x} ELSE At(E, f) \ {x}
         /\ \A f : f # e.frame /\ f # E[x].frame => At(F, f) = At(E, f)
  <1>1. F \in [Cells -> Entry] /\ F[x] = e /\ \A y \in Cells \ {x} : F[y] = E[y]
    BY PutType DEF PutAt
  <1>2. ASSUME NEW f
        PROVE  At(F, f) = IF e.frame = f THEN At(E, f) \cup {x} ELSE At(E, f) \ {x}
    BY <1>1 DEF At
  <1>3. ASSUME NEW f, f # e.frame, f # E[x].frame PROVE At(F, f) = At(E, f)
    BY <1>1, <1>3 DEF At
  <1> QED
    BY <1>1, <1>2, <1>3

(* page_remove_pte: an entry goes and page_ref goes down.                  *)
LEMMA DropBooks ==
  ASSUME NEW E, NEW ref, NEW fr, NEW n, NEW c, Books(E, ref, fr, n, c),
         NEW x \in Cells, NEW f \in Frames, E[x].frame = f, NEW F, F = PutAt(E, x, NoPTE)
  PROVE  /\ ref[f] >= 1
         /\ ref[f] = 1 => Books(F, PutAt(ref, f, 0), fr \cup {f}, n + 1, c)
         /\ ref[f] # 1 => Books(F, PutAt(ref, f, ref[f] - 1), fr, n, c)
  <1>1. /\ E \in [Cells -> Entry] /\ ref \in [Frames -> Int] /\ n \in Int
        /\ Clean(E) /\ Sole(E) /\ Balanced(E, ref, c) /\ Within(E, n)
        /\ fr = {g \in Frames : ref[g] = 0}
    BY DEF Books
  <1>2. NoPTE \in Entry /\ NoPTE.frame = None /\ None \notin Frames /\ NoPTE.perm # "rw"
    BY EntryTypes DEF NoPTE, PTE
  <1>3. /\ F \in [Cells -> Entry] /\ F[x] = NoPTE /\ \A y \in Cells \ {x} : F[y] = E[y]
        /\ \A g : None # g => At(F, g) = At(E, g) \ {x}
        /\ \A g : g # None /\ g # f => At(F, g) = At(E, g)
    BY <1>1, <1>2, AtPut
  <1>4. x \in At(E, f) /\ At(F, f) = At(E, f) \ {x} /\ \A g \in Frames \ {f} : At(F, g) = At(E, g)
    BY <1>2, <1>3 DEF At
  <1>5. /\ Cardinality(At(E, f)) \in Nat /\ Cardinality(At(E, f)) >= 1
        /\ Cardinality(At(F, f)) = Cardinality(At(E, f)) - 1
    <2>1. IsFiniteSet(At(E, f)) /\ Cardinality(At(E, f)) \in Nat
      BY AtFinite
    <2>2. Cardinality(At(E, f)) # 0
      BY <1>4, AtFinite
    <2>3. Cardinality(At(E, f) \ {x}) = Cardinality(At(E, f)) - 1
      BY <1>4, <2>1, FS_RemoveElement
    <2> QED
      BY <1>4, <2>1, <2>2, <2>3
  <1>6. ref[f] >= 1 /\ ref[f] \in Int
    BY <1>1, <1>5 DEF Balanced
  <1>7. Clean(F)
    BY <1>1, <1>2, <1>3 DEF Clean
  <1>8. Sole(F)
    <2> SUFFICES ASSUME NEW y \in Cells, F[y].perm = "rw" PROVE At(F, F[y].frame) = {y}
      BY DEF Sole
    <2>1. y # x /\ F[y] = E[y]
      BY <1>2, <1>3
    <2>2. At(E, E[y].frame) = {y}
      BY <1>1, <2>1 DEF Sole
    <2>3. E[y].frame # None
      BY <1>1, <1>2, <2>1 DEF Clean
    <2> QED
      BY <1>3, <2>1, <2>2, <2>3
  <1>9. ASSUME NEW r \in [Frames -> Int], r[f] = ref[f] - 1, \A g \in Frames \ {f} : r[g] = ref[g]
        PROVE  Balanced(F, r, c)
    <2> SUFFICES ASSUME NEW g \in Frames
                 PROVE Cardinality(At(F, g)) <= r[g] /\ (c \/ r[g] = Cardinality(At(F, g)))
      BY DEF Balanced
    <2>1. CASE g = f
      BY <1>1, <1>5, <1>6, <1>9, <2>1 DEF Balanced
    <2>2. CASE g # f
      BY <1>1, <1>4, <1>9, <2>2 DEF Balanced
    <2> QED
      BY <2>1, <2>2
  <1>10. Cardinality(Held(F)) <= Cardinality(Held(E))
    <2>1. Held(F) \in SUBSET Held(E)
      BY <1>4 DEF Held
    <2> QED
      BY <2>1, AtFinite, FS_Subset
  <1>11. CASE ref[f] = 1
    <2>1. PICK r : r = PutAt(ref, f, 0)
      OBVIOUS
    <2>2. r \in [Frames -> Int] /\ r[f] = 0 /\ \A g \in Frames \ {f} : r[g] = ref[g]
      BY <1>1, <2>1, PutType DEF PutAt
    <2>3. Balanced(F, r, c)
      BY <1>9, <1>11, <2>2
    <2>4. fr \cup {f} = {g \in Frames : r[g] = 0}
      BY <1>1, <2>2
    <2>5. At(F, f) = {}
      <3>1. Cardinality(At(E, f)) = 1
        BY <1>1, <1>5, <1>11 DEF Balanced
      <3> QED
        BY <1>5, <3>1, AtFinite
    <2>6. Held(F) = Held(E) \ {f} /\ f \in Held(E)
      BY <1>4, <2>5 DEF Held
    <2>7. Cardinality(Held(F)) = Cardinality(Held(E)) - 1 /\ Cardinality(Held(E)) \in Nat
      <3>1. IsFiniteSet(Held(E)) /\ Cardinality(Held(E)) \in Nat
        BY AtFinite
      <3>2. Cardinality(Held(E) \ {f}) = Cardinality(Held(E)) - 1
        BY <2>6, <3>1, FS_RemoveElement
      <3> QED
        BY <2>6, <3>1, <3>2
    <2>8. Within(F, n + 1)
      BY <1>1, <2>7, VmAssumption DEF Within
    <2>9. n + 1 \in Int
      BY <1>1
    <2> QED
      BY <1>3, <1>6, <1>7, <1>8, <1>11, <2>1, <2>2, <2>3, <2>4, <2>8, <2>9 DEF Books
  <1>12. CASE ref[f] # 1
    <2>1. PICK r : r = PutAt(ref, f, ref[f] - 1)
      OBVIOUS
    <2>2. r \in [Frames -> Int] /\ r[f] = ref[f] - 1 /\ \A g \in Frames \ {f} : r[g] = ref[g]
      <3>1. ref[f] - 1 \in Int
        BY <1>6
      <3> QED
        BY <1>1, <2>1, <3>1, PutType DEF PutAt
    <2>3. Balanced(F, r, c)
      BY <1>9, <2>2
    <2>4. fr = {g \in Frames : r[g] = 0}
      BY <1>1, <1>6, <1>12, <2>2
    <2>5. Within(F, n)
      BY <1>1, <1>10, AtFinite, VmAssumption DEF Within
    <2> QED
      BY <1>1, <1>3, <1>6, <1>7, <1>8, <1>12, <2>1, <2>2, <2>3, <2>4, <2>5 DEF Books
  <1> QED
    BY <1>6, <1>11, <1>12

(* An entry is made: for a page that was free, or for one that others map  *)
(* for reading only.                                                       *)
Insertable(E, x, f, perm, fr) ==
  f \in fr \/ /\ At(E, f) # {} /\ perm # "rw"
              /\ \A y \in At(E, f) \ {x} : E[y].perm # "rw"

LEMMA MapBooks ==
  ASSUME NEW E, NEW ref, NEW fr, NEW n, NEW c, Books(E, ref, fr, n, c),
         NEW x \in Cells, E[x] = NoPTE, NEW f \in Frames, NEW perm \in Perms,
         Insertable(E, x, f, perm, fr), NEW F, F = PutAt(E, x, PTE(f, perm)),
         NEW m, m = IF f \in fr THEN n - 1 ELSE n
  PROVE  Books(F, PutAt(ref, f, ref[f] + 1), fr \ {f}, m, c)
  <1> USE DEF Insertable
  <1>1. /\ E \in [Cells -> Entry] /\ ref \in [Frames -> Int] /\ n \in Int
        /\ Clean(E) /\ Sole(E) /\ Balanced(E, ref, c) /\ Within(E, n)
        /\ fr = {g \in Frames : ref[g] = 0}
    BY DEF Books
  <1>2. PICK e : e = PTE(f, perm)
    OBVIOUS
  <1>3. e \in Entry /\ e.frame = f /\ e.perm = perm /\ f # None /\ NoPTE.frame = None
    BY <1>2, EntryTypes
  <1>4. /\ F \in [Cells -> Entry] /\ F[x] = e /\ \A y \in Cells \ {x} : F[y] = E[y]
        /\ At(F, f) = At(E, f) \cup {x}
        /\ \A g : f # g => At(F, g) = At(E, g) \ {x}
        /\ \A g : g # f /\ g # None => At(F, g) = At(E, g)
    BY <1>1, <1>2, <1>3, AtPut
  <1>5. x \notin At(E, f) /\ \A g \in Frames \ {f} : At(F, g) = At(E, g)
    BY <1>3, <1>4, EntryTypes DEF At
  <1>6. /\ Cardinality(At(E, f)) \in Nat /\ IsFiniteSet(At(E, f))
        /\ Cardinality(At(F, f)) = Cardinality(At(E, f)) + 1
    <2>1. IsFiniteSet(At(E, f)) /\ Cardinality(At(E, f)) \in Nat
      BY AtFinite
    <2> QED
      BY <1>4, <1>5, <2>1, FS_AddElement
  <1>7. ref[f] >= 0 /\ ref[f] \in Int
    BY <1>1, <1>6 DEF Balanced
  <1>8. f \in fr => At(E, f) = {}
    <2>1. f \in fr => Cardinality(At(E, f)) = 0
      BY <1>1, <1>6 DEF Balanced
    <2> QED
      BY <2>1, AtFinite
  <1>9. Clean(F)
    BY <1>1, <1>3, <1>4 DEF Clean
  <1>10. Sole(F)
    <2> SUFFICES ASSUME NEW y \in Cells, F[y].perm = "rw" PROVE At(F, F[y].frame) = {y}
      BY DEF Sole
    <2>1. CASE y = x
      <3>1. perm = "rw" /\ F[y].frame = f
        BY <1>3, <1>4, <2>1
      <3>2. At(F, f) = {x}
        BY <1>4, <1>8, <3>1
      <3> QED
        BY <2>1, <3>1, <3>2
    <2>2. CASE y # x
      <3>1. F[y] = E[y]
        BY <1>4, <2>2
      <3>2. At(E, E[y].frame) = {y}
        BY <1>1, <3>1 DEF Sole
      <3>3. E[y].frame # f
        BY <1>8, <2>2, <3>1, <3>2
      <3> QED
        BY <1>4, <2>2, <3>1, <3>2, <3>3
    <2> QED
      BY <2>1, <2>2
  <1>11. PICK r : r = PutAt(ref, f, ref[f] + 1)
    OBVIOUS
  <1>12. r \in [Frames -> Int] /\ r[f] = ref[f] + 1 /\ \A g \in Frames \ {f} : r[g] = ref[g]
    <2>1. ref[f] + 1 \in Int
      BY <1>7
    <2> QED
      BY <1>1, <1>11, <2>1, PutType DEF PutAt
  <1>13. Balanced(F, r, c)
    <2> SUFFICES ASSUME NEW g \in Frames
                 PROVE Cardinality(At(F, g)) <= r[g] /\ (c \/ r[g] = Cardinality(At(F, g)))
      BY DEF Balanced
    <2>1. CASE g = f
      BY <1>1, <1>6, <1>7, <1>12, <2>1 DEF Balanced
    <2>2. CASE g # f
      BY <1>1, <1>5, <1>12, <2>2 DEF Balanced
    <2> QED
      BY <2>1, <2>2
  <1>14. fr \ {f} = {g \in Frames : r[g] = 0}
    BY <1>1, <1>7, <1>12
  <1>15. IsFiniteSet(Held(E)) /\ Cardinality(Held(E)) \in Nat
    BY AtFinite
  <1>16. Held(F) = Held(E) \cup {f}
    BY <1>4, <1>5 DEF Held
  <1>17. f \in Held(E) <=> f \notin fr
    BY <1>8 DEF Held
  <1>18. Cardinality(Held(F)) = IF f \in fr THEN Cardinality(Held(E)) + 1 ELSE Cardinality(Held(E))
    BY <1>15, <1>16, <1>17, FS_AddElement
  <1>19. m \in Int /\ Within(F, m)
    BY <1>1, <1>15, <1>18, VmAssumption DEF Within
  <1> QED
    BY <1>4, <1>9, <1>10, <1>11, <1>12, <1>13, <1>14, <1>19 DEF Books

(* A process loses the right to write.                                     *)
LEMMA SoftenBooks ==
  ASSUME NEW E, NEW ref, NEW fr, NEW n, NEW c, Books(E, ref, fr, n, c),
         NEW x \in Cells, NEW e \in Entry, e.frame = E[x].frame, e.frame # None, e.perm # "rw",
         NEW F, F = PutAt(E, x, e)
  PROVE  Books(F, ref, fr, n, c) /\ \A f : At(F, f) = At(E, f)
  <1>1. /\ E \in [Cells -> Entry] /\ Clean(E) /\ Sole(E) /\ Balanced(E, ref, c) /\ Within(E, n)
    BY DEF Books
  <1>2. /\ F \in [Cells -> Entry] /\ F[x] = e /\ \A y \in Cells \ {x} : F[y] = E[y]
        /\ \A f : At(F, f) = IF e.frame = f THEN At(E, f) \cup {x} ELSE At(E, f) \ {x}
    BY <1>1, AtPut
  <1>3. \A f : At(F, f) = At(E, f)
    BY <1>2 DEF At
  <1>4. Clean(F)
    BY <1>1, <1>2 DEF Clean
  <1>5. Sole(F)
    BY <1>1, <1>2, <1>3 DEF Sole
  <1>6. Balanced(F, ref, c)
    BY <1>1, <1>3 DEF Balanced
  <1>7. Within(F, n)
    BY <1>1, <1>3 DEF Within, Held
  <1> QED
    BY <1>2, <1>3, <1>4, <1>5, <1>6, <1>7 DEF Books

(* cow_pgfault: an entry goes and page_ref does not go down.               *)
LEMMA ForgetBooks ==
  ASSUME NEW E, NEW ref, NEW fr, NEW n, NEW c, Books(E, ref, fr, n, c), c,
         NEW x \in Cells, NEW F, F = PutAt(E, x, NoPTE)
  PROVE  Books(F, ref, fr, n, c)
  <1>1. /\ E \in [Cells -> Entry] /\ ref \in [Frames -> Int] /\ n \in Int
        /\ Clean(E) /\ Sole(E) /\ Balanced(E, ref, c) /\ Within(E, n)
    BY DEF Books
  <1>2. NoPTE \in Entry /\ NoPTE.frame = None /\ None \notin Frames /\ NoPTE.perm # "rw"
    BY EntryTypes DEF NoPTE, PTE
  <1>3. /\ F \in [Cells -> Entry] /\ F[x] = NoPTE /\ \A y \in Cells \ {x} : F[y] = E[y]
        /\ \A g : None # g => At(F, g) = At(E, g) \ {x}
    BY <1>1, <1>2, AtPut
  <1>4. \A g \in Frames : At(F, g) \in SUBSET At(E, g)
    BY <1>2, <1>3
  <1>5. Clean(F)
    BY <1>1, <1>2, <1>3 DEF Clean
  <1>6. Sole(F)
    <2> SUFFICES ASSUME NEW y \in Cells, F[y].perm = "rw" PROVE At(F, F[y].frame) = {y}
      BY DEF Sole
    <2>1. y # x /\ F[y] = E[y]
      BY <1>2, <1>3
    <2>2. At(E, E[y].frame) = {y}
      BY <1>1, <2>1 DEF Sole
    <2>3. E[y].frame # None
      BY <1>1, <1>2, <2>1 DEF Clean
    <2> QED
      BY <1>3, <2>1, <2>2, <2>3
  <1>7. Balanced(F, ref, c)
    <2> SUFFICES ASSUME NEW g \in Frames PROVE Cardinality(At(F, g)) <= ref[g]
      BY DEF Balanced
    <2>1. Cardinality(At(F, g)) <= Cardinality(At(E, g))
      BY <1>4, AtFinite, FS_Subset
    <2>2. Cardinality(At(E, g)) <= ref[g] /\ ref[g] \in Int
      BY <1>1 DEF Balanced
    <2>3. Cardinality(At(F, g)) \in Nat /\ Cardinality(At(E, g)) \in Nat
      BY AtFinite
    <2> QED
      BY <2>1, <2>2, <2>3
  <1>8. Within(F, n)
    <2>1. Held(F) \in SUBSET Held(E)
      BY <1>4 DEF Held
    <2>2. Cardinality(Held(F)) <= Cardinality(Held(E))
      BY <2>1, AtFinite, FS_Subset
    <2> QED
      BY <1>1, <2>2, AtFinite, VmAssumption DEF Within
  <1> QED
    BY <1>3, <1>5, <1>6, <1>7, <1>8 DEF Books

(* Pages may get lost.                                                     *)
LEMMA FewerBooks ==
  ASSUME NEW E, NEW ref, NEW fr, NEW n, NEW c, Books(E, ref, fr, n, c),
         NEW m \in Int, m <= n
  PROVE  Books(E, ref, fr, m, c)
  <1>1. n \in Int /\ Within(E, n) /\ Cardinality(Held(E)) \in Nat /\ NPages \in Int
    BY AtFinite, VmAssumption DEF Books
  <1>2. Within(E, m)
    BY <1>1 DEF Within
  <1> QED
    BY <1>2 DEF Books
-----------------------------------------------------------------------------
(* What the functions do to the books.                                     *)
Purse(s) == s.left + Spent(s)
Good(s) == Books(EntryOf(s), s.ref, s.free, Purse(s), s.cow)
IncRef(s, f) == [s EXCEPT !.ref[f] = @ + 1]

LEMMA IncType ==
  ASSUME NEW s \in States, NEW f \in Frames, NEW t, t = IncRef(s, f)
  PROVE  /\ t \in States /\ t.mm = s.mm /\ t.cow = s.cow /\ t.panic = s.panic
         /\ t.data = s.data /\ t.page = s.page /\ t.free = s.free /\ t.left = s.left
         /\ t.ref = PutAt(s.ref, f, s.ref[f] + 1)
  <1>1. PICK r : r = s.ref
    OBVIOUS
  <1>2. r \in [Frames -> Int]
    BY <1>1 DEF States
  <1>3. PICK q : q = PutAt(r, f, r[f] + 1)
    OBVIOUS
  <1>4. q \in [Frames -> Int]
    <2>1. r[f] + 1 \in Int
      BY <1>2
    <2> QED
      BY <1>2, <1>3, <2>1, PutType DEF PutAt
  <1>5. t = [s EXCEPT !.ref = q]
    BY <1>1, <1>3, Zenon DEF IncRef, PutAt
  <1> QED
    BY <1>1, <1>3, <1>4, <1>5 DEF States

LEMMA DecVal ==
  ASSUME NEW s \in States, NEW f \in Frames, NEW t, t = page_ref_dec(s, f)
  PROVE  /\ s.ref[f] = 1 => /\ t.ref = PutAt(s.ref, f, 0) /\ t.free = s.free \cup {f}
                            /\ t.left = s.left + 1
         /\ s.ref[f] # 1 => /\ t.ref = PutAt(s.ref, f, s.ref[f] - 1) /\ t.free = s.free
                            /\ t.left = s.left
  <1>1. PICK r : r = s.ref
    OBVIOUS
  <1>2. CASE r[f] = 1
    <2>1. PICK q : q = PutAt(r, f, 0)
      OBVIOUS
    <2>2. PICK l, u : l = s.left + 1 /\ u = s.free \cup {f}
      OBVIOUS
    <2>3. t = [s EXCEPT !.left = l, !.free = u, !.ref = q]
      BY <1>1, <1>2, <2>1, <2>2 DEF page_ref_dec, PutAt
    <2> QED
      BY <1>1, <1>2, <2>1, <2>2, <2>3 DEF States
  <1>3. CASE r[f] # 1
    <2>1. PICK q : q = PutAt(r, f, r[f] - 1)
      OBVIOUS
    <2>2. t = [s EXCEPT !.ref = q]
      BY <1>1, <1>3, <2>1 DEF page_ref_dec, PutAt
    <2> QED
      BY <1>1, <1>3, <2>1, <2>2 DEF States
  <1> QED
    BY <1>1, <1>2, <1>3

(* An entry as the books have it.                                          *)
LEMMA EntryAt ==
  ASSUME NEW p \in Procs, NEW s \in With(p), NEW page \in Pages
  PROVE  <<p, page>> \in Cells /\ EntryOf(s)[<<p, page>>] = s.mm[p].pte[page]
  <1>1. s.mm[p] # NoMm
    BY MmTypes DEF With
  <1> QED
    BY <1>1 DEF Cells, EntryOf

LEMMA RemoveVal ==
  ASSUME NEW p \in Procs, NEW s \in With(p), NEW page \in Pages, NEW f \in Frames,
         f = s.mm[p].pte[page].frame, NEW t, t = page_remove_pte(s, p, page)
  PROVE  /\ EntryOf(t) = PutAt(EntryOf(s), <<p, page>>, NoPTE)
         /\ s.ref[f] = 1 => /\ t.ref = PutAt(s.ref, f, 0) /\ t.free = s.free \cup {f}
                            /\ Purse(t) = Purse(s) + 1
         /\ s.ref[f] # 1 => /\ t.ref = PutAt(s.ref, f, s.ref[f] - 1) /\ t.free = s.free
                            /\ Purse(t) = Purse(s)
  <1>1. /\ Only(p, s, t) /\ SameTables(p, s, t)
        /\ t.mm[p].pte = PutAt(s.mm[p].pte, page, NoPTE)
    BY RemoveType
  <1>2. EntryOf(t) = PutAt(EntryOf(s), <<p, page>>, NoPTE) /\ Spent(t) = Spent(s)
    BY <1>1, ViewPut, ViewTables
  <1>3. PICK a : a = page_ref_dec(s, f)
    OBVIOUS
  <1>4. s \in States
    BY MmTypes
  <1>5. a \in With(p)
    BY <1>3, <1>4, DecType DEF With
  <1>6. t = [a EXCEPT !.mm[p].pte[page] = NoPTE]
    BY <1>3, Zenon DEF page_remove_pte
  <1>7. t.left = a.left /\ t.free = a.free /\ t.ref = a.ref
    BY <1>5, <1>6, SetPteType, EntryTypes DEF SamePages
  <1>8. s.left \in Int /\ Spent(s) \in Nat
    BY <1>4, SpentSets DEF States
  <1> QED
    <2>1. /\ s.ref[f] = 1 => /\ a.ref = PutAt(s.ref, f, 0) /\ a.free = s.free \cup {f}
                             /\ a.left = s.left + 1
          /\ s.ref[f] # 1 => /\ a.ref = PutAt(s.ref, f, s.ref[f] - 1) /\ a.free = s.free
                             /\ a.left = s.left
      BY <1>3, <1>4, DecVal
    <2> QED
      BY <1>2, <1>7, <1>8, <2>1 DEF Purse

LEMMA RemoveGood ==
  ASSUME NEW p \in Procs, NEW s \in With(p), NEW page \in Pages, Good(s),
         s.mm[p].pte[page] # NoPTE, NEW t, t = page_remove_pte(s, p, page)
  PROVE  Good(t)
  <1>1. PICK E, n : E = EntryOf(s) /\ n = Purse(s)
    OBVIOUS
  <1>2. Books(E, s.ref, s.free, n, s.cow)
    BY <1>1 DEF Good
  <1>3. PICK f : f = s.mm[p].pte[page].frame
    OBVIOUS
  <1>4. PICK x : x = <<p, page>>
    OBVIOUS
  <1>5. x \in Cells /\ E[x] = s.mm[p].pte[page] /\ E[x].frame = f
    BY <1>1, <1>3, <1>4, EntryAt
  <1>6. f # None
    BY <1>2, <1>5 DEF Books, Clean
  <1>7. f \in Frames
    BY <1>3, <1>6, PteType
  <1>8. PICK F : F = PutAt(E, x, NoPTE)
    OBVIOUS
  <1>9. PICK ref : ref = s.ref
    OBVIOUS
  <1>10. /\ ref[f] = 1 => Books(F, PutAt(ref, f, 0), s.free \cup {f}, n + 1, s.cow)
         /\ ref[f] # 1 => Books(F, PutAt(ref, f, ref[f] - 1), s.free, n, s.cow)
    BY <1>2, <1>5, <1>7, <1>8, <1>9, DropBooks
  <1>11. /\ EntryOf(t) = F
         /\ ref[f] = 1 => /\ t.ref = PutAt(ref, f, 0) /\ t.free = s.free \cup {f}
                          /\ Purse(t) = n + 1
         /\ ref[f] # 1 => /\ t.ref = PutAt(ref, f, ref[f] - 1) /\ t.free = s.free
                          /\ Purse(t) = n
    BY <1>1, <1>3, <1>4, <1>7, <1>8, <1>9, RemoveVal
  <1>12. t.cow = s.cow
    BY RemoveType DEF Only
  <1> QED
    BY <1>10, <1>11, <1>12 DEF Good

(* page_insert never gives back less than it took, whatever it finds.  It  *)
(* is for a page that alloc_page has returned, whose books are those from  *)
(* before alloc_page, or for one that others read.                         *)
LEMMA InsertType ==
  ASSUME NEW p \in Procs, NEW s \in With(p), NEW page \in Pages, NEW f \in Frames,
         NEW perm \in Perms, NEW t, t = page_insert(s, p, page, f, perm)
  PROVE  /\ Only(p, s, t) /\ SameAreas(p, s, t)
         /\ ~t.panic => t.mm[p].pte = PutAt(s.mm[p].pte, page, PTE(f, perm))
         /\ t.data = s.data
  <1> DEFINE g == get_pte(s, p, page)
             old == g.mm[p].pte[page].frame
             inc == [g EXCEPT !.ref[f] = @ + 1]
             dec == CASE old = None -> inc
                      [] old = f -> page_ref_dec(inc, f)
                      [] OTHER -> page_remove_pte(inc, p, page)
             e == PTE(f, perm)
             u == [dec EXCEPT !.mm[p].pte[page] = e]
  <1>1. t = IF g.panic THEN g ELSE u
    BY DEF page_insert
  <1>2. g = get_pte(s, p, page)
    OBVIOUS
  <1>3. inc = IncRef(g, f)
    BY DEF IncRef
  <1>4. old = g.mm[p].pte[page].frame
    OBVIOUS
  <1>5. /\ old = None => dec = inc
        /\ old # None /\ old = f => dec = page_ref_dec(inc, f)
        /\ old # None /\ old # f => dec = page_remove_pte(inc, p, page)
    <2>1. f # None
      BY EntryTypes
    <2> HIDE DEF old, inc
    <2> QED
      BY <2>1
  <1>6. e = PTE(f, perm)
    OBVIOUS
  <1>7. u = [dec EXCEPT !.mm[p].pte[page] = e]
    OBVIOUS
  <1> HIDE DEF g, old, inc, dec, e, u
  <1>8. /\ Only(p, s, g) /\ SameAreas(p, s, g) /\ SamePages(s, g) /\ g \in With(p)
        /\ g.mm[p].pte = s.mm[p].pte
    BY <1>2, GetPteType DEF Only
  <1>9. /\ inc \in With(p) /\ inc.mm = g.mm /\ Only(p, g, inc) /\ inc.data = g.data
        /\ inc.panic = g.panic
    BY <1>8, <1>3, IncType, MmTypes DEF With, Only
  <1>10. /\ Only(p, inc, dec) /\ SameAreas(p, inc, dec) /\ dec.data = inc.data
         /\ \/ dec.mm[p].pte = inc.mm[p].pte
            \/ dec.mm[p].pte = PutAt(inc.mm[p].pte, page, NoPTE)
         /\ dec.panic = inc.panic
    <2>1. CASE old = None
      <3>1. dec = inc
        BY <1>5, <2>1
      <3> QED
        BY <1>9, <3>1 DEF Only, SameAreas
    <2>2. CASE old # None /\ old = f
      <3>1. dec = page_ref_dec(inc, f)
        BY <1>5, <2>2
      <3>2. inc \in States
        BY <1>9, MmTypes
      <3>3. /\ dec \in States /\ dec.mm = inc.mm /\ dec.cow = inc.cow
            /\ dec.panic = inc.panic /\ dec.data = inc.data
        BY <3>1, <3>2, DecType
      <3> QED
        BY <1>9, <3>3 DEF With, Only, SameAreas
    <2>3. CASE old # None /\ old # f
      <3>1. dec = page_remove_pte(inc, p, page)
        BY <1>5, <2>3
      <3> QED
        BY <1>9, <3>1, RemoveType
    <2> QED
      BY <2>1, <2>2, <2>3
  <1>11. dec \in With(p) /\ e \in Entry
    <2>1. dec \in With(p)
      BY <1>10 DEF Only
    <2> QED
      BY <1>6, <2>1, EntryTypes
  <1>12. /\ Only(p, dec, u) /\ SameAreas(p, dec, u) /\ u.panic = dec.panic
         /\ u.mm[p].pte = PutAt(dec.mm[p].pte, page, e) /\ u.data = dec.data
    BY <1>7, <1>11, SetPteType DEF SamePages
  <1>13. Only(p, s, u) /\ SameAreas(p, s, u) /\ u.data = s.data
    <2>1. Only(p, s, inc) /\ SameAreas(p, s, inc) /\ inc.data = s.data
      BY <1>8, <1>9, OnlyTwice DEF SameAreas, SamePages
    <2>2. Only(p, s, dec) /\ SameAreas(p, s, dec) /\ dec.data = s.data
      BY <1>10, <2>1, OnlyTwice DEF SameAreas
    <2> QED
      BY <1>12, <2>2, OnlyTwice DEF SameAreas
  <1>14. u.mm[p].pte = PutAt(s.mm[p].pte, page, e)
    <2>1. PICK r : r = s.mm[p].pte
      OBVIOUS
    <2>2. r \in [Pages -> Entry]
      BY <2>1 DEF With, FullMm
    <2>3. PutAt(PutAt(r, page, NoPTE), page, e) = PutAt(r, page, e)
      BY <2>2 DEF PutAt
    <2> QED
      BY <1>8, <1>9, <1>10, <1>12, <2>1, <2>3
  <1> QED
    BY <1>8, <1>6, <1>1, <1>13, <1>14 DEF SamePages

LEMMA InsertGood ==
  ASSUME NEW p \in Procs, NEW s \in With(p), NEW page \in Pages, NEW f \in Frames,
         NEW perm \in Perms, NEW t, t = page_insert(s, p, page, f, perm), ~t.panic,
         NEW E, E = EntryOf(s), NEW fr, NEW n, Books(E, s.ref, fr, n, s.cow),
         s.free = fr \ {f}, Purse(s) = IF f \in fr THEN n - 1 ELSE n,
         Insertable(E, <<p, page>>, f, perm, fr)
  PROVE  Good(t) /\ EntryOf(t) = PutAt(E, <<p, page>>, PTE(f, perm))
  <1> DEFINE g == get_pte(s, p, page)
             old == g.mm[p].pte[page].frame
             inc == [g EXCEPT !.ref[f] = @ + 1]
             dec == CASE old = None -> inc
                      [] old = f -> page_ref_dec(inc, f)
                      [] OTHER -> page_remove_pte(inc, p, page)
             e == PTE(f, perm)
             u == [dec EXCEPT !.mm[p].pte[page] = e]
  <1>1. t = IF g.panic THEN g ELSE u
    BY DEF page_insert
  <1>2. g = get_pte(s, p, page)
    OBVIOUS
  <1>3. inc = IncRef(g, f)
    BY DEF IncRef
  <1>4. old = g.mm[p].pte[page].frame
    OBVIOUS
  <1>5. /\ old = None => dec = inc
        /\ old # None /\ old = f => dec = page_ref_dec(inc, f)
        /\ old # None /\ old # f => dec = page_remove_pte(inc, p, page)
    <2>1. f # None
      BY EntryTypes
    <2> HIDE DEF old, inc
    <2> QED
      BY <2>1
  <1>6. e = PTE(f, perm)
    OBVIOUS
  <1>7. u = [dec EXCEPT !.mm[p].pte[page] = e]
    OBVIOUS
  <1> HIDE DEF g, old, inc, dec, e, u
  <1>8. t = u /\ ~g.panic
    BY <1>1
  <1>9. /\ g \in With(p) /\ Only(p, s, g) /\ g.mm[p].pte = s.mm[p].pte
        /\ g.free = s.free /\ g.ref = s.ref /\ g.cow = s.cow /\ Purse(g) = Purse(s)
    BY <1>2, <1>8, GetPteType DEF Only, SamePages, Purse
  <1>10. /\ inc \in With(p) /\ inc.mm = g.mm /\ inc.free = g.free /\ inc.left = g.left
         /\ inc.ref = PutAt(g.ref, f, g.ref[f] + 1) /\ inc.cow = g.cow
    BY <1>3, <1>9, IncType, MmTypes DEF With
  <1>11. PICK ref : ref = s.ref
    OBVIOUS
  <1>12. Books(E, ref, fr, n, s.cow) /\ ref \in [Frames -> Int]
    BY <1>11 DEF Books
  <1>13. EntryOf(inc) = E /\ Purse(inc) = Purse(s) /\ inc.ref = PutAt(ref, f, ref[f] + 1)
         /\ inc.free = s.free /\ inc.cow = s.cow
    <2>1. EntryOf(g) = E
      BY <1>9, ViewEntries
    <2>2. EntryOf(inc) = EntryOf(g) /\ Spent(inc) = Spent(g)
      BY <1>10, ViewSame
    <2> QED
      BY <1>9, <1>10, <1>11, <2>1, <2>2 DEF Purse
  <1>14. PICK x : x = <<p, page>>
    OBVIOUS
  <1>15. x \in Cells /\ E[x] = inc.mm[p].pte[page] /\ old = E[x].frame
    BY <1>4, <1>10, <1>13, <1>14, EntryAt
  <1>16. old \in Frames \cup {None} /\ e \in Entry /\ e.frame = f /\ f # None /\ e.perm = perm
    <2>1. old \in Frames \cup {None}
      BY <1>4, <1>9, PteType
    <2> QED
      BY <1>6, <2>1, EntryTypes
  <1>17. dec \in With(p) => /\ EntryOf(t) = PutAt(EntryOf(dec), x, e) /\ t.ref = dec.ref
                            /\ t.free = dec.free /\ Purse(t) = Purse(dec) /\ t.cow = dec.cow
    <2> SUFFICES ASSUME dec \in With(p)
                 PROVE  /\ EntryOf(t) = PutAt(EntryOf(dec), x, e) /\ t.ref = dec.ref
                        /\ t.free = dec.free /\ Purse(t) = Purse(dec) /\ t.cow = dec.cow
      OBVIOUS
    <2>1. /\ Only(p, dec, t) /\ SameTables(p, dec, t) /\ SamePages(dec, t)
          /\ t.mm[p].pte = PutAt(dec.mm[p].pte, page, e) /\ t.left = dec.left
      BY <1>7, <1>8, <1>16, SetPteType
    <2>2. EntryOf(t) = PutAt(EntryOf(dec), x, e) /\ Spent(t) = Spent(dec)
      BY <1>14, <2>1, ViewPut, ViewTables
    <2> QED
      BY <2>1, <2>2 DEF Only, SamePages, Purse
  <1>18. PICK m : m = IF f \in fr THEN n - 1 ELSE n
    OBVIOUS
  <1>19. CASE old = None
    <2>1. dec = inc
      BY <1>5, <1>19
    <2>2. E[x] = NoPTE
      BY <1>12, <1>15, <1>19 DEF Books, Clean
    <2>3. Books(PutAt(E, x, e), PutAt(ref, f, ref[f] + 1), fr \ {f}, m, s.cow)
      <3>1. PICK F : F = PutAt(E, x, PTE(f, perm))
        OBVIOUS
      <3>2. Books(F, PutAt(ref, f, ref[f] + 1), fr \ {f}, m, s.cow)
        BY <1>12, <1>14, <1>15, <1>18, <2>2, <3>1, MapBooks
      <3> QED
        BY <1>6, <3>1, <3>2
    <2> QED
      BY <1>6, <1>10, <1>13, <1>14, <1>17, <1>18, <2>1, <2>3 DEF Good
  <1>20. CASE old = f
    <2>1. dec = page_ref_dec(inc, f)
      BY <1>5, <1>16, <1>20
    <2>2. ref[f] >= 1 /\ ref[f] \in Int
      BY <1>12, <1>15, <1>20, DropBooks
    <2>3. inc \in States /\ inc.ref[f] = ref[f] + 1
      BY <1>10, <1>12, <1>13, MmTypes DEF PutAt
    <2>4. /\ dec.ref = PutAt(inc.ref, f, inc.ref[f] - 1) /\ dec.free = inc.free
          /\ dec.left = inc.left /\ dec.mm = inc.mm /\ dec.cow = inc.cow /\ dec \in States
      BY <2>1, <2>2, <2>3, DecVal, DecType
    <2>5. dec.ref = ref
      <3>1. PutAt(PutAt(ref, f, ref[f] + 1), f, ref[f]) = ref
        BY <1>12 DEF PutAt
      <3>2. inc.ref[f] - 1 = ref[f]
        BY <2>2, <2>3
      <3> QED
        BY <1>13, <2>4, <3>1, <3>2
    <2>6. dec \in With(p) /\ EntryOf(dec) = E /\ Purse(dec) = Purse(s)
      <3>1. EntryOf(dec) = EntryOf(inc) /\ Spent(dec) = Spent(inc)
        BY <2>4, ViewSame
      <3> QED
        BY <1>10, <1>13, <2>4, <3>1 DEF With, Purse
    <2>7. f \notin fr
      BY <1>12, <2>2 DEF Books
    <2>8. Books(PutAt(E, x, e), ref, fr, n, s.cow)
      <3>1. perm # "rw"
        BY <2>7 DEF Insertable
      <3> QED
        BY <1>12, <1>15, <1>16, <1>20, <3>1, SoftenBooks
    <2>9. s.free = fr /\ Purse(s) = n
      BY <2>7
    <2> QED
      BY <1>6, <1>13, <1>14, <1>17, <2>4, <2>5, <2>6, <2>8, <2>9 DEF Good
  <1>21. CASE old # None /\ old # f
    <2>1. dec = page_remove_pte(inc, p, page) /\ old \in Frames
      BY <1>5, <1>16, <1>21
    <2>2. old = inc.mm[p].pte[page].frame
      BY <1>15
    <2>3. dec \in With(p) /\ dec.cow = s.cow
      BY <1>10, <1>13, <2>1, RemoveType DEF Only
    <2>4. PICK F : F = PutAt(E, x, NoPTE)
      OBVIOUS
    <2>5. /\ EntryOf(dec) = F
          /\ inc.ref[old] = 1 => /\ dec.ref = PutAt(inc.ref, old, 0)
                                 /\ dec.free = inc.free \cup {old} /\ Purse(dec) = Purse(inc) + 1
          /\ inc.ref[old] # 1 => /\ dec.ref = PutAt(inc.ref, old, inc.ref[old] - 1)
                                 /\ dec.free = inc.free /\ Purse(dec) = Purse(inc)
      BY <1>10, <1>13, <1>14, <2>1, <2>2, <2>4, RemoveVal
    <2>6. inc.ref[old] = ref[old]
      BY <1>12, <1>13, <1>21, <2>1 DEF PutAt
    <2>7. F \in [Cells -> Entry] /\ F[x] = NoPTE /\ PutAt(F, x, e) = PutAt(E, x, e)
          /\ At(F, f) = At(E, f) /\ \A y \in At(E, f) : F[y] = E[y]
      <3>1. E \in [Cells -> Entry] /\ NoPTE \in Entry /\ NoPTE.frame = None
        BY <1>12, EntryTypes DEF Books
      <3>2. /\ F \in [Cells -> Entry] /\ F[x] = NoPTE /\ \A y \in Cells \ {x} : F[y] = E[y]
            /\ At(F, f) = At(E, f)
        BY <1>15, <1>16, <1>21, <2>4, <3>1, AtPut
      <3>3. PutAt(F, x, e) = PutAt(E, x, e)
        BY <2>4, <3>1 DEF PutAt
      <3>4. \A y \in At(E, f) : y \in Cells \ {x}
        BY <1>15, <1>21 DEF At
      <3> QED
        BY <3>2, <3>3, <3>4
    <2>8. PICK r, h, k : /\ r = IF ref[old] = 1 THEN PutAt(ref, old, 0)
                                ELSE PutAt(ref, old, ref[old] - 1)
                         /\ h = IF ref[old] = 1 THEN fr \cup {old} ELSE fr
                         /\ k = IF ref[old] = 1 THEN n + 1 ELSE n
      OBVIOUS
    <2>9. Books(F, r, h, k, s.cow)
      <3>1. /\ ref[old] = 1 => Books(F, PutAt(ref, old, 0), fr \cup {old}, n + 1, s.cow)
            /\ ref[old] # 1 => Books(F, PutAt(ref, old, ref[old] - 1), fr, n, s.cow)
        BY <1>12, <1>15, <2>1, <2>4, DropBooks
      <3> QED
        BY <2>8, <3>1
    <2>10. f \in h <=> f \in fr
      BY <1>21, <2>8
    <2>11. PICK j : j = IF f \in h THEN k - 1 ELSE k
      OBVIOUS
    <2>12. Books(PutAt(F, x, e), PutAt(r, f, r[f] + 1), h \ {f}, j, s.cow)
      <3>1. Insertable(F, x, f, perm, h)
        BY <1>14, <2>7, <2>10 DEF Insertable
      <3>2. PICK G : G = PutAt(F, x, PTE(f, perm))
        OBVIOUS
      <3>3. Books(G, PutAt(r, f, r[f] + 1), h \ {f}, j, s.cow)
        BY <1>15, <2>7, <2>9, <2>11, <3>1, <3>2, MapBooks
      <3> QED
        BY <1>6, <3>2, <3>3
    <2>13. dec.ref = PutAt(r, f, r[f] + 1)
      <3>1. \A v : PutAt(PutAt(ref, f, ref[f] + 1), old, v)
                   = PutAt(PutAt(ref, old, v), f, ref[f] + 1)
        BY <1>12, <1>21 DEF PutAt
      <3>2. \A v : PutAt(ref, old, v)[f] = ref[f]
        BY <1>12, <1>21 DEF PutAt
      <3> QED
        BY <1>13, <2>5, <2>6, <2>8, <3>1, <3>2
    <2>14. dec.free = h \ {f}
      BY <1>13, <1>21, <2>5, <2>6, <2>8
    <2>15. Purse(dec) = j
      <3>1. n \in Int
        BY <1>12 DEF Books
      <3> QED
        BY <1>13, <2>5, <2>6, <2>8, <2>10, <2>11, <3>1
    <2> QED
      BY <1>6, <1>14, <1>17, <2>3, <2>5, <2>7, <2>12, <2>13, <2>14, <2>15 DEF Good
  <1> QED
    BY <1>19, <1>20, <1>21

(* pgdir_alloc_page: a page that was free, with v in it.                   *)
LEMMA AllocPageGood ==
  ASSUME NEW p \in Procs, NEW s \in With(p), NEW page \in Pages, NEW perm \in Perms,
         NEW v \in Values, s.panic \/ Good(s), NEW t, t = pgdir_alloc_page(s, p, page, perm, v)
  PROVE  /\ Only(p, s, t) /\ SameAreas(p, s, t)
         /\ ~t.panic =>
              /\ Good(t) /\ Good(s)
              /\ \E f \in s.free \cap Frames :
                   /\ t.mm[p].pte = PutAt(s.mm[p].pte, page, PTE(f, perm))
                   /\ t.data = PutAt(s.data, f, v)
  <1>1. PICK a : a = alloc_page(s)
    OBVIOUS
  <1>2. s \in States
    BY MmTypes
  <1>3. /\ a \in States /\ a.mm = s.mm /\ a.cow = s.cow /\ a.ref = s.ref /\ a.data = s.data
        /\ s.panic => a.panic
        /\ ~a.panic => /\ a.page \in s.free /\ a.free = s.free \ {a.page}
                       /\ a.left = s.left - 1
    BY <1>1, <1>2, AllocType
  <1>4. Only(p, s, a) /\ SameAreas(p, s, a) /\ a \in With(p)
    BY <1>3 DEF Only, SameAreas, With
  <1>5. CASE a.panic
    <2>1. t = a
      BY <1>1, <1>5 DEF pgdir_alloc_page
    <2> QED
      BY <1>4, <1>5, <2>1
  <1>6. CASE ~a.panic
    <2>1. PICK f : f = a.page
      OBVIOUS
    <2>2. PICK i : i = page_insert(a, p, page, f, perm)
      OBVIOUS
    <2>3. Good(s)
      BY <1>3, <1>6
    <2>4. PICK E, n : E = EntryOf(s) /\ n = Purse(s)
      OBVIOUS
    <2>5. Books(E, s.ref, s.free, n, s.cow)
      BY <2>3, <2>4 DEF Good
    <2>6. f \in Frames /\ f \in s.free
      BY <1>3, <1>6, <2>1, <2>5 DEF Books
    <2>7. /\ Only(p, a, i) /\ SameAreas(p, a, i) /\ i.data = a.data
          /\ ~i.panic => i.mm[p].pte = PutAt(a.mm[p].pte, page, PTE(f, perm))
      BY <1>4, <2>2, <2>6, InsertType
    <2>8. EntryOf(a) = E /\ Spent(a) = Spent(s)
      BY <1>3, <2>4, ViewSame
    <2>9. Purse(a) = n - 1
      <3>1. s.left \in Int /\ Spent(s) \in Nat
        BY <1>2, SpentSets DEF States
      <3> QED
        BY <1>3, <1>6, <2>4, <2>8, <3>1 DEF Purse
    <2>10. ~i.panic => Good(i)
      <3>1. Insertable(E, <<p, page>>, f, perm, s.free)
        BY <2>6 DEF Insertable
      <3>2. Books(E, a.ref, s.free, n, a.cow) /\ a.free = s.free \ {f}
        BY <1>3, <1>6, <2>1, <2>5
      <3>3. Purse(a) = IF f \in s.free THEN n - 1 ELSE n
        BY <2>6, <2>9
      <3>4. E = EntryOf(a)
        BY <2>8
      <3> QED
        BY <1>4, <2>2, <2>6, <3>1, <3>2, <3>3, <3>4, InsertGood
    <2>11. PICK d, q : d = i.data /\ q = PutAt(d, f, v)
      OBVIOUS
    <2>12. d \in [Frames -> Values] /\ q \in [Frames -> Values] /\ i \in States
      <3>1. i \in States
        BY <2>7, MmTypes DEF Only
      <3>2. d \in [Frames -> Values]
        BY <2>11, <3>1 DEF States
      <3> QED
        BY <2>11, <3>1, <3>2, PutType DEF PutAt
    <2>13. t = [i EXCEPT !.page = f, !.data = q]
      <3>1. t = [i EXCEPT !.page = f, !.data[f] = v]
        BY <1>1, <1>6, <2>1, <2>2, Zenon DEF pgdir_alloc_page
      <3> QED
        BY <2>11, <2>12, <3>1 DEF PutAt
    <2>14. /\ t \in States /\ t.mm = i.mm /\ t.cow = i.cow /\ t.panic = i.panic /\ t.data = q
           /\ t.ref = i.ref /\ t.free = i.free /\ t.left = i.left
      BY <2>6, <2>12, <2>13 DEF States
    <2>15. Only(p, i, t) /\ SameAreas(p, i, t)
      BY <2>7, <2>14 DEF Only, SameAreas, With
    <2>16. Only(p, s, t) /\ SameAreas(p, s, t)
      <3>1. Only(p, s, i) /\ SameAreas(p, s, i)
        BY <1>4, <2>7, OnlyTwice DEF SameAreas
      <3> QED
        BY <2>15, <3>1, OnlyTwice DEF SameAreas
    <2>17. ASSUME ~t.panic PROVE Good(t)
      <3>1. EntryOf(t) = EntryOf(i) /\ Spent(t) = Spent(i)
        BY <2>14, ViewSame
      <3>2. Good(i)
        BY <2>10, <2>14, <2>17
      <3> QED
        BY <2>14, <3>1, <3>2 DEF Good, Purse
    <2>18. ASSUME ~t.panic PROVE /\ t.mm[p].pte = PutAt(s.mm[p].pte, page, PTE(f, perm))
                                 /\ t.data = PutAt(s.data, f, v)
      BY <1>3, <2>7, <2>11, <2>14, <2>18
    <2> QED
      BY <2>3, <2>6, <2>16, <2>17, <2>18
  <1> QED
    BY <1>5, <1>6

(* An address space with nothing in it.                                    *)
EmptyMm == [areas |-> <<>>, pd |-> [d \in PDs |-> FALSE], pt |-> [t \in PTs |-> FALSE],
            pte |-> [page \in Pages |-> NoPTE]]

LEMMA EmptyMmType ==
  EmptyMm \in FullMm
  <1>1. NoPTE \in Entry /\ <<>> \in Seq(Areas)
    BY EntryTypes
  <1> QED
    BY <1>1 DEF EmptyMm, FullMm

LEMMA SetupGood ==
  ASSUME NEW p \in Procs, NEW s \in States, s.mm[p] = NoMm, NEW t, t = setup_pgdir(s, p)
  PROVE  /\ t \in With(p) /\ t.cow = s.cow /\ (s.panic => t.panic) /\ t.data = s.data
         /\ \A q \in Procs \ {p} : t.mm[q] = s.mm[q]
         /\ t.mm[p] = EmptyMm /\ EntryOf(t) = EntryOf(s)
         /\ ~t.panic /\ Good(s) => Good(t)
  <1>1. PICK a : a = take_page(s)
    OBVIOUS
  <1>2. /\ a \in States /\ a.mm = s.mm /\ a.ref = s.ref /\ a.free = s.free
        /\ a.cow = s.cow /\ a.data = s.data
        /\ (s.panic => a.panic) /\ (~a.panic => a.left = s.left - 1)
    BY <1>1, TakeType
  <1>3. t = SetMm(a, p, EmptyMm)
    BY <1>1 DEF setup_pgdir, SetMm, EmptyMm
  <1>4. /\ t \in States /\ t.mm[p] = EmptyMm /\ \A q \in Procs \ {p} : t.mm[q] = a.mm[q]
        /\ t.left = a.left /\ t.free = a.free /\ t.ref = a.ref /\ t.data = a.data
        /\ t.panic = a.panic /\ t.cow = a.cow
    <2>1. EmptyMm \in FullMm \cup {NoMm}
      BY EmptyMmType
    <2> QED
      BY <1>2, <1>3, <2>1, SetMmType
  <1>5. t \in With(p) /\ EmptyMm # NoMm
    BY <1>4, EmptyMmType, MmTypes DEF With
  <1>6. /\ EmptyMm.pte = [page \in Pages |-> NoPTE] /\ EmptyMm.pd = [d \in PDs |-> FALSE]
        /\ EmptyMm.pt = [d \in PTs |-> FALSE]
    BY DEF EmptyMm
  <1>7. PICK m : m = EmptyMm
    OBVIOUS
  <1>8. EntryOf(t) = EntryOf(s)
    <2>1. ASSUME NEW x \in Cells
          PROVE  (IF t.mm[x[1]] = NoMm THEN NoPTE ELSE t.mm[x[1]].pte[x[2]])
                 = (IF s.mm[x[1]] = NoMm THEN NoPTE ELSE s.mm[x[1]].pte[x[2]])
      <3>1. x[1] \in Procs /\ x[2] \in Pages
        BY DEF Cells
      <3>2. m.pte[x[2]] = NoPTE
        BY <1>6, <1>7, <3>1
      <3> QED
        BY <1>2, <1>4, <1>5, <1>7, <3>1, <3>2
    <2> QED
      BY <2>1 DEF EntryOf
  <1>9. PtsOf(t) = PtsOf(s)
    <2>1. ASSUME NEW x \in Procs \X PTs PROVE x \in PtsOf(t) <=> x \in PtsOf(s)
      <3>1. x[1] \in Procs /\ x[2] \in PTs
        OBVIOUS
      <3>2. ~m.pt[x[2]]
        BY <1>6, <1>7, <3>1
      <3> QED
        BY <1>2, <1>4, <1>5, <1>7, <3>1, <3>2 DEF PtsOf
    <2> QED
      BY <2>1 DEF PtsOf
  <1>10. PdsOf(t) = PdsOf(s)
    <2>1. ASSUME NEW x \in Procs \X PDs PROVE x \in PdsOf(t) <=> x \in PdsOf(s)
      <3>1. x[1] \in Procs /\ x[2] \in PDs
        OBVIOUS
      <3>2. ~m.pd[x[2]]
        BY <1>6, <1>7, <3>1
      <3> QED
        BY <1>2, <1>4, <1>5, <1>7, <3>1, <3>2 DEF PdsOf
    <2> QED
      BY <2>1 DEF PdsOf
  <1>11. UsersOf(t) = UsersOf(s) \cup {p} /\ p \notin UsersOf(s)
    BY <1>2, <1>4, <1>5 DEF UsersOf
  <1>12. IsFiniteSet(UsersOf(s)) /\ Cardinality(UsersOf(s)) \in Nat
         /\ Cardinality(PtsOf(s)) \in Nat /\ Cardinality(PdsOf(s)) \in Nat
    BY SpentSets
  <1>13. Cardinality(UsersOf(t)) = Cardinality(UsersOf(s)) + 1
    BY <1>11, <1>12, FS_AddElement
  <1>14. Spent(t) = Spent(s) + 1
    BY <1>9, <1>10, <1>12, <1>13 DEF Spent
  <1>15. ASSUME ~t.panic, Good(s) PROVE Good(t)
    <2>1. s.left \in Int /\ Spent(s) \in Nat
      BY SpentSets DEF States
    <2>2. Purse(t) = Purse(s)
      BY <1>2, <1>4, <1>14, <1>15, <2>1 DEF Purse
    <2> QED
      BY <1>2, <1>4, <1>8, <1>15, <2>2 DEF Good
  <1> QED
    BY <1>2, <1>4, <1>5, <1>8, <1>15

(* The end of an address space in which nothing is mapped.                 *)
LEMMA PutGood ==
  ASSUME NEW p \in Procs, NEW s \in With(p), Good(s),
         \A page \in Pages : s.mm[p].pte[page] = NoPTE, NEW t, t = put_pgdir(s, p)
  PROVE  /\ t \in States /\ t.cow = s.cow /\ t.panic = s.panic /\ t.data = s.data
         /\ \A q \in Procs \ {p} : t.mm[q] = s.mm[q]
         /\ t.mm[p] = NoMm /\ EntryOf(t) = EntryOf(s) /\ Good(t)
  <1>1. PICK a : a = [s EXCEPT !.left = @ + 1]
    OBVIOUS
  <1>2. s \in States
    BY MmTypes
  <1>3. /\ a \in States /\ a.mm = s.mm /\ a.ref = s.ref /\ a.free = s.free
        /\ a.cow = s.cow /\ a.data = s.data /\ a.panic = s.panic /\ a.left = s.left + 1
    BY <1>1, <1>2 DEF States
  <1>4. t = SetMm(a, p, NoMm)
    BY <1>1 DEF put_pgdir, SetMm
  <1>5. /\ t \in States /\ t.mm[p] = NoMm /\ \A q \in Procs \ {p} : t.mm[q] = a.mm[q]
        /\ t.left = a.left /\ t.free = a.free /\ t.ref = a.ref /\ t.data = a.data
        /\ t.panic = a.panic /\ t.cow = a.cow
    <2>1. NoMm \in FullMm \cup {NoMm}
      OBVIOUS
    <2> QED
      BY <1>3, <1>4, <2>1, SetMmType
  <1>6. s.mm[p] # NoMm
    BY MmTypes DEF With
  <1>7. EntryOf(t) = EntryOf(s)
    <2>1. ASSUME NEW x \in Cells
          PROVE  (IF t.mm[x[1]] = NoMm THEN NoPTE ELSE t.mm[x[1]].pte[x[2]])
                 = (IF s.mm[x[1]] = NoMm THEN NoPTE ELSE s.mm[x[1]].pte[x[2]])
      <3>1. x[1] \in Procs /\ x[2] \in Pages
        BY DEF Cells
      <3> QED
        BY <1>3, <1>5, <1>6, <3>1
    <2> QED
      BY <2>1 DEF EntryOf
  <1>8. PtsOf(t) \in SUBSET PtsOf(s) /\ PdsOf(t) \in SUBSET PdsOf(s)
    <2>1. \A q \in Procs : t.mm[q] = NoMm \/ t.mm[q] = s.mm[q]
      BY <1>3, <1>5
    <2> QED
      BY <2>1 DEF PtsOf, PdsOf
  <1>9. UsersOf(t) = UsersOf(s) \ {p} /\ p \in UsersOf(s)
    BY <1>3, <1>5, <1>6 DEF UsersOf
  <1>10. /\ Cardinality(PtsOf(t)) <= Cardinality(PtsOf(s))
         /\ Cardinality(PdsOf(t)) <= Cardinality(PdsOf(s))
    BY <1>8, SpentSets, FS_Subset
  <1>11. IsFiniteSet(UsersOf(s)) /\ Cardinality(UsersOf(s)) \in Nat
         /\ Cardinality(PtsOf(s)) \in Nat /\ Cardinality(PdsOf(s)) \in Nat
         /\ Cardinality(PtsOf(t)) \in Nat /\ Cardinality(PdsOf(t)) \in Nat
    BY SpentSets
  <1>12. Cardinality(UsersOf(t)) = Cardinality(UsersOf(s)) - 1
    BY <1>9, <1>11, FS_RemoveElement
  <1>13. Spent(t) <= Spent(s) - 1
    BY <1>10, <1>11, <1>12 DEF Spent
  <1>14. Good(t)
    <2>1. s.left \in Int /\ Spent(s) \in Nat /\ Spent(t) \in Nat
      BY <1>2, SpentSets DEF States
    <2>2. Purse(t) \in Int /\ Purse(t) <= Purse(s)
      BY <1>3, <1>5, <1>13, <2>1 DEF Purse
    <2>3. Books(EntryOf(s), s.ref, s.free, Purse(s), s.cow)
      BY DEF Good
    <2>4. Books(EntryOf(s), s.ref, s.free, Purse(t), s.cow)
      BY <2>2, <2>3, FewerBooks
    <2> QED
      BY <1>3, <1>5, <1>7, <2>4 DEF Good
  <1> QED
    BY <1>3, <1>5, <1>7, <1>14

(* mm_map, and what dup_mmap does first.                                   *)
PutAreas(s, p, areas) == [s EXCEPT !.mm[p].areas = areas]

LEMMA AreasGood ==
  ASSUME NEW p \in Procs, NEW s \in With(p), NEW areas \in Seq(Areas),
         NEW t, t = PutAreas(s, p, areas)
  PROVE  /\ Only(p, s, t) /\ t.mm[p].areas = areas /\ t.mm[p].pte = s.mm[p].pte
         /\ t.panic = s.panic /\ t.data = s.data
         /\ Good(s) => Good(t)
  <1>1. PICK m : m = s.mm[p]
    OBVIOUS
  <1>2. PICK w : w = [m EXCEPT !.areas = areas]
    OBVIOUS
  <1>3. m \in FullMm /\ s \in States
    BY <1>1 DEF With
  <1>4. w \in FullMm /\ w.areas = areas /\ w.pte = m.pte /\ w.pd = m.pd /\ w.pt = m.pt
    BY <1>2, <1>3 DEF FullMm
  <1>5. t = SetMm(s, p, w)
    BY <1>1, <1>2, Zenon DEF SetMm, PutAreas
  <1>6. Only(p, s, t)
    BY <1>4, <1>5, SetMmOnly
  <1>7. /\ t.mm[p] = w /\ t.left = s.left /\ t.panic = s.panic /\ t.free = s.free
        /\ t.ref = s.ref /\ t.data = s.data /\ t.cow = s.cow
    <2>1. w \in FullMm \cup {NoMm}
      BY <1>4
    <2> QED
      <3>1. s \in States
        BY <1>3
      <3>2. /\ SetMm(s, p, w).mm[p] = w /\ SetMm(s, p, w).left = s.left
            /\ SetMm(s, p, w).panic = s.panic /\ SetMm(s, p, w).free = s.free
            /\ SetMm(s, p, w).ref = s.ref /\ SetMm(s, p, w).data = s.data
            /\ SetMm(s, p, w).cow = s.cow
        BY <2>1, <3>1, SetMmType, Zenon
      <3> QED
        BY <1>5, <3>2
  <1>8. t.mm[p].pte = s.mm[p].pte /\ SameTables(p, s, t)
    BY <1>1, <1>4, <1>7 DEF SameTables
  <1>9. EntryOf(t) = EntryOf(s) /\ Spent(t) = Spent(s)
    BY <1>6, <1>8, ViewEntries, ViewTables
  <1> QED
    BY <1>4, <1>6, <1>7, <1>8, <1>9 DEF Good, Purse

(* exit_range: a directory entry and the empty tables under it.            *)
LEMMA FreeTablesGood ==
  ASSUME NEW p \in Procs, NEW s \in With(p), NEW area, NEW pd \in PDs, s.mm[p].pd[pd],
         NEW t, t = free_tables(s, p, area, pd)
  PROVE  /\ Only(p, s, t) /\ SameAreas(p, s, t) /\ t.mm[p].pte = s.mm[p].pte
         /\ t.panic = s.panic /\ t.data = s.data
         /\ Good(s) => Good(t)
  <1> DEFINE pts == {pt \in PTs : PD(pt) = pd /\ pt \in PT(area.start)..PT(area.end - 1)}
             valid == {pt \in pts : s.mm[p].pt[pt]}
             empty == {pt \in valid : \A page \in Mapped(s, p) : PT(page) # pt}
             freed == [s EXCEPT !.left = @ + Cardinality(empty),
                                !.mm[p].pt = [pt \in PTs |-> @[pt] /\ pt \notin empty]]
             both == [freed EXCEPT !.left = @ + 1, !.mm[p].pd[pd] = FALSE]
  <1>1. t = freed \/ t = both
    BY DEF free_tables
  <1>2. empty \in SUBSET {pt \in PTs : s.mm[p].pt[pt]}
    OBVIOUS
  <1>3. freed = [s EXCEPT !.left = @ + Cardinality(empty),
                          !.mm[p].pt = [pt \in PTs |-> @[pt] /\ pt \notin empty]]
    OBVIOUS
  <1>4. both = [freed EXCEPT !.left = @ + 1, !.mm[p].pd[pd] = FALSE]
    OBVIOUS
  <1> HIDE DEF freed, both, empty
  <1>5. PICK m, f, k : m = s.mm[p] /\ f = [pt \in PTs |-> m.pt[pt] /\ pt \notin empty]
                       /\ k = Cardinality(empty)
    OBVIOUS
  <1>6. m \in FullMm /\ s \in States /\ m.pd[pd] = TRUE
    BY <1>5 DEF With, FullMm
  <1>7. /\ IsFiniteSet(empty) /\ k \in Nat
    <2>1. empty \in SUBSET PTs
      BY <1>2
    <2> QED
      BY <1>5, <2>1, Sizes, FS_Subset, FS_CardinalityType
  <1>8. PICK w : w = [m EXCEPT !.pt = f]
    OBVIOUS
  <1>9. w \in FullMm /\ w.areas = m.areas /\ w.pte = m.pte /\ w.pd = m.pd /\ w.pt = f
    <2>1. f \in [PTs -> BOOLEAN]
      BY <1>5, <1>6 DEF FullMm
    <2> QED
      BY <1>6, <1>8, <2>1 DEF FullMm
  <1>10. PICK a : a = [s EXCEPT !.left = @ + k]
    OBVIOUS
  <1>11. /\ a \in States /\ a.mm = s.mm /\ a.ref = s.ref /\ a.free = s.free /\ a.page = s.page
         /\ a.cow = s.cow /\ a.data = s.data /\ a.panic = s.panic /\ a.left = s.left + k
    BY <1>6, <1>7, <1>10 DEF States
  <1>12. freed = SetMm(a, p, w)
    BY <1>3, <1>5, <1>8, <1>10, Zenon DEF SetMm
  <1>13. /\ freed \in States /\ freed.mm[p] = w
         /\ \A q \in Procs \ {p} : freed.mm[q] = a.mm[q]
         /\ freed.left = a.left /\ freed.panic = a.panic /\ freed.free = a.free
         /\ freed.ref = a.ref /\ freed.data = a.data /\ freed.cow = a.cow
    <2>1. w \in FullMm \cup {NoMm}
      BY <1>9
    <2> QED
      BY <1>11, <1>12, <2>1, SetMmType
  <1>14. Only(p, s, freed) /\ freed \in With(p)
    BY <1>9, <1>11, <1>13 DEF Only, With
  <1>15. /\ SameAreas(p, s, freed) /\ freed.mm[p].pte = s.mm[p].pte
         /\ freed.mm[p].pd = s.mm[p].pd
    BY <1>5, <1>9, <1>13 DEF SameAreas
  <1>16. EntryOf(freed) = EntryOf(s)
    BY <1>14, <1>15, ViewEntries
  <1>17. Spent(freed) = Spent(s) - k
    <2>1. PICK R : R = {p} \X empty
      OBVIOUS
    <2>2. R \subseteq PtsOf(s)
      BY <1>2, <2>1, MmTypes DEF PtsOf, With
    <2>3. PtsOf(freed) = PtsOf(s) \ R
      <3>1. ASSUME NEW x \in Procs \X PTs
            PROVE  x \in PtsOf(freed) <=> x \in PtsOf(s) /\ x \notin R
        <4>1. x[1] \in Procs /\ x[2] \in PTs /\ (x \in R <=> x[1] = p /\ x[2] \in empty)
          BY <2>1
        <4>2. s.mm[p] # NoMm /\ freed.mm[p] # NoMm
          BY <1>14, MmTypes DEF With
        <4>3. CASE x[1] = p
          <5>1. freed.mm[p].pt = f
            BY <1>9, <1>13
          <5>2. f[x[2]] <=> m.pt[x[2]] /\ x[2] \notin empty
            BY <1>5, <4>1, Zenon
          <5>3. freed.mm[p].pt[x[2]] <=> s.mm[p].pt[x[2]] /\ x[2] \notin empty
            BY <1>5, <5>1, <5>2
          <5> QED
            BY <4>1, <4>2, <4>3, <5>3 DEF PtsOf
        <4>4. CASE x[1] # p
          BY <1>11, <1>13, <4>1, <4>4 DEF PtsOf
        <4> QED
          BY <4>3, <4>4
      <3> QED
        BY <3>1 DEF PtsOf
    <2>4. IsFiniteSet(R) /\ Cardinality(R) = k
      <3>1. PICK g : g = [e \in empty |-> <<p, e>>]
        OBVIOUS
      <3>2. g \in Bijection(empty, R)
        <4>1. g \in [empty -> R] /\ \A y \in R : \E e \in empty : g[e] = y
          BY <2>1, <3>1
        <4>2. \A d, e \in empty : g[d] = g[e] => d = e
          BY <3>1
        <4> QED
          BY <4>1, <4>2 DEF Bijection, Injection, Surjection, IsInjective
      <3>3. ExistsBijection(empty, R)
        BY <3>2 DEF ExistsBijection
      <3> QED
        BY <1>5, <1>7, <3>3, FS_Bijection
    <2>5. IsFiniteSet(PtsOf(s)) /\ Cardinality(PtsOf(s)) \in Nat
      BY SpentSets
    <2>6. Cardinality(PtsOf(freed)) = Cardinality(PtsOf(s)) - k
      <3>1. PtsOf(s) \cap R = R
        BY <2>2
      <3>2. Cardinality(PtsOf(s) \ R) = Cardinality(PtsOf(s)) - Cardinality(PtsOf(s) \cap R)
        BY <2>5, FS_Difference
      <3> QED
        BY <2>3, <2>4, <3>1, <3>2
    <2>7. UsersOf(freed) = UsersOf(s) /\ PdsOf(freed) = PdsOf(s)
      BY <1>14, <1>15, ViewTables
    <2>8. Cardinality(UsersOf(s)) \in Nat /\ Cardinality(PdsOf(s)) \in Nat
      BY SpentSets
    <2> QED
      BY <1>7, <2>5, <2>6, <2>7, <2>8 DEF Spent
  <1>18. s.left \in Int /\ Spent(s) \in Nat
    BY <1>6, SpentSets DEF States
  <1>19. Purse(freed) = Purse(s)
    BY <1>7, <1>11, <1>13, <1>17, <1>18 DEF Purse
  <1>20. Good(s) => Good(freed)
    BY <1>11, <1>13, <1>16, <1>19 DEF Good
  <1>21. CASE t = freed
    BY <1>11, <1>13, <1>14, <1>15, <1>20, <1>21
  <1>22. CASE t = both
    <2>1. PICK b : b = [freed EXCEPT !.left = @ + 1]
      OBVIOUS
    <2>2. /\ b \in States /\ b.mm = freed.mm /\ b.ref = freed.ref /\ b.free = freed.free
          /\ b.cow = freed.cow /\ b.data = freed.data /\ b.panic = freed.panic
          /\ b.left = freed.left + 1
      BY <1>13, <2>1 DEF States
    <2>3. PICK v : v = PutPd(w, pd, FALSE)
      OBVIOUS
    <2>4. v \in FullMm /\ v.areas = w.areas /\ v.pte = w.pte /\ v.pt = w.pt
          /\ v.pd = PutAt(w.pd, pd, FALSE)
      BY <1>9, <2>3, MmSetPd, ZenonT(40)
    <2>5. b.mm[p] = w
      BY <1>13, <2>2
    <2>6. both = SetMm(b, p, v)
      BY <1>4, <2>1, <2>3, <2>5, Zenon DEF SetMm, PutPd
    <2>7. /\ t \in States /\ t.mm[p] = v /\ \A q \in Procs \ {p} : t.mm[q] = b.mm[q]
          /\ t.left = b.left /\ t.panic = b.panic /\ t.free = b.free
          /\ t.ref = b.ref /\ t.data = b.data /\ t.cow = b.cow
      <3>1. v \in FullMm \cup {NoMm}
        BY <2>4
      <3> QED
        BY <1>22, <2>2, <2>6, <3>1, SetMmType
    <2>8. Only(p, freed, t) /\ t.mm[p].pte = freed.mm[p].pte
      BY <1>13, <2>2, <2>4, <2>7 DEF Only, With
    <2>9. t.mm[p].pd = PutAt(freed.mm[p].pd, pd, FALSE) /\ t.mm[p].pt = freed.mm[p].pt
          /\ freed.mm[p].pd[pd] = TRUE
      BY <1>5, <1>6, <1>9, <1>13, <2>4, <2>7
    <2>10. EntryOf(t) = EntryOf(freed) /\ Spent(t) = Spent(freed) - 1
      <3>1. FALSE # freed.mm[p].pd[pd] /\ FALSE \in BOOLEAN
        BY <2>9
      <3> QED
        BY <1>14, <2>8, <2>9, <3>1, ViewEntries, ViewPd
    <2>11. freed.left \in Int /\ Spent(freed) \in Nat
      BY <1>13, SpentSets DEF States
    <2>12. Purse(t) = Purse(freed)
      BY <2>2, <2>7, <2>10, <2>11 DEF Purse
    <2>13. Good(s) => Good(t)
      BY <1>20, <2>2, <2>7, <2>10, <2>12 DEF Good
    <2>14. Only(p, s, t) /\ SameAreas(p, s, t)
      BY <1>9, <1>13, <1>14, <1>15, <2>4, <2>7, <2>8, OnlyTwice DEF SameAreas
    <2> QED
      BY <1>11, <1>13, <1>15, <2>2, <2>7, <2>8, <2>13, <2>14
  <1> QED
    BY <1>1, <1>21, <1>22

(* A page that a process maps can be mapped by others, for reading.        *)
Readable(s, y, x, f) ==
  Good(s) /\ EntryOf(s)[y].frame = f /\ (y = x \/ EntryOf(s)[y].perm # "rw")

LEMMA ShareGood ==
  ASSUME NEW p \in Procs, NEW s \in With(p), NEW page \in Pages, NEW f \in Frames,
         NEW perm \in Perms, perm # "rw", NEW y \in Cells,
         s.panic \/ Readable(s, y, <<p, page>>, f),
         NEW t, t = page_insert(s, p, page, f, perm)
  PROVE  /\ Only(p, s, t) /\ SameAreas(p, s, t) /\ t.data = s.data
         /\ ~t.panic => /\ Good(t)
                        /\ t.mm[p].pte = PutAt(s.mm[p].pte, page, PTE(f, perm))
                        /\ EntryOf(t) = PutAt(EntryOf(s), <<p, page>>, PTE(f, perm))
  <1>1. /\ Only(p, s, t) /\ SameAreas(p, s, t) /\ t.data = s.data
        /\ ~t.panic => t.mm[p].pte = PutAt(s.mm[p].pte, page, PTE(f, perm))
    BY InsertType
  <1>2. ASSUME ~t.panic
        PROVE  Good(t) /\ EntryOf(t) = PutAt(EntryOf(s), <<p, page>>, PTE(f, perm))
    <2>1. ~s.panic
      BY <1>1, <1>2 DEF Only
    <2>2. PICK E, n, fr : E = EntryOf(s) /\ n = Purse(s) /\ fr = s.free
      OBVIOUS
    <2>3. PICK ref : ref = s.ref
      OBVIOUS
    <2>4. Books(E, ref, fr, n, s.cow) /\ E[y].frame = f
      BY <2>1, <2>2, <2>3 DEF Good, Readable
    <2>5. ref[f] >= 1
      BY <2>4, DropBooks
    <2>6. f \notin fr
      BY <2>4, <2>5 DEF Books
    <2>7. y \in At(E, f)
      BY <2>4 DEF At
    <2>8. \A z \in At(E, f) \ {<<p, page>>} : E[z].perm # "rw"
      <3> SUFFICES ASSUME NEW z \in At(E, f) \ {<<p, page>>}, E[z].perm = "rw" PROVE FALSE
        OBVIOUS
      <3>1. At(E, f) = {z}
        BY <2>4 DEF Books, Sole, At
      <3>2. y = z
        BY <2>7, <3>1
      <3> QED
        BY <2>1, <2>2, <3>2 DEF Readable
    <2>9. Insertable(E, <<p, page>>, f, perm, fr)
      BY <2>7, <2>8 DEF Insertable
    <2>10. s.free = fr \ {f} /\ Purse(s) = IF f \in fr THEN n - 1 ELSE n
      BY <2>2, <2>6
    <2> QED
      <3>1. Books(E, s.ref, fr, n, s.cow)
        BY <2>3, <2>4
      <3>2. E = EntryOf(s)
        BY <2>2
      <3>3. Good(t) /\ EntryOf(t) = PutAt(E, <<p, page>>, PTE(f, perm))
        BY <1>2, <2>9, <2>10, <3>1, <3>2, InsertGood
      <3> QED
        BY <3>2, <3>3
  <1> QED
    BY <1>1, <1>2

(* One page of fork: both have it for reading.                             *)
Copied(s, from, to, page, t) ==
  LET e == PTE(s.mm[from].pte[page].frame, ReadOnly(s.mm[from].pte[page].perm))
  IN  /\ t \in With(from) /\ t \in With(to) /\ t.cow = s.cow /\ (s.panic => t.panic)
      /\ \A q \in Procs \ {from, to} : t.mm[q] = s.mm[q]
      /\ SameAreas(from, s, t) /\ SameAreas(to, s, t) /\ t.data = s.data
      /\ ~t.panic => /\ Good(t)
                     /\ t.mm[from].pte = PutAt(s.mm[from].pte, page, e)
                     /\ t.mm[to].pte = PutAt(s.mm[to].pte, page, e)

LEMMA CowCopyGood ==
  ASSUME NEW from \in Procs, NEW to \in Procs, from # to, NEW s \in With(from), s \in With(to),
         Good(s), NEW page \in Pages, s.mm[from].pte[page] # NoPTE,
         NEW t, t = cow_copy_page(s, from, to, page)
  PROVE  Copied(s, from, to, page, t)
  <1>1. PICK pte : pte = s.mm[from].pte[page]
    OBVIOUS
  <1>2. PICK f, perm : f = pte.frame /\ perm = ReadOnly(pte.perm)
    OBVIOUS
  <1>3. PICK e : e = PTE(f, perm)
    OBVIOUS
  <1>4. PICK E : E = EntryOf(s)
    OBVIOUS
  <1>5. PICK x : x = <<from, page>>
    OBVIOUS
  <1>6. x \in Cells /\ E[x] = pte /\ pte \in Entry
    BY <1>1, <1>4, <1>5, EntryAt, PteType
  <1>7. Books(E, s.ref, s.free, Purse(s), s.cow)
    BY <1>4 DEF Good
  <1>8. f \in Frames
    <2>1. f # None
      BY <1>1, <1>2, <1>6, <1>7 DEF Books, Clean
    <2> QED
      BY <1>2, <1>6, <2>1 DEF Entry
  <1>9. perm \in Perms /\ perm # "rw"
    BY <1>2, <1>6 DEF ReadOnly, Perms, Entry
  <1>10. e \in Entry /\ e.frame = f /\ e.perm = perm /\ f # None
    BY <1>3, <1>8, <1>9, EntryTypes
  <1>11. PICK u : u = [s EXCEPT !.mm[from].pte[page] = e]
    OBVIOUS
  <1>12. u = [s EXCEPT !.mm[from].pte[page].perm = ReadOnly(pte.perm)]
    <2>1. e = [pte EXCEPT !.perm = ReadOnly(pte.perm)]
      BY <1>2, <1>3, <1>6 DEF PTE, Entry
    <2> QED
      BY <1>1, <1>11, <2>1, Zenon
  <1>13. t = page_insert(u, to, page, f, perm)
    BY <1>1, <1>2, <1>12, Zenon DEF cow_copy_page
  <1>14. /\ Only(from, s, u) /\ SameAreas(from, s, u) /\ SameTables(from, s, u) /\ SamePages(s, u)
         /\ u.mm[from].pte = PutAt(s.mm[from].pte, page, e)
         /\ u.left = s.left /\ u.panic = s.panic
    BY <1>10, <1>11, SetPteType
  <1>15. u \in With(to) /\ u \in With(from) /\ u.mm[to] = s.mm[to] /\ u.cow = s.cow
    BY <1>14 DEF Only, With
  <1>16. PICK F : F = PutAt(E, x, e)
    OBVIOUS
  <1>17. EntryOf(u) = F /\ Purse(u) = Purse(s)
    BY <1>4, <1>5, <1>10, <1>14, <1>16, ViewPut, ViewTables DEF Purse
  <1>18. F[x] = e
    BY <1>6, <1>7, <1>10, <1>16, AtPut DEF Books
  <1>19. Good(u)
    <2>1. Books(F, s.ref, s.free, Purse(s), s.cow)
      BY <1>2, <1>6, <1>7, <1>9, <1>10, <1>16, SoftenBooks
    <2> QED
      BY <1>14, <1>15, <1>17, <2>1 DEF Good, SamePages
  <1>20. /\ Only(to, u, t) /\ SameAreas(to, u, t) /\ t.data = u.data
         /\ ~t.panic => Good(t) /\ t.mm[to].pte = PutAt(u.mm[to].pte, page, e)
    <2>1. Readable(u, x, <<to, page>>, f)
      BY <1>9, <1>10, <1>17, <1>18, <1>19 DEF Readable
    <2> QED
      BY <1>3, <1>6, <1>8, <1>9, <1>13, <1>15, <2>1, ShareGood
  <1>21. t \in With(from) /\ t.mm[from] = u.mm[from] /\ t \in With(to)
    BY <1>15, <1>20 DEF Only, With
  <1>22. /\ t.cow = s.cow /\ (s.panic => t.panic) /\ t.data = s.data
         /\ \A q \in Procs \ {from, to} : t.mm[q] = s.mm[q]
         /\ SameAreas(from, s, t) /\ SameAreas(to, s, t)
    BY <1>14, <1>15, <1>20, <1>21 DEF Only, SameAreas, SamePages
  <1>23. ASSUME ~t.panic
         PROVE  /\ Good(t) /\ t.mm[from].pte = PutAt(s.mm[from].pte, page, e)
                /\ t.mm[to].pte = PutAt(s.mm[to].pte, page, e)
    BY <1>14, <1>15, <1>20, <1>21, <1>23
  <1> QED
    BY <1>1, <1>2, <1>3, <1>21, <1>22, <1>23 DEF Copied

LEMMA CopyGood ==
  ASSUME NEW from \in Procs, NEW to \in Procs, from # to, NEW s \in With(from), s \in With(to),
         Good(s), NEW page \in Pages, s.mm[from].pte[page] # NoPTE,
         NEW t, t = copy_page(s, from, to, page)
  PROVE  Copied(s, from, to, page, t)
  <1>1. PICK pte : pte = s.mm[from].pte[page]
    OBVIOUS
  <1>2. PICK f, perm : f = pte.frame /\ perm = ReadOnly(pte.perm)
    OBVIOUS
  <1>3. PICK e : e = PTE(f, perm)
    OBVIOUS
  <1>4. PICK E : E = EntryOf(s)
    OBVIOUS
  <1>5. PICK x : x = <<from, page>>
    OBVIOUS
  <1>6. x \in Cells /\ E[x] = pte /\ pte \in Entry
    BY <1>1, <1>4, <1>5, EntryAt, PteType
  <1>7. Books(E, s.ref, s.free, Purse(s), s.cow)
    BY <1>4 DEF Good
  <1>8. f \in Frames
    <2>1. f # None
      BY <1>1, <1>2, <1>6, <1>7 DEF Books, Clean
    <2> QED
      BY <1>2, <1>6, <2>1 DEF Entry
  <1>9. perm \in Perms /\ perm # "rw"
    BY <1>2, <1>6 DEF ReadOnly, Perms, Entry
  <1>10. e \in Entry /\ e.frame = f /\ e.perm = perm /\ f # None
    BY <1>3, <1>8, <1>9, EntryTypes
  <1>11. PICK g : g = get_pte(s, to, page)
    OBVIOUS
  <1>12. /\ Only(to, s, g) /\ SameAreas(to, s, g) /\ SamePages(s, g) /\ g \in With(to)
         /\ g.mm[to].pte = s.mm[to].pte /\ (~g.panic => Purse(g) = Purse(s))
    BY <1>11, GetPteType DEF Only, Purse
  <1>13. PICK npage : npage = take_page(g)
    OBVIOUS
  <1>14. /\ Only(to, g, npage) /\ npage.mm = g.mm /\ SamePages(g, npage) /\ npage \in With(to)
         /\ ~npage.panic => npage.left = g.left - 1
    <2>1. g \in States
      BY <1>12, MmTypes
    <2> QED
      BY <1>12, <1>13, <2>1, TakeOnly, TakeType DEF Only
  <1>15. PICK again : again = page_insert(npage, from, page, f, perm)
    OBVIOUS
  <1>16. t = IF npage.panic THEN npage ELSE page_insert(again, to, page, f, perm)
    BY <1>1, <1>2, <1>11, <1>13, <1>15, Zenon DEF copy_page
  <1>17. /\ npage \in With(from) /\ npage.mm[from] = s.mm[from] /\ npage.cow = s.cow
         /\ \A q \in Procs \ {to} : npage.mm[q] = s.mm[q]
         /\ npage.mm[to].pte = s.mm[to].pte /\ SameAreas(to, s, npage) /\ SamePages(s, npage)
         /\ s.panic => npage.panic
    BY <1>12, <1>14 DEF Only, With, SameAreas, SamePages
  <1>18. CASE npage.panic
    <2>1. t = npage
      BY <1>16, <1>18
    <2> QED
      BY <1>14, <1>17, <1>18, <2>1 DEF Copied, SameAreas, SamePages
  <1>19. CASE ~npage.panic
    <2>1. ~g.panic
      BY <1>14, <1>19 DEF Only
    <2>2. EntryOf(npage) = E
      <3>1. EntryOf(g) = E
        BY <1>4, <1>12, ViewEntries
      <3> QED
        BY <1>14, <3>1, ViewSame
    <2>3. Good(npage)
      <3>1. Spent(npage) = Spent(g) /\ Spent(g) \in Nat
        BY <1>14, ViewSame, SpentSets
      <3>2. g.left \in Int
        BY <1>12, MmTypes DEF States
      <3>3. Purse(npage) = Purse(s) - 1 /\ Purse(s) \in Int
        BY <1>12, <1>14, <1>19, <2>1, <3>1, <3>2 DEF Purse
      <3>4. PICK n, m : n = Purse(s) /\ m = Purse(npage)
        OBVIOUS
      <3>5. Books(E, s.ref, s.free, m, s.cow)
        <4>1. m \in Int /\ m <= n
          BY <3>3, <3>4
        <4>2. Books(E, s.ref, s.free, n, s.cow)
          BY <1>7, <3>4
        <4> QED
          BY <4>1, <4>2, FewerBooks
      <3> QED
        BY <1>17, <2>2, <3>4, <3>5 DEF Good, SamePages
    <2>4. /\ Only(from, npage, again) /\ SameAreas(from, npage, again) /\ again.data = npage.data
          /\ ~again.panic => /\ Good(again)
                             /\ again.mm[from].pte = PutAt(npage.mm[from].pte, page, e)
                             /\ EntryOf(again) = PutAt(E, x, e)
      <3>1. Readable(npage, x, <<from, page>>, f)
        BY <1>2, <1>5, <1>6, <2>2, <2>3 DEF Readable
      <3> QED
        BY <1>3, <1>5, <1>6, <1>8, <1>9, <1>15, <1>17, <2>2, <3>1, ShareGood
    <2>5. /\ again \in With(from) /\ again \in With(to) /\ again.mm[to] = npage.mm[to]
          /\ again.cow = npage.cow
      BY <1>14, <2>4 DEF Only, With
    <2>6. t = page_insert(again, to, page, f, perm)
      BY <1>16, <1>19
    <2>7. ~again.panic => EntryOf(again)[x] = e
      <3>1. PutAt(E, x, e)[x] = e
        BY <1>6, <1>7 DEF Books, PutAt
      <3> QED
        BY <2>4, <3>1
    <2>8. /\ Only(to, again, t) /\ SameAreas(to, again, t) /\ t.data = again.data
          /\ ~t.panic => /\ Good(t) /\ t.mm[to].pte = PutAt(again.mm[to].pte, page, e)
      <3>1. again.panic \/ Readable(again, x, <<to, page>>, f)
        BY <1>9, <1>10, <2>4, <2>7 DEF Readable
      <3> QED
        BY <1>3, <1>6, <1>8, <1>9, <2>5, <2>6, <3>1, ShareGood
    <2>9. /\ t \in With(from) /\ t \in With(to) /\ t.mm[from] = again.mm[from]
          /\ t.panic \/ ~again.panic
      BY <2>5, <2>8 DEF Only, With
    <2>10. /\ t.cow = s.cow /\ (s.panic => t.panic) /\ t.data = s.data
           /\ \A q \in Procs \ {from, to} : t.mm[q] = s.mm[q]
           /\ SameAreas(from, s, t) /\ SameAreas(to, s, t)
      BY <1>17, <1>19, <2>4, <2>5, <2>8, <2>9 DEF Only, SameAreas, SamePages
    <2>11. ASSUME ~t.panic
           PROVE  /\ Good(t) /\ t.mm[from].pte = PutAt(s.mm[from].pte, page, e)
                  /\ t.mm[to].pte = PutAt(s.mm[to].pte, page, e)
      BY <1>17, <2>4, <2>5, <2>8, <2>9, <2>11
    <2> QED
      BY <1>1, <1>2, <1>3, <2>9, <2>10, <2>11 DEF Copied
  <1> QED
    BY <1>18, <1>19

(* cow_pgfault: the process gets a page of its own.                        *)
LEMMA CowFaultGood ==
  ASSUME NEW p \in Procs, NEW s \in With(p), NEW page \in Pages, Good(s), s.cow,
         s.mm[p].pte[page] # NoPTE, NEW t, t = cow_pgfault(s, p, page)
  PROVE  /\ Only(p, s, t) /\ SameAreas(p, s, t)
         /\ ~t.panic =>
              /\ Good(t)
              /\ \E f \in s.free \cap Frames :
                   /\ t.mm[p].pte = PutAt(s.mm[p].pte, page, PTE(f, "rw"))
                   /\ t.data = PutAt(s.data, f, s.data[s.mm[p].pte[page].frame])
  <1>1. PICK a, old : a = alloc_page(s) /\ old = s.mm[p].pte[page].frame
    OBVIOUS
  <1>2. s \in States
    BY MmTypes
  <1>3. /\ a \in States /\ a.mm = s.mm /\ a.cow = s.cow /\ a.ref = s.ref /\ a.data = s.data
        /\ s.panic => a.panic
        /\ ~a.panic => /\ a.page \in s.free /\ a.free = s.free \ {a.page}
                       /\ a.left = s.left - 1
    BY <1>1, <1>2, AllocType
  <1>4. Only(p, s, a) /\ SameAreas(p, s, a) /\ a \in With(p)
    BY <1>3 DEF Only, SameAreas, With
  <1>5. PICK E, n : E = EntryOf(s) /\ n = Purse(s)
    OBVIOUS
  <1>6. PICK ref, fr : ref = s.ref /\ fr = s.free
    OBVIOUS
  <1>7. Books(E, ref, fr, n, s.cow)
    BY <1>5, <1>6 DEF Good
  <1>8. PICK x : x = <<p, page>>
    OBVIOUS
  <1>9. x \in Cells /\ E[x] = s.mm[p].pte[page] /\ s.mm[p].pte[page] \in Entry
    BY <1>5, <1>8, EntryAt, PteType
  <1>10. old \in Frames
    <2>1. old # None
      BY <1>1, <1>7, <1>9 DEF Books, Clean
    <2> QED
      BY <1>1, <2>1, PteType
  <1>11. CASE a.panic
    <2>1. t = a
      BY <1>1, <1>11, SMTT(30) DEF cow_pgfault
    <2> QED
      BY <1>4, <1>11, <2>1
  <1>12. CASE ~a.panic
    <2>1. PICK f, v : f = a.page /\ v = s.data[old]
      OBVIOUS
    <2>2. f \in fr /\ f \in Frames /\ v \in Values
      BY <1>2, <1>3, <1>6, <1>7, <1>10, <1>12, <2>1 DEF Books, States
    <2>3. PICK d, q : d = s.data /\ q = PutAt(d, f, v)
      OBVIOUS
    <2>4. d \in [Frames -> Values] /\ q \in [Frames -> Values]
      BY <1>2, <2>2, <2>3, PutType DEF PutAt, States
    <2>5. PICK b : b = [a EXCEPT !.data = q]
      OBVIOUS
    <2>6. /\ b \in With(p) /\ b.mm = a.mm /\ b.data = q /\ b.ref = a.ref /\ b.free = a.free
          /\ b.left = a.left /\ b.cow = a.cow /\ b.panic = a.panic
      BY <1>3, <1>4, <2>4, <2>5 DEF With, States
    <2>7. PICK c : c = [b EXCEPT !.mm[p].pte[page] = NoPTE]
      OBVIOUS
    <2>8. t = page_insert(c, p, page, f, "rw")
      <3>1. c = [a EXCEPT !.data[f] = v, !.mm[p].pte[page] = NoPTE]
        <4>1. b = [a EXCEPT !.data[f] = v]
          BY <1>3, <2>3, <2>5, Zenon DEF PutAt
        <4> QED
          BY <2>7, <4>1, Zenon
      <3> QED
        BY <1>1, <1>12, <2>1, <3>1, Zenon DEF cow_pgfault
    <2>9. /\ Only(p, b, c) /\ SameAreas(p, b, c) /\ SameTables(p, b, c) /\ SamePages(b, c)
          /\ c.mm[p].pte = PutAt(b.mm[p].pte, page, NoPTE) /\ c.left = b.left
      BY <2>6, <2>7, SetPteType, EntryTypes
    <2>10. c \in With(p) /\ Only(p, s, c) /\ SameAreas(p, s, c)
      BY <1>4, <2>6, <2>9, OnlyTwice DEF Only, SameAreas
    <2>11. "rw" \in Perms
      BY DEF Perms
    <2>12. /\ Only(p, c, t) /\ SameAreas(p, c, t) /\ t.data = c.data
           /\ ~t.panic => t.mm[p].pte = PutAt(c.mm[p].pte, page, PTE(f, "rw"))
      BY <2>2, <2>8, <2>10, <2>11, InsertType
    <2>13. Only(p, s, t) /\ SameAreas(p, s, t)
      BY <2>10, <2>12, OnlyTwice DEF SameAreas
    <2>14. ASSUME ~t.panic PROVE Good(t)
      <3>1. PICK F : F = PutAt(E, x, NoPTE)
        OBVIOUS
      <3>2. Books(F, ref, fr, n, s.cow)
        BY <1>7, <1>9, <3>1, ForgetBooks
      <3>3. F = EntryOf(c) /\ Spent(c) = Spent(s)
        <4>1. EntryOf(b) = E /\ Spent(b) = Spent(s)
          BY <1>3, <1>5, <2>6, ViewSame
        <4>2. EntryOf(c) = PutAt(EntryOf(b), x, NoPTE) /\ Spent(c) = Spent(b)
          BY <1>8, <2>6, <2>9, ViewPut, ViewTables
        <4> QED
          BY <3>1, <4>1, <4>2
      <3>4. c.free = fr \ {f} /\ c.ref = ref /\ c.cow = s.cow
        BY <1>3, <1>6, <1>12, <2>1, <2>6, <2>9 DEF SamePages, Only
      <3>5. Purse(c) = IF f \in fr THEN n - 1 ELSE n
        <4>1. s.left \in Int /\ Spent(s) \in Nat
          BY <1>2, SpentSets DEF States
        <4> QED
          BY <1>3, <1>5, <1>12, <2>2, <2>6, <2>9, <3>3, <4>1 DEF Purse
      <3>6. Insertable(F, <<p, page>>, f, "rw", fr)
        BY <2>2 DEF Insertable
      <3>7. Books(F, c.ref, fr, n, c.cow)
        BY <3>2, <3>4
      <3> QED
        BY <2>2, <2>8, <2>10, <2>11, <2>14, <3>3, <3>4, <3>5, <3>6, <3>7, InsertGood
    <2>15. ASSUME ~t.panic PROVE t.mm[p].pte = PutAt(s.mm[p].pte, page, PTE(f, "rw"))
      <3>1. PICK r : r = s.mm[p].pte
        OBVIOUS
      <3>2. r \in [Pages -> Entry]
        BY <3>1 DEF With, FullMm
      <3>3. PutAt(PutAt(r, page, NoPTE), page, PTE(f, "rw")) = PutAt(r, page, PTE(f, "rw"))
        BY <3>2 DEF PutAt
      <3> QED
        BY <1>3, <2>6, <2>9, <2>12, <2>15, <3>1, <3>3
    <2>16. t.data = PutAt(s.data, f, v)
      BY <2>3, <2>6, <2>9, <2>12 DEF SamePages
    <2> QED
      BY <1>1, <1>6, <2>1, <2>2, <2>13, <2>14, <2>15, <2>16
  <1> QED
    BY <1>11, <1>12
-----------------------------------------------------------------------------
(* The loops.  What a loop over D does to a state in G, if every round     *)
(* keeps G, and J has what holds of a set of rounds and the state that     *)
(* they lead to.                                                           *)
Rounds(it, D, c, F, base, G) ==
  /\ it[{}] = base
  /\ \A u \in SUBSET D : u # {} /\ it[u \ {c[u]}] \in G => it[u] = F[c[u]][it[u \ {c[u]}]]
Leads(J, D, c, F, G) ==
  \A u \in SUBSET D, g \in G :
    u # {} /\ <<u \ {c[u]}, g>> \in J => <<u, F[c[u]][g]>> \in J

LEMMA FoldKeeps ==
  ASSUME NEW D, IsFiniteSet(D), NEW c, Chooses(c, D),
         NEW G, NEW F \in [D -> [G -> G]], NEW base \in G,
         NEW it, Rounds(it, D, c, F, base, G),
         NEW J, <<{}, base>> \in J, Leads(J, D, c, F, G)
  PROVE  it[D] \in G /\ <<D, it[D]>> \in J
  <1> DEFINE T == {u \in SUBSET D : it[u] \in G /\ <<u, it[u]>> \in J}
  <1>1. {} \in T
    BY DEF Rounds
  <1>2. ASSUME NEW u \in SUBSET D, u # {}, u \ {c[u]} \in T PROVE u \in T
    <2>1. PICK g : g = it[u \ {c[u]}]
      OBVIOUS
    <2>2. g \in G /\ <<u \ {c[u]}, g>> \in J /\ c[u] \in D
      BY <1>2, <2>1 DEF Chooses
    <2>3. it[u] = F[c[u]][g]
      BY <1>2, <2>1, <2>2 DEF Rounds
    <2>4. <<u, F[c[u]][g]>> \in J
      BY <1>2, <2>2 DEF Leads
    <2> QED
      BY <2>2, <2>3, <2>4
  <1>3. Grows(T, c, D)
    BY <1>2 DEF Grows
  <1> HIDE DEF T
  <1>4. \A u \in SUBSET D : u \in T
    BY <1>1, <1>3, Shrinking
  <1> QED
    BY <1>4 DEF T

(* The same when only G matters.                                           *)
LEMMA FoldStays ==
  ASSUME NEW D, IsFiniteSet(D), NEW c, Chooses(c, D),
         NEW G, NEW F \in [D -> [G -> G]], NEW base \in G,
         NEW it, Rounds(it, D, c, F, base, G)
  PROVE  it[D] \in G
  <1> DEFINE J == (SUBSET D) \X G
  <1>1. <<{}, base>> \in J
    OBVIOUS
  <1>2. ASSUME NEW u \in SUBSET D, NEW g \in G, u # {} PROVE <<u, F[c[u]][g]>> \in J
    <2>1. c[u] \in D
      BY <1>2 DEF Chooses
    <2> QED
      BY <2>1
  <1>3. Leads(J, D, c, F, G)
    BY <1>2 DEF Leads
  <1> HIDE DEF J
  <1> QED
    BY <1>1, <1>3, FoldKeeps

(* The order in which the loops take their elements.                       *)
AnyOf(D) == [u \in SUBSET D |-> CHOOSE x \in u : TRUE]
TopOf(D) == [u \in SUBSET D |-> Max(u)]

LEMMA AnyChooses ==
  ASSUME NEW D
  PROVE  Chooses(AnyOf(D), D)
  BY DEF Chooses, AnyOf

LEMMA TopChooses ==
  ASSUME NEW n \in Nat
  PROVE  Chooses(TopOf(1..n), 1..n)
  <1> SUFFICES ASSUME NEW u \in SUBSET (1..n), u # {} PROVE Max(u) \in u
    BY DEF Chooses, TopOf
  <1>1. PICK w : w = {k \in 0..n : n - k \in u}
    OBVIOUS
  <1>2. w \in SUBSET Nat /\ w # {}
    <2>1. PICK x \in u : TRUE
      OBVIOUS
    <2>2. PICK y : y = n - x
      OBVIOUS
    <2>3. y \in 0..n /\ n - y = x
      BY <2>2
    <2>4. y \in w
      BY <1>1, <2>3
    <2> QED
      BY <1>1, <2>4
  <1>3. PICK k : k = Min(w)
    OBVIOUS
  <1>4. k \in w /\ \A j \in w : k <= j
    BY <1>2, <1>3, MinIn
  <1>5. PICK x : x = n - k
    OBVIOUS
  <1>6. x \in u /\ k \in 0..n
    BY <1>1, <1>4, <1>5
  <1>7. \A y \in u : x >= y
    <2> SUFFICES ASSUME NEW y \in u PROVE x >= y
      OBVIOUS
    <2>1. y \in 1..n
      OBVIOUS
    <2>2. n - y \in w
      BY <1>1, <2>1
    <2>3. k <= n - y
      BY <1>4, <2>2
    <2> QED
      BY <1>5, <1>6, <2>1, <2>3
  <1> QED
    BY <1>6, <1>7 DEF Max

(* An area is a range of pages.                                            *)
LEMMA AreaPages ==
  ASSUME NEW area \in Areas
  PROVE  /\ In(area) \subseteq Pages /\ area.start \in Pages /\ area.end - 1 \in Pages
         /\ area.start \in Int /\ area.end \in Int
  <1>1. /\ area.start \in Int /\ area.end \in Int /\ In(area) \subseteq Pages /\ In(area) # {}
    BY VmAssumption DEF Areas
  <1>2. area.start \in In(area) /\ area.end - 1 \in In(area)
    BY <1>1 DEF In
  <1> QED
    BY <1>1, <1>2
-----------------------------------------------------------------------------
(* unmap_range: the pages of an area are mapped no longer.                 *)
Worked(p, s, t) ==
  /\ Only(p, s, t) /\ SameAreas(p, s, t) /\ t.panic = s.panic /\ t.data = s.data
  /\ Good(s) => Good(t)
Cleared(p, s, t, u) ==
  t.mm[p].pte = [page \in Pages |-> IF page \in u THEN NoPTE ELSE s.mm[p].pte[page]]

LEMMA UnmapGood ==
  ASSUME NEW p \in Procs, NEW s \in With(p), NEW area \in Areas,
         NEW t, t = unmap_range(s, p, area)
  PROVE  Worked(p, s, t) /\ Cleared(p, s, t, In(area))
  <1>1. PICK D : D = In(area) \cap Mapped(s, p)
    OBVIOUS
  <1>2. D \subseteq Pages /\ IsFiniteSet(D) /\ \A page \in D : s.mm[p].pte[page] # NoPTE
    <2>1. D \in SUBSET Pages
      BY <1>1 DEF Mapped
    <2> QED
      BY <1>1, <2>1, Sizes, FS_Subset DEF Mapped
  <1> DEFINE P(i) == i = [u \in SUBSET D |->
                            IF u = {} THEN s
                            ELSE page_remove_pte(i[u \ {CHOOSE x \in u : TRUE}], p,
                                                 CHOOSE x \in u : TRUE)]
             G == With(p)
             F == [page \in D |-> [g \in G |-> page_remove_pte(g, p, page)]]
             c == AnyOf(D)
             J == {x \in (SUBSET D) \X G : Worked(p, s, x[2]) /\ Cleared(p, s, x[2], x[1])}
  <1>3. t = (CHOOSE i : P(i))[D]
    BY <1>1 DEF unmap_range, FoldSet, MapThenFoldSet
  <1>4. F \in [D -> [G -> G]]
    <2>1. \A page \in D, g \in G : page_remove_pte(g, p, page) \in G
      BY <1>2, RemoveType DEF Only
    <2> QED
      BY <2>1
  <1>5. Chooses(c, D) /\ \A u \in SUBSET D : c[u] = CHOOSE x \in u : TRUE
    BY AnyChooses DEF AnyOf
  <1> HIDE DEF c
  <1>6. \E i : P(i)
    <2> HIDE DEF G, F
    <2>1. PICK i \in [SUBSET D -> G] : Folds(i, D, c, F, s)
      <3>1. s \in G
        BY DEF G
      <3>2. IsFiniteSet(D) /\ Chooses(c, D)
        BY <1>2, <1>5
      <3>3. \E i \in [SUBSET D -> G] : Folds(i, D, c, F, s)
        BY <1>4, <3>1, <3>2, FoldExists
      <3> QED
        BY <3>3
    <2>2. ASSUME NEW u \in SUBSET D, u # {}
          PROVE  F[c[u]][i[u \ {c[u]}]] = page_remove_pte(i[u \ {c[u]}], p, c[u])
      <3>1. c[u] \in D /\ i[u \ {c[u]}] \in G
        BY <1>5, <2>2, SMTT(30) DEF Chooses
      <3> QED
        BY <3>1 DEF F
    <2>3. P(i)
      BY <1>5, <2>1, <2>2, ZenonT(40) DEF Folds
    <2> QED
      BY <2>3
  <1>7. PICK it : it = CHOOSE i : P(i)
    OBVIOUS
  <1>8. P(it)
    <2> HIDE DEF P
    <2> QED
      BY <1>6, <1>7
  <1>9. Rounds(it, D, c, F, s, G)
    <2>1. it[{}] = s
      BY <1>8
    <2>2. ASSUME NEW u \in SUBSET D, u # {}, it[u \ {c[u]}] \in G
          PROVE  it[u] = F[c[u]][it[u \ {c[u]}]]
      <3>1. it[u] = page_remove_pte(it[u \ {c[u]}], p, c[u])
        BY <1>5, <1>8, <2>2
      <3>2. c[u] \in D
        BY <1>5, <2>2 DEF Chooses
      <3> QED
        BY <2>2, <3>1, <3>2
    <2> HIDE DEF F, G
    <2> QED
      BY <2>1, <2>2 DEF Rounds
  <1>10. <<{}, s>> \in J
    <2>1. Worked(p, s, s)
      BY DEF Worked, Only, SameAreas, With
    <2>2. Cleared(p, s, s, {})
      BY DEF Cleared, With, FullMm
    <2> QED
      BY <2>1, <2>2
  <1>11. Leads(J, D, c, F, G)
    <2> SUFFICES ASSUME NEW u \in SUBSET D, NEW g \in G, u # {}, <<u \ {c[u]}, g>> \in J
                 PROVE  <<u, F[c[u]][g]>> \in J
      BY DEF Leads
    <2>1. PICK page : page = c[u]
      OBVIOUS
    <2>2. PICK h : h = page_remove_pte(g, p, page)
      OBVIOUS
    <2>3. page \in D /\ page \in Pages /\ page \in u
      BY <1>2, <1>5, <2>1 DEF Chooses
    <2>4. F[c[u]][g] = h /\ h \in G
      BY <1>4, <2>1, <2>2, <2>3
    <2>5. Worked(p, s, g) /\ Cleared(p, s, g, u \ {page})
      BY <2>1
    <2>6. PICK r, q : r = s.mm[p].pte /\ q = g.mm[p].pte
      OBVIOUS
    <2>7. r \in [Pages -> Entry] /\ q = [x \in Pages |-> IF x \in u \ {page} THEN NoPTE ELSE r[x]]
      BY <2>5, <2>6 DEF Cleared, With, FullMm
    <2>8. q[page] # NoPTE
      BY <1>2, <2>3, <2>6, <2>7
    <2>9. /\ Only(p, g, h) /\ SameAreas(p, g, h) /\ h.panic = g.panic /\ h.data = g.data
          /\ h.mm[p].pte = PutAt(q, page, NoPTE)
      BY <2>2, <2>3, <2>6, RemoveType
    <2>10. Good(g) => Good(h)
      BY <2>2, <2>3, <2>6, <2>8, RemoveGood
    <2>11. Worked(p, s, h)
      BY <2>5, <2>9, <2>10, OnlyTwice DEF Worked, SameAreas
    <2>12. PutAt(q, page, NoPTE) = [x \in Pages |-> IF x \in u THEN NoPTE ELSE r[x]]
      BY <2>3, <2>7 DEF PutAt
    <2>13. Cleared(p, s, h, u)
      BY <2>6, <2>9, <2>12 DEF Cleared
    <2> QED
      BY <2>4, <2>11, <2>13
  <1>12. it[D] \in G /\ <<D, it[D]>> \in J
    <2>1. s \in G
      OBVIOUS
    <2> HIDE DEF F, G, J
    <2> QED
      BY <1>2, <1>4, <1>5, <1>9, <1>10, <1>11, <2>1, FoldKeeps
  <1>13. Worked(p, s, t) /\ Cleared(p, s, t, D)
    BY <1>3, <1>7, <1>12
  <1>14. Cleared(p, s, t, In(area))
    <2>1. \A page \in Pages : page \in In(area) /\ page \notin D => s.mm[p].pte[page] = NoPTE
      BY <1>1 DEF Mapped
    <2> QED
      BY <1>1, <1>13, <2>1 DEF Cleared
  <1> QED
    BY <1>13, <1>14

LEMMA WorkedSelf ==
  ASSUME NEW p \in Procs, NEW s \in With(p)
  PROVE  Worked(p, s, s)
  BY DEF Worked, Only, SameAreas, With

LEMMA WorkedTwice ==
  ASSUME NEW p \in Procs, NEW s, NEW t, NEW u, Worked(p, s, t), Worked(p, t, u)
  PROVE  Worked(p, s, u)
  BY OnlyTwice DEF Worked, SameAreas

(* exit_range: the tables of an area.                                      *)
ExitRound(t, p, area, pd) == IF t.mm[p].pd[pd] THEN free_tables(t, p, area, pd) ELSE t

LEMMA ExitRangeGood ==
  ASSUME NEW p \in Procs, NEW s \in With(p), NEW area \in Areas,
         NEW t, t = exit_range(s, p, area)
  PROVE  Worked(p, s, t) /\ t.mm[p].pte = s.mm[p].pte
  <1>1. PICK D : D = PD(PT(area.start))..PD(PT(area.end - 1))
    OBVIOUS
  <1>2. IsFiniteSet(D) /\ D \subseteq PDs
    <2>1. PD(PT(area.start)) \in PDs /\ PD(PT(area.end - 1)) \in PDs
      BY AreaPages, Sizes
    <2>2. PDs \subseteq Int
      BY DEF PDs
    <2>3. D \subseteq PDs
      BY <1>1, <2>1, VmAssumption DEF PDs
    <2> QED
      BY <1>1, <2>1, <2>2, <2>3, FS_Interval
  <1> DEFINE P(i) == i = [u \in SUBSET D |->
                            IF u = {} THEN s
                            ELSE ExitRound(i[u \ {CHOOSE x \in u : TRUE}], p, area, (CHOOSE x \in u : TRUE))]
             G == {g \in With(p) : Worked(p, s, g) /\ g.mm[p].pte = s.mm[p].pte}
             F == [k \in D |-> [g \in G |-> ExitRound(g, p, area, k)]]
             c == AnyOf(D)
  <1>3. t = (CHOOSE i : P(i))[D]
    BY <1>1 DEF exit_range, FoldSet, MapThenFoldSet, ExitRound
  <1>4. F \in [D -> [G -> G]]
    <2> SUFFICES ASSUME NEW pd \in D, NEW g \in G
                 PROVE  ExitRound(g, p, area, pd) \in G
      OBVIOUS
    <2>1. CASE g.mm[p].pd[pd]
      <3>1. PICK h : h = free_tables(g, p, area, pd)
        OBVIOUS
      <3>2. pd \in PDs /\ g \in With(p)
        BY <1>2
      <3>3. Worked(p, g, h) /\ h.mm[p].pte = g.mm[p].pte
        BY <2>1, <3>1, <3>2, FreeTablesGood DEF Worked
      <3>4. Worked(p, s, h) /\ h \in With(p)
        BY <3>3, WorkedTwice DEF Worked, Only
      <3> QED
        BY <2>1, <3>1, <3>3, <3>4 DEF ExitRound
    <2>2. CASE ~g.mm[p].pd[pd]
      BY <2>2 DEF ExitRound
    <2> QED
      BY <2>1, <2>2
  <1>5. Chooses(c, D) /\ \A u \in SUBSET D : c[u] = CHOOSE x \in u : TRUE
    BY AnyChooses DEF AnyOf
  <1> HIDE DEF c
  <1>6. \E i : P(i)
    <2> HIDE DEF G, F
    <2>1. PICK i \in [SUBSET D -> G] : Folds(i, D, c, F, s)
      <3>1. s \in G
        BY WorkedSelf DEF G
      <3>2. IsFiniteSet(D) /\ Chooses(c, D)
        BY <1>2, <1>5
      <3>3. \E i \in [SUBSET D -> G] : Folds(i, D, c, F, s)
        BY <1>4, <3>1, <3>2, FoldExists
      <3> QED
        BY <3>3
    <2>2. ASSUME NEW u \in SUBSET D, u # {}
          PROVE  F[c[u]][i[u \ {c[u]}]] = ExitRound(i[u \ {c[u]}], p, area, c[u])
      <3>1. c[u] \in D /\ i[u \ {c[u]}] \in G
        BY <1>5, <2>2 DEF Chooses
      <3> QED
        BY <3>1, SMTT(30) DEF F
    <2>3. P(i)
      BY <1>5, <2>1, <2>2, ZenonT(40) DEF Folds
    <2> QED
      BY <2>3
  <1>7. PICK it : it = CHOOSE i : P(i)
    OBVIOUS
  <1>8. P(it)
    <2> HIDE DEF P
    <2> QED
      BY <1>6, <1>7
  <1>9. Rounds(it, D, c, F, s, G)
    <2>1. it[{}] = s
      BY <1>8
    <2>2. ASSUME NEW u \in SUBSET D, u # {}, it[u \ {c[u]}] \in G
          PROVE  it[u] = F[c[u]][it[u \ {c[u]}]]
      <3>1. it[u] = ExitRound(it[u \ {c[u]}], p, area, c[u])
        BY <1>5, <1>8, <2>2
      <3>2. c[u] \in D
        BY <1>5, <2>2 DEF Chooses
      <3> QED
        BY <2>2, <3>1, <3>2
    <2> HIDE DEF F, G
    <2> QED
      BY <2>1, <2>2 DEF Rounds
  <1>10. it[D] \in G
    <2>1. s \in G
      BY WorkedSelf
    <2>2. IsFiniteSet(D) /\ Chooses(c, D)
      BY <1>2, <1>5
    <2> HIDE DEF F, G
    <2> QED
      BY <1>4, <1>9, <2>1, <2>2, FoldStays
  <1> QED
    BY <1>1, <1>3, <1>7, <1>10

(* The two loops of exit_mmap.                                             *)
UnmapAreas(s, p, q) == FoldLeft(LAMBDA t, area : unmap_range(t, p, area), s, q)
ExitAreas(s, p, q) == FoldLeft(LAMBDA t, area : exit_range(t, p, area), s, q)

(* What the areas in u of q cover.                                         *)
Part(q, u) == UNION {In(q[k]) : k \in u}

LEMMA UnmapAreasGood ==
  ASSUME NEW p \in Procs, NEW s \in With(p), NEW q \in Seq(Areas),
         NEW t, t = UnmapAreas(s, p, q)
  PROVE  Worked(p, s, t) /\ Cleared(p, s, t, Covered(q))
  <1>1. PICK D : D = DOMAIN q /\ D = 1..Len(q) /\ IsFiniteSet(D) /\ Len(q) \in Nat
                 /\ \A k \in D : q[k] \in Areas
    <2>1. DOMAIN q = 1..Len(q) /\ Len(q) \in Nat /\ \A k \in 1..Len(q) : q[k] \in Areas
      OBVIOUS
    <2>2. IsFiniteSet(1..Len(q))
      BY <2>1, FS_Interval
    <2> QED
      BY <2>1, <2>2
  <1> DEFINE P(i) == i = [u \in SUBSET D |->
                            IF u = {} THEN s
                            ELSE unmap_range(i[u \ {Max(u)}], p, q[Max(u)])]
             G == With(p)
             F == [k \in D |-> [g \in G |-> unmap_range(g, p, q[k])]]
             c == TopOf(D)
  <1>2. t = (CHOOSE i : P(i))[D]
    BY <1>1 DEF UnmapAreas, FoldLeft, MapThenFoldSet
  <1>3. F \in [D -> [G -> G]]
    <2> SUFFICES ASSUME NEW k \in D, NEW g \in G PROVE unmap_range(g, p, q[k]) \in G
      OBVIOUS
    <2>1. q[k] \in Areas
      BY <1>1
    <2> QED
      BY <2>1, UnmapGood DEF Worked, Only
  <1>4. Chooses(c, D) /\ \A u \in SUBSET D : c[u] = Max(u)
    BY <1>1, TopChooses DEF TopOf
  <1> HIDE DEF c
  <1>5. \E i : P(i)
    <2> HIDE DEF G, F
    <2>1. PICK i \in [SUBSET D -> G] : Folds(i, D, c, F, s)
      <3>1. s \in G
        BY <1>1 DEF G
      <3>2. IsFiniteSet(D) /\ Chooses(c, D)
        BY <1>1, <1>4
      <3>3. \E i \in [SUBSET D -> G] : Folds(i, D, c, F, s)
        BY <1>3, <3>1, <3>2, FoldExists
      <3> QED
        BY <3>3
    <2>2. ASSUME NEW u \in SUBSET D, u # {}
          PROVE  F[c[u]][i[u \ {c[u]}]] = unmap_range(i[u \ {c[u]}], p, q[c[u]])
      <3>1. c[u] \in D /\ i[u \ {c[u]}] \in G
        BY <1>4, <2>2 DEF Chooses
      <3> QED
        BY <3>1 DEF F
    <2>3. P(i)
      BY <1>4, <2>1, <2>2 DEF Folds
    <2> QED
      BY <2>3
  <1>6. PICK it : it = CHOOSE i : P(i)
    OBVIOUS
  <1>7. P(it)
    <2> HIDE DEF P
    <2> QED
      BY <1>5, <1>6
  <1>8. Rounds(it, D, c, F, s, G)
    <2>1. it[{}] = s
      BY <1>7
    <2>2. ASSUME NEW u \in SUBSET D, u # {}, it[u \ {c[u]}] \in G
          PROVE  it[u] = F[c[u]][it[u \ {c[u]}]]
      <3>1. it[u] = unmap_range(it[u \ {c[u]}], p, q[c[u]])
        BY <1>4, <1>7, <2>2
      <3>2. c[u] \in D
        BY <1>4, <2>2 DEF Chooses
      <3> QED
        BY <2>2, <3>1, <3>2
    <2> HIDE DEF F, G
    <2> QED
      BY <2>1, <2>2 DEF Rounds
  <1> DEFINE J == {x \in (SUBSET D) \X With(p) :
                     Worked(p, s, x[2]) /\ Cleared(p, s, x[2], Part(q, x[1]))}
  <1>9. <<{}, s>> \in J
    <2>1. Cleared(p, s, s, Part(q, {}))
      BY DEF Cleared, Part, With, FullMm
    <2> QED
      BY <2>1, WorkedSelf
  <1>10. Leads(J, D, c, F, G)
    <2> SUFFICES ASSUME NEW u \in SUBSET D, NEW g \in G, u # {}, <<u \ {c[u]}, g>> \in J
                 PROVE  <<u, F[c[u]][g]>> \in J
      BY DEF Leads
    <2>1. PICK k : k = c[u]
      OBVIOUS
    <2>2. PICK h : h = unmap_range(g, p, q[k])
      OBVIOUS
    <2>3. k \in D /\ k \in u /\ q[k] \in Areas
      BY <1>1, <1>4, <2>1 DEF Chooses
    <2>4. F[c[u]][g] = h /\ h \in G
      BY <1>3, <2>1, <2>2, <2>3
    <2>5. Worked(p, s, g) /\ Cleared(p, s, g, Part(q, u \ {k}))
      BY <2>1
    <2>6. Worked(p, g, h) /\ Cleared(p, g, h, In(q[k]))
      BY <2>2, <2>3, UnmapGood
    <2>7. Worked(p, s, h)
      BY <2>5, <2>6, WorkedTwice
    <2>8. Cleared(p, s, h, Part(q, u))
      <3>1. PICK U, V, W : /\ U = Part(q, u \ {k}) /\ V = In(q[k])
                           /\ W = Part(q, u)
        OBVIOUS
      <3>2. W = U \cup V
        BY <2>3, <3>1 DEF Part
      <3>3. PICK r, a : r = s.mm[p].pte /\ a = g.mm[p].pte
        OBVIOUS
      <3>4. /\ a = [x \in Pages |-> IF x \in U THEN NoPTE ELSE r[x]]
            /\ h.mm[p].pte = [x \in Pages |-> IF x \in V THEN NoPTE ELSE a[x]]
        BY <2>5, <2>6, <3>1, <3>3 DEF Cleared
      <3>5. h.mm[p].pte = [x \in Pages |-> IF x \in W THEN NoPTE ELSE r[x]]
        BY <3>2, <3>4
      <3> QED
        BY <3>1, <3>3, <3>5 DEF Cleared
    <2>9. <<u, h>> \in J
      BY <2>4, <2>7, <2>8
    <2> HIDE DEF J, F, G
    <2> QED
      BY <2>4, <2>9
  <1>11. it[D] \in G /\ <<D, it[D]>> \in J
    <2>1. s \in G /\ IsFiniteSet(D) /\ Chooses(c, D)
      BY <1>1, <1>4
    <2> HIDE DEF F, G, J
    <2> QED
      BY <1>3, <1>8, <1>9, <1>10, <2>1, FoldKeeps
  <1>12. Worked(p, s, t) /\ Cleared(p, s, t, Part(q, D))
    BY <1>2, <1>6, <1>11
  <1> QED
    BY <1>1, <1>12 DEF Covered, Part

LEMMA ExitAreasGood ==
  ASSUME NEW p \in Procs, NEW s \in With(p), NEW q \in Seq(Areas),
         NEW t, t = ExitAreas(s, p, q)
  PROVE  Worked(p, s, t) /\ t.mm[p].pte = s.mm[p].pte
  <1>1. PICK D : D = DOMAIN q /\ D = 1..Len(q) /\ IsFiniteSet(D) /\ Len(q) \in Nat
                 /\ \A k \in D : q[k] \in Areas
    <2>1. DOMAIN q = 1..Len(q) /\ Len(q) \in Nat /\ \A k \in 1..Len(q) : q[k] \in Areas
      OBVIOUS
    <2>2. IsFiniteSet(1..Len(q))
      BY <2>1, FS_Interval
    <2> QED
      BY <2>1, <2>2
  <1> DEFINE P(i) == i = [u \in SUBSET D |->
                            IF u = {} THEN s
                            ELSE exit_range(i[u \ {Max(u)}], p, q[Max(u)])]
             G == {g \in With(p) : Worked(p, s, g) /\ g.mm[p].pte = s.mm[p].pte}
             F == [k \in D |-> [g \in G |-> exit_range(g, p, q[k])]]
             c == TopOf(D)
  <1>2. t = (CHOOSE i : P(i))[D]
    BY <1>1 DEF ExitAreas, FoldLeft, MapThenFoldSet
  <1>3. F \in [D -> [G -> G]]
    <2> SUFFICES ASSUME NEW k \in D, NEW g \in G PROVE exit_range(g, p, q[k]) \in G
      OBVIOUS
    <2>1. q[k] \in Areas /\ g \in With(p)
      BY <1>1
    <2>2. PICK h : h = exit_range(g, p, q[k])
      OBVIOUS
    <2>3. Worked(p, g, h) /\ h.mm[p].pte = g.mm[p].pte
      BY <2>1, <2>2, ExitRangeGood
    <2>4. Worked(p, s, h) /\ h \in With(p)
      BY <2>3, WorkedTwice DEF Worked, Only
    <2> QED
      BY <2>2, <2>3, <2>4
  <1>4. Chooses(c, D) /\ \A u \in SUBSET D : c[u] = Max(u)
    BY <1>1, TopChooses DEF TopOf
  <1> HIDE DEF c
  <1>5. \E i : P(i)
    <2> HIDE DEF G, F
    <2>1. PICK i \in [SUBSET D -> G] : Folds(i, D, c, F, s)
      <3>1. s \in G
        BY WorkedSelf DEF G
      <3>2. IsFiniteSet(D) /\ Chooses(c, D)
        BY <1>1, <1>4
      <3>3. \E i \in [SUBSET D -> G] : Folds(i, D, c, F, s)
        BY <1>3, <3>1, <3>2, FoldExists
      <3> QED
        BY <3>3
    <2>2. ASSUME NEW u \in SUBSET D, u # {}
          PROVE  F[c[u]][i[u \ {c[u]}]] = exit_range(i[u \ {c[u]}], p, q[c[u]])
      <3>1. c[u] \in D /\ i[u \ {c[u]}] \in G
        BY <1>4, <2>2 DEF Chooses
      <3> QED
        BY <3>1 DEF F
    <2>3. P(i)
      BY <1>4, <2>1, <2>2 DEF Folds
    <2> QED
      BY <2>3
  <1>6. PICK it : it = CHOOSE i : P(i)
    OBVIOUS
  <1>7. P(it)
    <2> HIDE DEF P
    <2> QED
      BY <1>5, <1>6
  <1>8. Rounds(it, D, c, F, s, G)
    <2>1. it[{}] = s
      BY <1>7
    <2>2. ASSUME NEW u \in SUBSET D, u # {}, it[u \ {c[u]}] \in G
          PROVE  it[u] = F[c[u]][it[u \ {c[u]}]]
      <3>1. it[u] = exit_range(it[u \ {c[u]}], p, q[c[u]])
        BY <1>4, <1>7, <2>2
      <3>2. c[u] \in D
        BY <1>4, <2>2 DEF Chooses
      <3> QED
        BY <2>2, <3>1, <3>2
    <2> HIDE DEF F, G
    <2> QED
      BY <2>1, <2>2 DEF Rounds
  <1>9. it[D] \in G
    <2>1. s \in G
      BY WorkedSelf
    <2>2. IsFiniteSet(D) /\ Chooses(c, D)
      BY <1>1, <1>4
    <2> HIDE DEF F, G
    <2> QED
      BY <1>3, <1>8, <2>1, <2>2, FoldStays
  <1> QED
    BY <1>2, <1>6, <1>9

(* Everything that a process maps is in one of its areas.                  *)
Inside(s, p) ==
  \A page \in Pages : s.mm[p].pte[page] # NoPTE => page \in Covered(s.mm[p].areas)

(* free_mm: an address space goes with all that it maps.                   *)
LEMMA FreeMmGood ==
  ASSUME NEW p \in Procs, NEW s \in States, Good(s), s.mm[p] # NoMm => Inside(s, p),
         NEW t, t = free_mm(s, p)
  PROVE  /\ t \in States /\ t.cow = s.cow /\ t.panic = s.panic /\ t.data = s.data
         /\ \A q \in Procs \ {p} : t.mm[q] = s.mm[q]
         /\ t.mm[p] = NoMm /\ Good(t)
  <1>1. CASE s.mm[p] = NoMm
    BY <1>1 DEF free_mm
  <1>2. CASE s.mm[p] # NoMm
    <2>1. s \in With(p)
      BY <1>2, MmTypes
    <2>2. PICK q : q = s.mm[p].areas
      OBVIOUS
    <2>3. q \in Seq(Areas)
      BY <2>1, <2>2 DEF With, FullMm
    <2>4. PICK a : a = UnmapAreas(s, p, q)
      OBVIOUS
    <2>5. Worked(p, s, a) /\ Cleared(p, s, a, Covered(q)) /\ a \in With(p)
      BY <2>1, <2>3, <2>4, UnmapAreasGood DEF Worked, Only
    <2>6. PICK b : b = ExitAreas(a, p, q)
      OBVIOUS
    <2>7. Worked(p, a, b) /\ b.mm[p].pte = a.mm[p].pte /\ b \in With(p)
      BY <2>3, <2>5, <2>6, ExitAreasGood DEF Worked, Only
    <2>8. t = put_pgdir(b, p)
      <3>1. exit_mmap(s, p) = ExitAreas(UnmapAreas(s, p, s.mm[p].areas), p, s.mm[p].areas)
        BY DEF exit_mmap, ExitAreas, UnmapAreas
      <3>2. exit_mmap(s, p) = b
        BY <2>2, <2>4, <2>6, <3>1
      <3> QED
        BY <1>2, <3>2 DEF free_mm
    <2>9. \A page \in Pages : b.mm[p].pte[page] = NoPTE
      <3>1. \A page \in Pages : b.mm[p].pte[page] = IF page \in Covered(q) THEN NoPTE
                                                    ELSE s.mm[p].pte[page]
        BY <2>5, <2>7 DEF Cleared
      <3> QED
        BY <1>2, <2>2, <3>1 DEF Inside
    <2>10. Worked(p, s, b)
      BY <2>5, <2>7, WorkedTwice
    <2>11. /\ t \in States /\ t.cow = b.cow /\ t.panic = b.panic /\ t.data = b.data
           /\ \A r \in Procs \ {p} : t.mm[r] = b.mm[r]
           /\ t.mm[p] = NoMm /\ Good(t)
      BY <2>7, <2>8, <2>9, <2>10, PutGood DEF Worked
    <2> QED
      BY <2>10, <2>11 DEF Worked, Only
  <1> QED
    BY <1>1, <1>2

(* What a process finds in its pages, and that others find what they did.  *)
Image(s, p) ==
  [page \in Pages |-> IF s.mm[p].pte[page] = NoPTE THEN Undef
                      ELSE s.data[s.mm[p].pte[page].frame]]
SameImages(p, s, t) ==
  \A q \in Procs \ {p} : s.mm[q] # NoMm => Image(t, q) = Image(s, q)

(* A page that was free is nobody's.                                       *)
LEMMA FreshData ==
  ASSUME NEW s \in States, Good(s), NEW f \in s.free \cap Frames,
         NEW p \in Procs, s.mm[p] # NoMm, NEW page \in Pages, s.mm[p].pte[page] # NoPTE
  PROVE  s.mm[p].pte[page].frame \in Frames \ {f}
  <1>1. PICK E, x : E = EntryOf(s) /\ x = <<p, page>>
    OBVIOUS
  <1>2. x \in Cells /\ E[x] = s.mm[p].pte[page]
    <2>1. s \in With(p)
      BY MmTypes
    <2> QED
      BY <1>1, <2>1, EntryAt
  <1>3. E \in [Cells -> Entry] /\ Clean(E) /\ s.ref[f] = 0 /\ Cardinality(At(E, f)) <= 0
    BY <1>1 DEF Good, Books, Balanced
  <1>4. At(E, f) = {}
    <2>1. Cardinality(At(E, f)) \in Nat /\ (Cardinality(At(E, f)) = 0 <=> At(E, f) = {})
      BY AtFinite
    <2> QED
      BY <1>3, <2>1
  <1>5. E[x].frame # f
    BY <1>2, <1>4 DEF At
  <1>6. E[x] \in Entry /\ E[x].frame # None
    BY <1>2, <1>3 DEF Clean
  <1> QED
    BY <1>2, <1>5, <1>6 DEF Entry

LEMMA PageImage ==
  ASSUME NEW p \in Procs, NEW s \in With(p), Good(s), NEW t, Only(p, s, t),
         NEW f \in s.free \cap Frames, NEW page \in Pages, NEW perm \in Perms, NEW v,
         t.mm[p].pte = PutAt(s.mm[p].pte, page, PTE(f, perm)), t.data = PutAt(s.data, f, v)
  PROVE  SameImages(p, s, t) /\ Image(t, p) = PutAt(Image(s, p), page, v)
  <1>1. s \in States /\ s.mm[p] # NoMm
    BY MmTypes DEF With
  <1>2. PICK d, e : d = s.data /\ e = PTE(f, perm)
    OBVIOUS
  <1>3. d \in [Frames -> Values] /\ e.frame = f /\ e # NoPTE
    BY <1>1, <1>2, EntryTypes DEF States
  <1>4. PutAt(d, f, v)[f] = v /\ \A x \in Frames \ {f} : PutAt(d, f, v)[x] = d[x]
    BY <1>3 DEF PutAt
  <1>5. ASSUME NEW q \in Procs \ {p}, s.mm[q] # NoMm PROVE Image(t, q) = Image(s, q)
    <2>1. t.mm[q] = s.mm[q]
      BY DEF Only
    <2>2. ASSUME NEW y \in Pages, s.mm[q].pte[y] # NoPTE
          PROVE  t.data[s.mm[q].pte[y].frame] = s.data[s.mm[q].pte[y].frame]
      BY <1>1, <1>2, <1>4, <1>5, <2>2, FreshData
    <2> QED
      BY <2>1, <2>2 DEF Image
  <1>6. PICK r, w : r = s.mm[p].pte /\ w = t.mm[p].pte
    OBVIOUS
  <1>7. r \in [Pages -> Entry] /\ w = PutAt(r, page, e)
    BY <1>2, <1>6 DEF With, FullMm
  <1>8. w[page] = e /\ \A y \in Pages \ {page} : w[y] = r[y]
    BY <1>7 DEF PutAt
  <1>9. ASSUME NEW y \in Pages, r[y] # NoPTE
        PROVE  PutAt(d, f, v)[r[y].frame] = d[r[y].frame]
    BY <1>1, <1>4, <1>6, <1>9, FreshData
  <1>10. PICK I : I = Image(s, p)
    OBVIOUS
  <1>11. I = [y \in Pages |-> IF r[y] = NoPTE THEN Undef ELSE d[r[y].frame]]
    BY <1>2, <1>6, <1>10 DEF Image
  <1>12. PICK b : b = PutAt(d, f, v)
    OBVIOUS
  <1>13. Image(t, p) = [y \in Pages |-> IF w[y] = NoPTE THEN Undef ELSE b[w[y].frame]]
    BY <1>2, <1>6, <1>12 DEF Image
  <1>14. \A y \in Pages : (IF w[y] = NoPTE THEN Undef ELSE b[w[y].frame])
                          = IF y = page THEN v ELSE I[y]
    BY <1>3, <1>4, <1>8, <1>9, <1>11, <1>12
  <1>15. PutAt(I, page, v) = [y \in Pages |-> IF y = page THEN v ELSE I[y]]
    BY <1>11 DEF PutAt
  <1> QED
    BY <1>5, <1>10, <1>13, <1>14, <1>15 DEF SameImages

LEMMA SameImagesTwice ==
  ASSUME NEW p, NEW s, NEW t, NEW u, Only(p, s, t), SameImages(p, s, t), SameImages(p, t, u)
  PROVE  SameImages(p, s, u)
  BY DEF Only, SameImages

(* What load_icode puts in the pages of u.                                 *)
Filled(p, s, t, u, v) ==
  /\ Only(p, s, t) /\ SameAreas(p, s, t)
  /\ ~t.panic => /\ Good(t) /\ SameImages(p, s, t)
                 /\ Image(t, p) = [page \in Pages |-> IF page \in u THEN v ELSE Image(s, p)[page]]

LEMMA FillGood ==
  ASSUME NEW p \in Procs, NEW s \in With(p), s.panic \/ Good(s), NEW D \in SUBSET Pages,
         NEW perm \in Perms, NEW v \in Values, NEW t, t = fill(s, p, D, perm, v)
  PROVE  Filled(p, s, t, D, v)
  <1>1. IsFiniteSet(D) /\ D \subseteq Pages /\ (s.panic \/ Good(s)) /\ s \in With(p)
    BY Sizes, FS_Subset
  <1> DEFINE P(i) == i = [u \in SUBSET D |->
                            IF u = {} THEN s
                            ELSE pgdir_alloc_page(i[u \ {CHOOSE x \in u : TRUE}], p, (CHOOSE x \in u : TRUE), perm, v)]
             G == {g \in With(p) : g.panic \/ Good(g)}
             F == [k \in D |-> [g \in G |-> pgdir_alloc_page(g, p, k, perm, v)]]
             c == AnyOf(D)
  <1>2. t = (CHOOSE i : P(i))[D]
    BY <1>1 DEF fill, FoldSet, MapThenFoldSet
  <1>3. F \in [D -> [G -> G]]
    <2> SUFFICES ASSUME NEW page \in D, NEW g \in G
                 PROVE  pgdir_alloc_page(g, p, page, perm, v) \in G
      OBVIOUS
    <2>1. page \in Pages /\ g \in With(p) /\ (g.panic \/ Good(g))
      BY <1>1
    <2>2. PICK h : h = pgdir_alloc_page(g, p, page, perm, v)
      OBVIOUS
    <2>3. Only(p, g, h) /\ (h.panic \/ Good(h))
      BY <2>1, <2>2, AllocPageGood
    <2> QED
      BY <2>2, <2>3 DEF Only
  <1>4. Chooses(c, D) /\ \A u \in SUBSET D : c[u] = CHOOSE x \in u : TRUE
    BY AnyChooses DEF AnyOf
  <1> HIDE DEF c
  <1>5. \E i : P(i)
    <2> HIDE DEF G, F
    <2>1. PICK i \in [SUBSET D -> G] : Folds(i, D, c, F, s)
      <3>1. s \in G
        BY <1>1 DEF G
      <3>2. IsFiniteSet(D) /\ Chooses(c, D)
        BY <1>1, <1>4
      <3>3. \E i \in [SUBSET D -> G] : Folds(i, D, c, F, s)
        BY <1>3, <3>1, <3>2, FoldExists
      <3> QED
        BY <3>3
    <2>2. ASSUME NEW u \in SUBSET D, u # {}
          PROVE  F[c[u]][i[u \ {c[u]}]] = pgdir_alloc_page(i[u \ {c[u]}], p, c[u], perm, v)
      <3>1. c[u] \in D /\ i[u \ {c[u]}] \in G
        BY <1>4, <2>2 DEF Chooses
      <3> QED
        BY <3>1 DEF F
    <2>3. P(i)
      <3>1. ASSUME NEW u \in SUBSET D, u # {}
            PROVE  i[u] = pgdir_alloc_page(i[u \ {CHOOSE x \in u : TRUE}], p,
                                           CHOOSE x \in u : TRUE, perm, v)
        <4>1. i[u] = F[c[u]][i[u \ {c[u]}]]
          BY <2>1, <3>1 DEF Folds
        <4>2. c[u] = CHOOSE x \in u : TRUE
          BY <1>4
        <4> QED
          BY <2>2, <3>1, <4>1, <4>2
      <3> QED
        BY <2>1, <3>1 DEF Folds
    <2> QED
      BY <2>3, ZenonT(40)
  <1>6. PICK it : it = CHOOSE i : P(i)
    OBVIOUS
  <1>7. P(it)
    <2> HIDE DEF P
    <2> QED
      BY <1>5, <1>6
  <1>8. Rounds(it, D, c, F, s, G)
    <2>1. it[{}] = s
      BY <1>7
    <2>2. ASSUME NEW u \in SUBSET D, u # {}, it[u \ {c[u]}] \in G
          PROVE  it[u] = F[c[u]][it[u \ {c[u]}]]
      <3>1. it[u] = pgdir_alloc_page(it[u \ {c[u]}], p, c[u], perm, v)
        BY <1>4, <1>7, <2>2
      <3>2. c[u] \in D
        BY <1>4, <2>2 DEF Chooses
      <3> QED
        BY <2>2, <3>1, <3>2
    <2> HIDE DEF F, G
    <2> QED
      BY <2>1, <2>2 DEF Rounds
  <1> DEFINE J == {x \in (SUBSET D) \X G : Filled(p, s, x[2], x[1], v)}
  <1>9. <<{}, s>> \in J
    <2>1. Image(s, p) = [page \in Pages |-> IF page \in {} THEN v ELSE Image(s, p)[page]]
      BY DEF Image
    <2>2. Filled(p, s, s, {}, v)
      BY <1>1, <2>1 DEF Filled, Only, SameAreas, SameImages
    <2> QED
      BY <1>1, <2>2
  <1>10. Leads(J, D, c, F, G)
    <2> SUFFICES ASSUME NEW u \in SUBSET D, NEW g \in G, u # {}, <<u \ {c[u]}, g>> \in J
                 PROVE  <<u, F[c[u]][g]>> \in J
      BY DEF Leads
    <2>1. PICK page : page = c[u]
      OBVIOUS
    <2>2. PICK h : h = pgdir_alloc_page(g, p, page, perm, v)
      OBVIOUS
    <2>3. page \in D /\ page \in Pages /\ page \in u
      BY <1>1, <1>4, <2>1 DEF Chooses
    <2>4. F[c[u]][g] = h /\ h \in G
      BY <1>3, <2>1, <2>2, <2>3
    <2>5. Filled(p, s, g, u \ {page}, v) /\ g \in With(p) /\ (g.panic \/ Good(g))
      BY <2>1
    <2>6. /\ Only(p, g, h) /\ SameAreas(p, g, h)
          /\ ~h.panic => /\ Good(h) /\ Good(g)
                         /\ SameImages(p, g, h) /\ Image(h, p) = PutAt(Image(g, p), page, v)
      <3>1. /\ Only(p, g, h) /\ SameAreas(p, g, h)
            /\ ~h.panic =>
                 /\ Good(h) /\ Good(g)
                 /\ \E f \in g.free \cap Frames :
                      /\ h.mm[p].pte = PutAt(g.mm[p].pte, page, PTE(f, perm))
                      /\ h.data = PutAt(g.data, f, v)
        BY <2>2, <2>3, <2>5, AllocPageGood
      <3> QED
        BY <2>3, <2>5, <3>1, PageImage
    <2>7. Only(p, s, h) /\ SameAreas(p, s, h)
      BY <2>5, <2>6, OnlyTwice DEF Filled, SameAreas
    <2>8. ASSUME ~h.panic
          PROVE  /\ Good(h) /\ SameImages(p, s, h)
                 /\ Image(h, p) = [x \in Pages |-> IF x \in u THEN v ELSE Image(s, p)[x]]
      <3>1. ~g.panic
        BY <2>6, <2>8 DEF Only
      <3>2. /\ Only(p, s, g) /\ SameImages(p, s, g)
            /\ Image(g, p) = [x \in Pages |-> IF x \in u \ {page} THEN v ELSE Image(s, p)[x]]
        BY <2>5, <3>1 DEF Filled
      <3>3. PICK a, b, d : a = Image(s, p) /\ b = Image(g, p) /\ d = Image(h, p)
        OBVIOUS
      <3>4. b = [x \in Pages |-> IF x \in u \ {page} THEN v ELSE a[x]] /\ d = PutAt(b, page, v)
        BY <2>6, <2>8, <3>2, <3>3
      <3>5. d = [x \in Pages |-> IF x \in u THEN v ELSE a[x]]
        BY <2>3, <3>4 DEF PutAt
      <3> QED
        BY <2>6, <2>8, <3>2, <3>3, <3>5, SameImagesTwice
    <2>9. Filled(p, s, h, u, v)
      BY <2>7, <2>8 DEF Filled
    <2>10. <<u, h>> \in J
      BY <2>4, <2>9
    <2> HIDE DEF J, F, G
    <2> QED
      BY <2>4, <2>10
  <1>11. it[D] \in G /\ <<D, it[D]>> \in J
    <2>1. s \in G
      BY <1>1
    <2>2. IsFiniteSet(D) /\ Chooses(c, D)
      BY <1>1, <1>4
    <2> HIDE DEF F, G, J
    <2> QED
      BY <1>3, <1>8, <1>9, <1>10, <2>1, <2>2, FoldKeeps
  <1> QED
    BY <1>2, <1>6, <1>11

LEMMA ImageType ==
  ASSUME NEW p \in Procs, NEW s \in With(p), Good(s)
  PROVE  /\ Image(s, p) \in [Pages -> Values \cup {Undef}]
         /\ \A page \in Pages : Image(s, p)[page] = Undef <=> s.mm[p].pte[page] = NoPTE
  <1>1. s \in States /\ s.data \in [Frames -> Values] /\ Undef \notin Values
    BY MmTypes DEF States, Undef, Values
  <1>2. ASSUME NEW page \in Pages, s.mm[p].pte[page] # NoPTE
        PROVE  s.mm[p].pte[page].frame \in Frames
    <2>1. PICK E, x : E = EntryOf(s) /\ x = <<p, page>>
      OBVIOUS
    <2>2. x \in Cells /\ E[x] = s.mm[p].pte[page]
      BY <2>1, EntryAt
    <2>3. E \in [Cells -> Entry] /\ Clean(E)
      BY <2>1 DEF Good, Books
    <2>4. E[x] \in Entry /\ E[x].frame # None
      BY <1>2, <2>2, <2>3 DEF Clean
    <2> QED
      BY <2>2, <2>4 DEF Entry
  <1> QED
    BY <1>1, <1>2 DEF Image

(* On the way of load_icode from s to g: what is mapped has an area.       *)
Loading(p, s, g) ==
  Only(p, s, g) /\ (~g.panic => Good(g) /\ Inside(g, p) /\ SameImages(p, s, g))

(* An area is mapped and pages of it get v.                                *)
Fills(g, p, area, D, perm, v, t) ==
  /\ D \in SUBSET Pages /\ D \subseteq In(area) /\ perm \in Perms /\ v \in Values
  /\ t = fill(mm_map(g, p, area), p, D, perm, v)

LEMMA MapAndFill ==
  ASSUME NEW p \in Procs, NEW s, NEW g \in With(p), Loading(p, s, g),
         NEW area \in Areas, NEW D, NEW perm, NEW v, NEW t, Fills(g, p, area, D, perm, v, t)
  PROVE  Loading(p, s, t) /\ t.mm[p].areas = Append(g.mm[p].areas, area)
  <1>1. PICK old, new : old = g.mm[p].areas /\ new = Append(old, area)
    OBVIOUS
  <1>2. old \in Seq(Areas) /\ new \in Seq(Areas)
    <2>1. old \in Seq(Areas)
      BY <1>1 DEF With, FullMm
    <2> QED
      BY <1>1, <2>1
  <1>3. PICK m : m = mm_map(g, p, area)
    OBVIOUS
  <1>4. m = PutAreas(g, p, new)
    <2>1. m = [g EXCEPT !.mm[p].areas = Append(@, area)]
      BY <1>3 DEF mm_map
    <2> QED
      BY <1>1, <2>1 DEF PutAreas
  <1>5. /\ Only(p, g, m) /\ m.mm[p].areas = new /\ m.mm[p].pte = g.mm[p].pte
        /\ m.panic = g.panic /\ m.data = g.data
        /\ Good(g) => Good(m)
    BY <1>2, <1>4, AreasGood
  <1>6. m \in With(p) /\ (m.panic \/ Good(m))
    BY <1>5 DEF Only, Loading
  <1>7. Filled(p, m, t, D, v)
    <2>1. D \in SUBSET Pages /\ perm \in Perms /\ v \in Values /\ t = fill(m, p, D, perm, v)
      BY <1>3 DEF Fills
    <2> QED
      BY <1>6, <2>1, FillGood
  <1>8. Only(p, s, t) /\ t.mm[p].areas = new
    <2>1. Only(p, s, g) /\ Only(p, m, t) /\ t.mm[p].areas = m.mm[p].areas
      BY <1>7 DEF Loading, Filled, SameAreas
    <2> QED
      BY <1>5, <2>1, OnlyTwice
  <1>9. ASSUME ~t.panic PROVE Good(t) /\ Inside(t, p) /\ SameImages(p, s, t)
    <2>1. ~m.panic /\ ~g.panic
      BY <1>5, <1>7, <1>9 DEF Filled, Only
    <2>2. /\ Good(g) /\ Inside(g, p) /\ Good(m) /\ Good(t)
          /\ SameImages(p, s, g) /\ SameImages(p, m, t)
      BY <1>5, <1>7, <1>9, <2>1 DEF Loading, Filled
    <2>3. SameImages(p, g, m) /\ Image(m, p) = Image(g, p)
      BY <1>5 DEF SameImages, Image, Only
    <2>4. SameImages(p, s, t)
      <3>1. Only(p, s, g)
        BY DEF Loading
      <3>2. SameImages(p, s, m) /\ Only(p, s, m)
        BY <1>5, <2>2, <2>3, <3>1, SameImagesTwice, OnlyTwice
      <3> QED
        BY <2>2, <3>2, SameImagesTwice
    <2>5. ASSUME NEW page \in Pages, t.mm[p].pte[page] # NoPTE
          PROVE  page \in Covered(t.mm[p].areas)
      <3>1. t \in With(p)
        BY <1>7 DEF Filled, Only
      <3>2. Image(t, p)[page] # Undef
        BY <2>2, <2>5, <3>1, ImageType
      <3>3. page \in D \/ Image(g, p)[page] # Undef
        <4>1. Image(t, p) = [x \in Pages |-> IF x \in D THEN v ELSE Image(g, p)[x]]
          BY <1>7, <1>9, <2>3 DEF Filled
        <4> QED
          BY <3>2, <4>1
      <3>4. page \in In(area) \/ page \in Covered(old)
        <4>1. Image(g, p)[page] # Undef => g.mm[p].pte[page] # NoPTE
          BY <2>2, ImageType
        <4> QED
          BY <1>1, <2>2, <3>3, <4>1 DEF Inside, Fills
      <3>5. /\ Len(old) \in Nat /\ DOMAIN new = 1..(Len(old) + 1) /\ new[Len(old) + 1] = area
            /\ DOMAIN old = 1..Len(old) /\ \A k \in 1..Len(old) : new[k] = old[k]
        BY <1>1, <1>2, AppendProperties
      <3>6. \A k \in DOMAIN old : k \in DOMAIN new /\ new[k] = old[k]
        BY <3>5
      <3>7. Len(old) + 1 \in DOMAIN new
        BY <3>5
      <3>8. page \in Covered(new)
        BY <3>4, <3>5, <3>6, <3>7 DEF Covered
      <3> QED
        BY <1>8, <3>8
    <2> QED
      BY <2>2, <2>4, <2>5 DEF Inside
  <1> QED
    BY <1>1, <1>8, <1>9 DEF Loading

LEMMA SegmentGood ==
  ASSUME NEW p \in Procs, NEW s, NEW g \in With(p), Loading(p, s, g), NEW seg \in Areas,
         NEW t, t = load_segment(g, p, seg)
  PROVE  Loading(p, s, t) /\ t.mm[p].areas = Append(g.mm[p].areas, seg)
  <1>1. PICK perm : perm = IF seg.write THEN "rw" ELSE "r"
    OBVIOUS
  <1>2. perm \in Perms /\ 0 \in Values
    BY <1>1 DEF Perms, Values
  <1>3. In(seg) \in SUBSET Pages
    BY AreaPages
  <1>4. t = fill(mm_map(g, p, seg), p, In(seg), perm, 0)
    BY <1>1, Zenon DEF load_segment
  <1>5. Fills(g, p, seg, In(seg), perm, 0, t)
    BY <1>2, <1>3, <1>4 DEF Fills
  <1> QED
    BY <1>5, MapAndFill

LEMMA StackGood ==
  ASSUME NEW p \in Procs, NEW s, NEW g \in With(p), Loading(p, s, g), NEW v \in Values,
         NEW t, t = load_stack(g, p, v)
  PROVE  Loading(p, s, t) /\ t.mm[p].areas = Append(g.mm[p].areas, StackArea)
  <1>1. PICK D : D = (StackArea.end - StackPages)..(StackArea.end - 1)
    OBVIOUS
  <1>2. StackArea \in Areas /\ "rw" \in Perms
    BY DEF Areas, Perms
  <1>3. D \subseteq In(StackArea) /\ In(StackArea) \in SUBSET Pages
    <2>1. PICK a, b : a = StackArea.start /\ b = StackArea.end
      OBVIOUS
    <2>2. a \in Int /\ b \in Int /\ In(StackArea) = a..(b - 1) /\ a..(b - 1) # {}
          /\ In(StackArea) \in SUBSET Pages /\ StackPages \in 1..Cardinality(In(StackArea))
      BY <2>1, VmAssumption DEF In
    <2>3. Cardinality(a..(b - 1)) = b - a
      BY <2>2, FS_Interval
    <2>4. StackPages \in Int /\ StackPages <= b - a
      BY <2>2, <2>3
    <2> QED
      BY <1>1, <2>1, <2>2, <2>4
  <1>4. t = fill(mm_map(g, p, StackArea), p, D, "rw", v)
    BY <1>1, Zenon DEF load_stack
  <1>5. Fills(g, p, StackArea, D, "rw", v, t)
    BY <1>2, <1>3, <1>4 DEF Fills
  <1> QED
    BY <1>2, <1>5, MapAndFill

(* The segments that load_icode has loaded.                                *)
Loads(p, s, q) == FoldLeft(LAMBDA t, seg : load_segment(t, p, seg), s, q)

LEMMA LoadsGood ==
  ASSUME NEW p \in Procs, NEW s \in With(p), Loading(p, s, s), s.mm[p].areas = <<>>,
         NEW q \in Seq(Areas), NEW t, t = Loads(p, s, q)
  PROVE  Loading(p, s, t) /\ t.mm[p].areas = q
  <1>1. PICK D : D = DOMAIN q /\ D = 1..Len(q) /\ IsFiniteSet(D) /\ Len(q) \in Nat
                 /\ (\A k \in D : q[k] \in Areas) /\ Loading(p, s, s)
    <2>1. DOMAIN q = 1..Len(q) /\ Len(q) \in Nat /\ \A k \in 1..Len(q) : q[k] \in Areas
      OBVIOUS
    <2>2. IsFiniteSet(1..Len(q))
      BY <2>1, FS_Interval
    <2> QED
      BY <2>1, <2>2
  <1> DEFINE P(i) == i = [u \in SUBSET D |->
                            IF u = {} THEN s
                            ELSE load_segment(i[u \ {Max(u)}], p, q[Max(u)])]
             G == {g \in With(p) : Loading(p, s, g)}
             F == [k \in D |-> [g \in G |-> load_segment(g, p, q[k])]]
             c == TopOf(D)
  <1>2. t = (CHOOSE i : P(i))[D]
    BY <1>1 DEF Loads, FoldLeft, MapThenFoldSet
  <1>3. F \in [D -> [G -> G]]
    <2> SUFFICES ASSUME NEW k \in D, NEW g \in G PROVE load_segment(g, p, q[k]) \in G
      OBVIOUS
    <2>1. q[k] \in Areas /\ g \in With(p) /\ Loading(p, s, g)
      BY <1>1
    <2>2. PICK h : h = load_segment(g, p, q[k])
      OBVIOUS
    <2>3. Loading(p, s, h)
      BY <2>1, <2>2, SegmentGood
    <2> QED
      BY <2>2, <2>3 DEF Loading, Only
  <1>4. Chooses(c, D) /\ \A u \in SUBSET D : c[u] = Max(u)
    BY <1>1, TopChooses DEF TopOf
  <1> HIDE DEF c
  <1>5. \E i : P(i)
    <2> HIDE DEF G, F
    <2>1. PICK i \in [SUBSET D -> G] : Folds(i, D, c, F, s)
      <3>1. s \in G
        BY <1>1 DEF G
      <3>2. IsFiniteSet(D) /\ Chooses(c, D)
        BY <1>1, <1>4
      <3>3. \E i \in [SUBSET D -> G] : Folds(i, D, c, F, s)
        BY <1>3, <3>1, <3>2, FoldExists
      <3> QED
        BY <3>3
    <2>2. ASSUME NEW u \in SUBSET D, u # {}
          PROVE  F[c[u]][i[u \ {c[u]}]] = load_segment(i[u \ {c[u]}], p, q[c[u]])
      <3>1. c[u] \in D /\ i[u \ {c[u]}] \in G
        BY <1>4, <2>2 DEF Chooses
      <3> QED
        BY <3>1 DEF F
    <2>3. P(i)
      <3>1. ASSUME NEW u \in SUBSET D, u # {}
            PROVE  i[u] = load_segment(i[u \ {Max(u)}], p, q[Max(u)])
        <4>1. i[u] = F[c[u]][i[u \ {c[u]}]]
          BY <2>1, <3>1 DEF Folds
        <4>2. c[u] = Max(u)
          BY <1>4
        <4> QED
          BY <2>2, <3>1, <4>1, <4>2
      <3> QED
        BY <2>1, <3>1 DEF Folds
    <2> QED
      BY <2>3
  <1>6. PICK it : it = CHOOSE i : P(i)
    OBVIOUS
  <1>7. P(it)
    <2> HIDE DEF P
    <2> QED
      BY <1>5, <1>6
  <1>8. Rounds(it, D, c, F, s, G)
    <2>1. it[{}] = s
      BY <1>7
    <2>2. ASSUME NEW u \in SUBSET D, u # {}, it[u \ {c[u]}] \in G
          PROVE  it[u] = F[c[u]][it[u \ {c[u]}]]
      <3>1. it[u] = load_segment(it[u \ {c[u]}], p, q[c[u]])
        BY <1>4, <1>7, <2>2
      <3>2. c[u] \in D
        BY <1>4, <2>2 DEF Chooses
      <3> QED
        BY <2>2, <3>1, <3>2
    <2> HIDE DEF F, G
    <2> QED
      BY <2>1, <2>2 DEF Rounds
  <1> DEFINE J == {x \in (SUBSET D) \X G :
                     \A k \in 0..Len(q) : x[1] = 1..k => x[2].mm[p].areas = SubSeq(q, 1, k)}
  <1>9. <<{}, s>> \in J
    <2>1. \A k \in 0..Len(q) : {} = 1..k => SubSeq(q, 1, k) = <<>>
      <3>1. SUFFICES ASSUME NEW k \in 0..Len(q), {} = 1..k PROVE k = 0
        OBVIOUS
      <3>2. k \in Nat /\ (k > 0 => 1 \in 1..k)
        BY <1>1
      <3> QED
        BY <3>1, <3>2
    <2> QED
      BY <1>1, <2>1
  <1>10. Leads(J, D, c, F, G)
    <2> SUFFICES ASSUME NEW u \in SUBSET D, NEW g \in G, u # {}, <<u \ {c[u]}, g>> \in J
                 PROVE  <<u, F[c[u]][g]>> \in J
      BY DEF Leads
    <2>1. PICK k : k = c[u]
      OBVIOUS
    <2>2. PICK h : h = load_segment(g, p, q[k])
      OBVIOUS
    <2>3. k \in D /\ k \in u /\ q[k] \in Areas
      BY <1>1, <1>4, <2>1 DEF Chooses
    <2>4. F[c[u]][g] = h /\ h \in G
      BY <1>3, <2>1, <2>2, <2>3
    <2>5. h.mm[p].areas = Append(g.mm[p].areas, q[k])
      BY <2>2, <2>3, SegmentGood
    <2>6. ASSUME NEW n \in 0..Len(q), u = 1..n PROVE h.mm[p].areas = SubSeq(q, 1, n)
      <3>1. n \in Nat /\ n <= Len(q)
        BY <1>1
      <3>2. k = n
        <4>1. k = Max(1..n) /\ n > 0
          BY <1>4, <2>1, <2>3, <2>6, <3>1
        <4>2. n \in 1..n /\ \A m \in 1..n : n >= m
          BY <3>1, <4>1
        <4>3. Max(1..n) \in 1..n /\ \A m \in 1..n : Max(1..n) >= m
          BY <4>2 DEF Max
        <4> QED
          BY <3>1, <4>1, <4>2, <4>3
      <3>3. u \ {k} = 1..(n - 1) /\ n - 1 \in 0..Len(q)
        BY <2>3, <2>6, <3>1, <3>2
      <3>4. g.mm[p].areas = SubSeq(q, 1, n - 1)
        BY <2>1, <3>3
      <3>5. SubSeq(q, 1, n) = Append(SubSeq(q, 1, n - 1), q[n])
        <4>1. SubSeq(q, 1, n) = SubSeq(q, 1, n - 1) \o <<q[n]>>
          BY <1>1, <2>3, <3>1, <3>2, SubSeqRecursiveSecond
        <4>2. SubSeq(q, 1, n - 1) \in Seq(Areas)
          BY <1>1, <3>1, SubSeqProperties
        <4> QED
          BY <2>3, <3>2, <4>1, <4>2, AppendIsConcat
      <3> QED
        BY <2>5, <3>2, <3>4, <3>5
    <2>7. <<u, h>> \in J
      BY <2>4, <2>6
    <2> HIDE DEF J, F, G
    <2> QED
      BY <2>4, <2>7
  <1>11. it[D] \in G /\ <<D, it[D]>> \in J
    <2>1. s \in G
      BY <1>1
    <2>2. IsFiniteSet(D) /\ Chooses(c, D)
      BY <1>1, <1>4
    <2> HIDE DEF F, G, J
    <2> QED
      BY <1>3, <1>8, <1>9, <1>10, <2>1, <2>2, FoldKeeps
  <1>12. Loading(p, s, t) /\ t.mm[p].areas = SubSeq(q, 1, Len(q))
    <2>1. PICK h : h = it[D]
      OBVIOUS
    <2>2. h = t /\ h \in G /\ <<D, h>> \in J
      BY <1>2, <1>6, <1>11, <2>1
    <2>3. Len(q) \in 0..Len(q) /\ D = 1..Len(q)
      BY <1>1
    <2> QED
      BY <2>2, <2>3, SMTT(30)
  <1>13. SubSeq(q, 1, Len(q)) = q
    BY SubSeqFull
  <1> QED
    BY <1>12, <1>13

(* An entry that is there names a page.                                    *)
LEMMA FrameOf ==
  ASSUME NEW p \in Procs, NEW s \in With(p), Good(s), NEW page \in Pages
  PROVE  /\ s.mm[p].pte[page].frame \in Frames \cup {None}
         /\ s.mm[p].pte[page].frame = None <=> s.mm[p].pte[page] = NoPTE
  <1>1. PICK E, x : E = EntryOf(s) /\ x = <<p, page>>
    OBVIOUS
  <1>2. x \in Cells /\ E[x] = s.mm[p].pte[page]
    BY <1>1, EntryAt
  <1>3. E \in [Cells -> Entry] /\ Clean(E)
    BY <1>1 DEF Good, Books
  <1> QED
    BY <1>2, <1>3, EntryTypes DEF Clean, Entry

(* dup_mmap has gone from b to g: the parent's pages are the same, the     *)
(* child shares those in u.                                                *)
CopyRound(t, from, to, page) ==
  IF t.panic THEN t
  ELSE IF t.cow THEN cow_copy_page(t, from, to, page) ELSE copy_page(t, from, to, page)

Dupped(b, from, to, g) ==
  /\ g \in With(from) /\ g \in With(to) /\ g.cow = b.cow /\ (b.panic => g.panic)
  /\ \A q \in Procs \ {from, to} : g.mm[q] = b.mm[q]
  /\ SameAreas(from, b, g) /\ SameAreas(to, b, g) /\ g.data = b.data
  /\ ~g.panic => /\ Good(g)
                 /\ \A page \in Pages :
                      g.mm[from].pte[page].frame = b.mm[from].pte[page].frame
Shares(from, to, g, u) ==
  g.panic \/ \A page \in Pages :
               g.mm[to].pte[page] = IF page \in u THEN g.mm[from].pte[page] ELSE NoPTE

LEMMA CopyRoundGood ==
  ASSUME NEW from \in Procs, NEW to \in Procs, from # to, NEW b, NEW g, Dupped(b, from, to, g),
         NEW page \in Pages, b.mm[from].pte[page].frame # None,
         NEW t, t = CopyRound(g, from, to, page)
  PROVE  /\ Dupped(b, from, to, t)
         /\ \A u : Shares(from, to, g, u \ {page}) /\ page \in u => Shares(from, to, t, u)
  <1>1. g \in With(from) /\ g \in With(to)
    BY DEF Dupped
  <1>2. CASE g.panic
    <2>1. t = g
      BY <1>2 DEF CopyRound
    <2> QED
      BY <1>2, <2>1 DEF Shares
  <1>3. CASE ~g.panic
    <2>1. Good(g) /\ \A x \in Pages : g.mm[from].pte[x].frame = b.mm[from].pte[x].frame
      BY <1>3 DEF Dupped
    <2>2. g.mm[from].pte[page] # NoPTE
      BY <1>1, <2>1, FrameOf
    <2>3. Copied(g, from, to, page, t)
      BY <1>1, <1>3, <2>1, <2>2, CowCopyGood, CopyGood DEF CopyRound
    <2>4. PICK f, perm : /\ f = g.mm[from].pte[page].frame
                         /\ perm = ReadOnly(g.mm[from].pte[page].perm)
      OBVIOUS
    <2>5. PICK e : e = PTE(f, perm)
      OBVIOUS
    <2>6. /\ t \in With(from) /\ t \in With(to) /\ t.cow = g.cow
          /\ \A q \in Procs \ {from, to} : t.mm[q] = g.mm[q]
          /\ SameAreas(from, g, t) /\ SameAreas(to, g, t) /\ t.data = g.data
          /\ ~t.panic => /\ Good(t)
                         /\ t.mm[from].pte = PutAt(g.mm[from].pte, page, e)
                         /\ t.mm[to].pte = PutAt(g.mm[to].pte, page, e)
      BY <2>3, <2>4, <2>5 DEF Copied
    <2>7. PICK r, q : r = g.mm[from].pte /\ q = g.mm[to].pte
      OBVIOUS
    <2>8. r \in [Pages -> Entry] /\ q \in [Pages -> Entry]
      BY <1>1, <2>7 DEF With, FullMm
    <2>9. e.frame = f
      BY <2>5 DEF PTE
    <2>10. /\ PutAt(r, page, e)[page] = e /\ PutAt(q, page, e)[page] = e
           /\ \A x \in Pages \ {page} : PutAt(r, page, e)[x] = r[x] /\ PutAt(q, page, e)[x] = q[x]
      BY <2>8 DEF PutAt
    <2>11. PICK v, w : v = PutAt(r, page, e) /\ w = PutAt(q, page, e)
      OBVIOUS
    <2>12. \A x \in Pages : v[x].frame = r[x].frame
      BY <2>4, <2>7, <2>9, <2>10, <2>11
    <2>13. ~t.panic => /\ Good(t)
                       /\ \A x \in Pages : t.mm[from].pte[x].frame = g.mm[from].pte[x].frame
      BY <2>6, <2>7, <2>11, <2>12
    <2>14. Dupped(b, from, to, t)
      BY <1>3, <2>1, <2>6, <2>13 DEF Dupped, SameAreas
    <2>15. ASSUME NEW u, Shares(from, to, g, u \ {page}), page \in u PROVE Shares(from, to, t, u)
      <3>1. \A x \in Pages : q[x] = IF x \in u \ {page} THEN r[x] ELSE NoPTE
        BY <1>3, <2>7, <2>15 DEF Shares
      <3>2. \A x \in Pages : w[x] = IF x \in u THEN v[x] ELSE NoPTE
        BY <2>10, <2>11, <2>15, <3>1
      <3>3. ~t.panic => t.mm[from].pte = v /\ t.mm[to].pte = w
        BY <2>6, <2>7, <2>11
      <3> QED
        BY <3>2, <3>3 DEF Shares
    <2> QED
      BY <2>14, <2>15
  <1> QED
    BY <1>2, <1>3

CopyAll(b, from, to, D) == FoldSet(LAMBDA page, u : CopyRound(u, from, to, page), b, D)

LEMMA DupGood ==
  ASSUME NEW from \in Procs, NEW to \in Procs, from # to, NEW s \in With(from), s \in With(to),
         Good(s), ~s.panic, \A page \in Pages : s.mm[to].pte[page] = NoPTE,
         NEW t, t = dup_mmap(s, from, to)
  PROVE  /\ t \in With(from) /\ t \in With(to) /\ t.cow = s.cow /\ t.data = s.data
         /\ \A q \in Procs \ {from, to} : t.mm[q] = s.mm[q]
         /\ t.mm[from].areas = s.mm[from].areas /\ t.mm[to].areas = s.mm[from].areas
         /\ ~t.panic => /\ Good(t) /\ t.mm[to].pte = t.mm[from].pte
                        /\ \A page \in Pages :
                             t.mm[from].pte[page].frame = s.mm[from].pte[page].frame
  <1>1. PICK D, b : D = Mapped(s, from) /\ b = PutAreas(s, to, s.mm[from].areas)
    OBVIOUS
  <1>2. t = CopyAll(b, from, to, D)
    <2>1. dup_mmap(s, from, to)
          = CopyAll(PutAreas(s, to, s.mm[from].areas), from, to, Mapped(s, from))
      BY DEF dup_mmap, CopyAll, CopyRound, PutAreas, FoldSet, MapThenFoldSet
    <2> QED
      BY <1>1, <2>1
  <1>3. /\ D \subseteq Pages /\ IsFiniteSet(D)
        /\ \A page \in Pages : page \in D <=> b.mm[from].pte[page].frame # None
        /\ Dupped(b, from, to, b) /\ b \in States /\ Shares(from, to, b, {})
        /\ b.cow = s.cow /\ b.data = s.data /\ ~b.panic
        /\ \A q \in Procs \ {from, to} : b.mm[q] = s.mm[q]
        /\ b.mm[from] = s.mm[from] /\ b.mm[to].areas = s.mm[from].areas
    <2>1. PICK areas : areas = s.mm[from].areas
      OBVIOUS
    <2>2. areas \in Seq(Areas)
      BY <2>1 DEF With, FullMm
    <2>3. /\ Only(to, s, b) /\ b.mm[to].areas = areas /\ b.mm[to].pte = s.mm[to].pte
          /\ b.panic = s.panic /\ b.data = s.data /\ Good(b)
      BY <1>1, <2>1, <2>2, AreasGood
    <2>4. D \in SUBSET Pages /\ \A page \in Pages : page \in D <=> s.mm[from].pte[page] # NoPTE
      BY <1>1 DEF Mapped
    <2>5. IsFiniteSet(D)
      BY <2>4, Sizes, FS_Subset
    <2>6. b.mm[from] = s.mm[from] /\ b \in With(to) /\ b \in States
      BY <2>3, MmTypes DEF Only
    <2>7. b \in With(from)
      BY <2>6 DEF With
    <2>8. \A page \in Pages : page \in D <=> b.mm[from].pte[page].frame # None
      BY <2>4, <2>6, FrameOf
    <2>9. Shares(from, to, b, {})
      BY <2>3 DEF Shares
    <2>10. Dupped(b, from, to, b)
      BY <2>3, <2>6, <2>7 DEF Dupped, SameAreas
    <2> QED
      BY <2>1, <2>3, <2>4, <2>5, <2>6, <2>8, <2>9, <2>10 DEF Only
  <1> DEFINE P(i) == i = [u \in SUBSET D |->
                            IF u = {} THEN b
                            ELSE CopyRound(i[u \ {CHOOSE x \in u : TRUE}], from, to, (CHOOSE x \in u : TRUE))]
             G == {g \in States : Dupped(b, from, to, g)}
             F == [k \in D |-> [g \in G |-> CopyRound(g, from, to, k)]]
             c == AnyOf(D)
  <1>4. t = (CHOOSE i : P(i))[D]
    BY <1>1, <1>2 DEF CopyAll, FoldSet, MapThenFoldSet
  <1>5. F \in [D -> [G -> G]]
    <2> SUFFICES ASSUME NEW page \in D, NEW g \in G PROVE CopyRound(g, from, to, page) \in G
      OBVIOUS
    <2>1. page \in Pages /\ Dupped(b, from, to, g) /\ b.mm[from].pte[page].frame # None
      BY <1>3
    <2>2. PICK h : h = CopyRound(g, from, to, page)
      OBVIOUS
    <2>3. Dupped(b, from, to, h)
      BY <2>1, <2>2, CopyRoundGood
    <2>4. h \in States
      BY <2>3, MmTypes DEF Dupped
    <2> QED
      BY <2>2, <2>3, <2>4
  <1>6. Chooses(c, D) /\ \A u \in SUBSET D : c[u] = CHOOSE x \in u : TRUE
    BY AnyChooses DEF AnyOf
  <1> HIDE DEF c
  <1>7. \E i : P(i)
    <2> HIDE DEF G, F
    <2>1. PICK i \in [SUBSET D -> G] : Folds(i, D, c, F, b)
      <3>1. b \in G
        BY <1>3 DEF G
      <3>2. IsFiniteSet(D) /\ Chooses(c, D)
        BY <1>3, <1>6
      <3>3. \E i \in [SUBSET D -> G] : Folds(i, D, c, F, b)
        BY <1>5, <3>1, <3>2, FoldExists
      <3> QED
        BY <3>3
    <2>2. ASSUME NEW u \in SUBSET D, u # {}
          PROVE  F[c[u]][i[u \ {c[u]}]] = CopyRound(i[u \ {c[u]}], from, to, c[u])
      <3>1. c[u] \in D /\ i[u \ {c[u]}] \in G
        BY <1>6, <2>2 DEF Chooses
      <3> QED
        BY <3>1 DEF F
    <2>3. P(i)
      <3>1. ASSUME NEW u \in SUBSET D, u # {}
            PROVE  i[u] = CopyRound(i[u \ {CHOOSE x \in u : TRUE}], from, to,
                                    CHOOSE x \in u : TRUE)
        <4>1. i[u] = F[c[u]][i[u \ {c[u]}]]
          BY <2>1, <3>1 DEF Folds
        <4>2. c[u] = CHOOSE x \in u : TRUE
          BY <1>6
        <4> QED
          BY <2>2, <3>1, <4>1, <4>2
      <3> QED
        BY <2>1, <3>1 DEF Folds
    <2> QED
      BY <2>3
  <1>8. PICK it : it = CHOOSE i : P(i)
    OBVIOUS
  <1>9. P(it)
    <2> HIDE DEF P
    <2> QED
      BY <1>7, <1>8
  <1>10. Rounds(it, D, c, F, b, G)
    <2>1. it[{}] = b
      BY <1>9
    <2>2. ASSUME NEW u \in SUBSET D, u # {}, it[u \ {c[u]}] \in G
          PROVE  it[u] = F[c[u]][it[u \ {c[u]}]]
      <3>1. it[u] = CopyRound(it[u \ {c[u]}], from, to, c[u])
        BY <1>6, <1>9, <2>2
      <3>2. c[u] \in D
        BY <1>6, <2>2 DEF Chooses
      <3> QED
        BY <2>2, <3>1, <3>2
    <2> HIDE DEF F, G
    <2> QED
      BY <2>1, <2>2 DEF Rounds
  <1> DEFINE J == {x \in (SUBSET D) \X G : Shares(from, to, x[2], x[1])}
  <1>11. <<{}, b>> \in J
    BY <1>3
  <1>12. Leads(J, D, c, F, G)
    <2> SUFFICES ASSUME NEW u \in SUBSET D, NEW g \in G, u # {}, <<u \ {c[u]}, g>> \in J
                 PROVE  <<u, F[c[u]][g]>> \in J
      BY DEF Leads
    <2>1. PICK page : page = c[u]
      OBVIOUS
    <2>2. PICK h : h = CopyRound(g, from, to, page)
      OBVIOUS
    <2>3. page \in D /\ page \in Pages /\ page \in u
      BY <1>3, <1>6, <2>1 DEF Chooses
    <2>4. F[c[u]][g] = h /\ h \in G
      BY <1>5, <2>1, <2>2, <2>3
    <2>5. Dupped(b, from, to, g) /\ Shares(from, to, g, u \ {page})
      BY <2>1
    <2>6. b.mm[from].pte[page].frame # None
      BY <1>3, <2>3
    <2>7. Shares(from, to, h, u)
      BY <2>2, <2>3, <2>5, <2>6, CopyRoundGood
    <2>8. <<u, h>> \in J
      BY <2>4, <2>7
    <2> HIDE DEF J, F, G
    <2> QED
      BY <2>4, <2>8
  <1>13. it[D] \in G /\ <<D, it[D]>> \in J
    <2>1. b \in G
      BY <1>3
    <2>2. IsFiniteSet(D) /\ Chooses(c, D)
      BY <1>3, <1>6
    <2> HIDE DEF F, G, J
    <2> QED
      BY <1>5, <1>10, <1>11, <1>12, <2>1, <2>2, FoldKeeps
  <1>14. Dupped(b, from, to, t) /\ Shares(from, to, t, D)
    <2>1. PICK h : h = it[D]
      OBVIOUS
    <2>2. h = t /\ h \in G /\ <<D, h>> \in J
      BY <1>4, <1>8, <1>13, <2>1
    <2> QED
      BY <2>2
  <1>15. /\ t \in With(from) /\ t \in With(to) /\ t.cow = s.cow /\ t.data = s.data
         /\ \A q \in Procs \ {from, to} : t.mm[q] = s.mm[q]
         /\ t.mm[from].areas = s.mm[from].areas /\ t.mm[to].areas = s.mm[from].areas
    BY <1>3, <1>14 DEF Dupped, SameAreas
  <1>16. ASSUME ~t.panic
         PROVE  /\ Good(t) /\ t.mm[to].pte = t.mm[from].pte
                /\ \A page \in Pages :
                     t.mm[from].pte[page].frame = s.mm[from].pte[page].frame
    <2>1. Good(t) /\ \A page \in Pages : t.mm[from].pte[page].frame = b.mm[from].pte[page].frame
      BY <1>14, <1>16 DEF Dupped
    <2>2. \A page \in Pages : t.mm[to].pte[page] = IF page \in D THEN t.mm[from].pte[page] ELSE NoPTE
      BY <1>14, <1>16 DEF Shares
    <2>3. \A page \in Pages : page \notin D => t.mm[from].pte[page] = NoPTE
      BY <1>3, <1>15, <2>1, FrameOf
    <2>4. t.mm[to].pte \in [Pages -> Entry] /\ t.mm[from].pte \in [Pages -> Entry]
      BY <1>15 DEF With, FullMm
    <2>5. t.mm[to].pte = t.mm[from].pte
      BY <2>2, <2>3, <2>4
    <2> QED
      BY <1>3, <2>1, <2>5
  <1> QED
    BY <1>15, <1>16
-----------------------------------------------------------------------------
(* A state between two steps, and the memory that it shows.                *)
Settled(s, p) == Inside(s, p) /\ Covered(s.mm[p].areas) # {}
Whole(s) == s \in States /\ Good(s) /\ \A p \in Procs : s.mm[p] # NoMm => Settled(s, p)

MemOf(s) ==
  [p \in Procs |->
     IF s.mm[p] = NoMm THEN <<>>
     ELSE [page \in Covered(s.mm[p].areas) |->
             LET pte == s.mm[p].pte[page]
             IN  IF pte = NoPTE THEN Undef ELSE s.data[pte.frame]]]

(* Nothing changes for the processes other than p.                         *)
Others(p, s, t) ==
  \A q \in Procs \ {p} :
    /\ t.mm[q] = NoMm <=> s.mm[q] = NoMm
    /\ s.mm[q] # NoMm => SameAreas(q, s, t) /\ Image(t, q) = Image(s, q)

LEMMA CoveredPages ==
  ASSUME NEW q \in Seq(Areas)
  PROVE  Covered(q) \subseteq Pages
  <1>1. \A k \in DOMAIN q : q[k] \in Areas
    OBVIOUS
  <1>2. \A area \in Areas : In(area) \subseteq Pages
    BY AreaPages
  <1> QED
    BY <1>1, <1>2 DEF Covered

LEMMA MemImage ==
  ASSUME NEW s \in States, NEW p \in Procs
  PROVE  MemOf(s)[p] = IF s.mm[p] = NoMm THEN <<>>
                       ELSE [page \in Covered(s.mm[p].areas) |-> Image(s, p)[page]]
  <1>1. CASE s.mm[p] = NoMm
    BY <1>1, SMTT(30) DEF MemOf
  <1>2. CASE s.mm[p] # NoMm
    <2>1. s.mm[p].areas \in Seq(Areas)
      BY <1>2, MmTypes DEF With, FullMm
    <2>2. \A page \in Covered(s.mm[p].areas) : page \in Pages
      BY <2>1, CoveredPages
    <2>3. MemOf(s)[p] = [page \in Covered(s.mm[p].areas) |->
                           IF s.mm[p].pte[page] = NoPTE THEN Undef
                           ELSE s.data[s.mm[p].pte[page].frame]]
      BY <1>2 DEF MemOf
    <2>4. \A page \in Pages : Image(s, p)[page] = IF s.mm[p].pte[page] = NoPTE THEN Undef
                                                  ELSE s.data[s.mm[p].pte[page].frame]
      BY DEF Image
    <2> QED
      BY <1>2, <2>2, <2>3, <2>4
  <1> QED
    BY <1>1, <1>2

LEMMA SameMemory ==
  ASSUME NEW s \in States, NEW t \in States, NEW p \in Procs, t.mm[p] = NoMm <=> s.mm[p] = NoMm,
         s.mm[p] # NoMm => SameAreas(p, s, t) /\ Image(t, p) = Image(s, p)
  PROVE  MemOf(t)[p] = MemOf(s)[p]
  <1>1. CASE s.mm[p] = NoMm
    BY <1>1, MemImage
  <1>2. CASE s.mm[p] # NoMm
    <2>1. PICK u, i : u = Covered(s.mm[p].areas) /\ i = Image(s, p)
      OBVIOUS
    <2>2. MemOf(s)[p] = [page \in u |-> i[page]]
      BY <1>2, <2>1, MemImage
    <2>3. u = Covered(t.mm[p].areas) /\ i = Image(t, p)
      BY <1>2, <2>1 DEF SameAreas
    <2>4. MemOf(t)[p] = [page \in u |-> i[page]]
      BY <1>2, <2>3, MemImage
    <2> QED
      BY <2>2, <2>4
  <1> QED
    BY <1>1, <1>2

LEMMA InsideImage ==
  ASSUME NEW p \in Procs, NEW s \in With(p), Good(s)
  PROVE  Inside(s, p) <=> \A page \in Pages : Image(s, p)[page] # Undef
                                              => page \in Covered(s.mm[p].areas)
  BY ImageType DEF Inside

(* A step of p, in a memory that others share.                             *)
LEMMA StepOf ==
  ASSUME NEW p \in Procs, NEW s, Whole(s), NEW t \in States, Good(t), Others(p, s, t),
         t.mm[p] # NoMm => Settled(t, p)
  PROVE  Whole(t) /\ MemOf(t) = PutAt(MemOf(s), p, MemOf(t)[p])
  <1>1. s \in States /\ Good(s)
    BY DEF Whole
  <1>2. ASSUME NEW q \in Procs, t.mm[q] # NoMm PROVE Settled(t, q)
    <2>1. CASE q = p
      BY <1>2, <2>1
    <2>2. CASE q # p
      <3>1. s.mm[q] # NoMm /\ SameAreas(q, s, t) /\ Image(t, q) = Image(s, q)
        BY <1>2, <2>2 DEF Others
      <3>2. s \in With(q) /\ t \in With(q)
        BY <1>1, <1>2, <3>1, MmTypes
      <3>3. Settled(s, q)
        BY <3>1 DEF Whole
      <3>4. Inside(t, q)
        <4>1. Inside(s, q)
          BY <3>3 DEF Settled
        <4>2. \A page \in Pages : Image(s, q)[page] # Undef => page \in Covered(s.mm[q].areas)
          BY <1>1, <3>2, <4>1, InsideImage
        <4>3. \A page \in Pages : Image(t, q)[page] # Undef => page \in Covered(t.mm[q].areas)
          BY <3>1, <4>2 DEF SameAreas
        <4> QED
          BY <3>2, <4>3, InsideImage
      <3> QED
        BY <3>1, <3>3, <3>4 DEF Settled, SameAreas
    <2> QED
      BY <2>1, <2>2
  <1>3. ASSUME NEW q \in Procs \ {p} PROVE MemOf(t)[q] = MemOf(s)[q]
    BY <1>1, SameMemory DEF Others
  <1>4. PICK m, n : m = MemOf(s) /\ n = MemOf(t)
    OBVIOUS
  <1>5. DOMAIN m = Procs /\ DOMAIN n = Procs /\ m = [q \in Procs |-> m[q]] /\ n = [q \in Procs |-> n[q]]
    BY <1>4 DEF MemOf
  <1>6. n = PutAt(m, p, n[p])
    BY <1>3, <1>4, <1>5 DEF PutAt
  <1> QED
    BY <1>2, <1>4, <1>6 DEF Whole

(* What Goto does to the pages that nobody maps does not show.             *)
Wiped(s) ==
  [s EXCEPT !.page = None,
            !.data = [f \in Frames |-> IF f \in Visible(s) THEN @[f] ELSE 0]]

LEMMA WipedWhole ==
  ASSUME NEW s, Whole(s), NEW t, t = Wiped(s)
  PROVE  Whole(t) /\ MemOf(t) = MemOf(s) /\ t.panic = s.panic
  <1>1. s \in States /\ Good(s)
    BY DEF Whole
  <1>2. PICK d, w : d = s.data /\ w = [f \in Frames |-> IF f \in Visible(s) THEN d[f] ELSE 0]
    OBVIOUS
  <1>3. d \in [Frames -> Values] /\ w \in [Frames -> Values]
    BY <1>1, <1>2 DEF States, Values
  <1>4. t = [s EXCEPT !.page = None, !.data = w]
    BY <1>2 DEF Wiped
  <1>5. /\ t \in States /\ t.mm = s.mm /\ t.left = s.left /\ t.free = s.free /\ t.ref = s.ref
        /\ t.cow = s.cow /\ t.panic = s.panic /\ t.data = w
    BY <1>1, <1>3, <1>4 DEF States
  <1>6. Good(t)
    <2>1. EntryOf(t) = EntryOf(s) /\ Spent(t) = Spent(s)
      BY <1>5, ViewSame
    <2> QED
      BY <1>1, <1>5, <2>1 DEF Good, Purse
  <1>7. ASSUME NEW q \in Procs, s.mm[q] # NoMm PROVE Image(t, q) = Image(s, q)
    <2>1. ASSUME NEW page \in Pages, s.mm[q].pte[page] # NoPTE
          PROVE  w[s.mm[q].pte[page].frame] = d[s.mm[q].pte[page].frame]
      <3>1. PICK f : f = s.mm[q].pte[page].frame
        OBVIOUS
      <3>2. f \in Frames
        BY <1>1, <1>7, <2>1, <3>1, FrameOf, MmTypes
      <3>3. f \in Visible(s)
        BY <1>7, <2>1, <3>1 DEF Visible, Mapped
      <3> QED
        BY <1>2, <3>1, <3>2, <3>3
    <2> QED
      BY <1>2, <1>5, <2>1 DEF Image
  <1>8. \A q \in Procs : MemOf(t)[q] = MemOf(s)[q]
    BY <1>1, <1>5, <1>7, SameMemory DEF SameAreas
  <1>9. MemOf(t) = MemOf(s)
    <2>1. PICK m, n : m = MemOf(s) /\ n = MemOf(t)
      OBVIOUS
    <2>2. m = [q \in Procs |-> m[q]] /\ n = [q \in Procs |-> n[q]]
      BY <2>1 DEF MemOf
    <2> QED
      BY <1>8, <2>1, <2>2
  <1>10. \A q \in Procs : t.mm[q] # NoMm => Settled(t, q)
    BY <1>5 DEF Whole, Settled, Inside
  <1> QED
    BY <1>5, <1>6, <1>9, <1>10 DEF Whole

LEMMA StoppedWhole ==
  ASSUME NEW s, Whole(s), NEW t, t = [s EXCEPT !.panic = TRUE]
  PROVE  Whole(t) /\ MemOf(t) = MemOf(s)
  <1>1. s \in States /\ Good(s)
    BY DEF Whole
  <1>2. /\ t \in States /\ t.mm = s.mm /\ t.left = s.left /\ t.free = s.free /\ t.ref = s.ref
        /\ t.cow = s.cow /\ t.data = s.data
    BY <1>1 DEF States
  <1>3. Good(t)
    <2>1. EntryOf(t) = EntryOf(s) /\ Spent(t) = Spent(s)
      BY <1>2, ViewSame
    <2> QED
      BY <1>1, <1>2, <2>1 DEF Good, Purse
  <1>4. MemOf(t) = MemOf(s)
    BY <1>2 DEF MemOf
  <1> QED
    BY <1>2, <1>3, <1>4 DEF Whole, Settled, Inside
-----------------------------------------------------------------------------
(* The system calls and page faults.                                       *)
LEMMA OthersTwice ==
  ASSUME NEW p, NEW s, NEW t, NEW u, Others(p, s, t), Others(p, t, u)
  PROVE  Others(p, s, u)
  BY DEF Others, SameAreas

LEMMA OthersOnly ==
  ASSUME NEW p, NEW s, NEW t, Only(p, s, t), SameImages(p, s, t)
  PROVE  Others(p, s, t)
  BY DEF Others, Only, SameImages, SameAreas

LEMMA SameData ==
  ASSUME NEW p, NEW s, NEW t, t.data = s.data, \A q \in Procs \ {p} : t.mm[q] = s.mm[q]
  PROVE  Others(p, s, t)
  BY DEF Others, SameAreas, Image

LEMMA FreeWhole ==
  ASSUME NEW p \in Procs, NEW s \in States, Good(s), s.mm[p] # NoMm => Inside(s, p),
         NEW r, Whole(r), Others(p, r, s), NEW t, t = free_mm(s, p)
  PROVE  /\ Whole(t) /\ t.mm[p] = NoMm /\ t.panic = s.panic
         /\ MemOf(t) = PutAt(MemOf(r), p, <<>>)
  <1>1. /\ t \in States /\ t.panic = s.panic /\ t.data = s.data
        /\ \A q \in Procs \ {p} : t.mm[q] = s.mm[q]
        /\ t.mm[p] = NoMm /\ Good(t)
    BY FreeMmGood
  <1>2. Others(p, r, t)
    <2>1. Others(p, s, t)
      BY <1>1, SameData
    <2> QED
      BY <2>1, OthersTwice
  <1>3. Whole(t) /\ MemOf(t) = PutAt(MemOf(r), p, MemOf(t)[p])
    BY <1>1, <1>2, StepOf
  <1>4. MemOf(t)[p] = <<>>
    BY <1>1, MemImage
  <1> QED
    BY <1>1, <1>3, <1>4

LEMMA ExitWhole ==
  ASSUME NEW p \in Procs, NEW s, Whole(s), NEW t, t = free_mm(s, p)
  PROVE  /\ Whole(t) /\ t.mm[p] = NoMm /\ t.panic = s.panic
         /\ MemOf(t) = PutAt(MemOf(s), p, <<>>)
  <1>1. s \in States /\ Good(s) /\ (s.mm[p] # NoMm => Inside(s, p))
    BY DEF Whole, Settled
  <1>2. Others(p, s, s)
    BY DEF Others, SameAreas
  <1> QED
    BY <1>1, <1>2, FreeWhole

(* Where load_icode begins.                                                *)
LEMMA EmptyWhole ==
  ASSUME NEW p \in Procs, NEW s, Whole(s), NEW b, b = setup_pgdir(free_mm(s, p), p)
  PROVE  b \in With(p) /\ Loading(p, b, b) /\ b.mm[p].areas = <<>> /\ Others(p, s, b)
  <1>1. PICK f : f = free_mm(s, p)
    OBVIOUS
  <1>2. /\ f \in States /\ f.data = s.data /\ \A q \in Procs \ {p} : f.mm[q] = s.mm[q]
        /\ f.mm[p] = NoMm /\ Good(f)
    <2>1. s \in States /\ Good(s) /\ (s.mm[p] # NoMm => Inside(s, p))
      BY DEF Whole, Settled
    <2> QED
      BY <1>1, <2>1, FreeMmGood
  <1>3. b = setup_pgdir(f, p)
    BY <1>1
  <1>4. /\ b \in With(p) /\ b.data = f.data /\ \A q \in Procs \ {p} : b.mm[q] = f.mm[q]
        /\ b.mm[p] = EmptyMm /\ (~b.panic => Good(b))
    BY <1>2, <1>3, SetupGood
  <1>5. Others(p, s, b)
    BY <1>2, <1>4, SameData
  <1>6. Inside(b, p)
    <2>1. \A page \in Pages : EmptyMm.pte[page] = NoPTE
      BY DEF EmptyMm
    <2> QED
      BY <1>4, <2>1 DEF Inside
  <1>7. Loading(p, b, b)
    BY <1>4, <1>6 DEF Loading, Only, SameImages
  <1>8. EmptyMm.areas = <<>>
    BY DEF EmptyMm
  <1> QED
    BY <1>4, <1>5, <1>7, <1>8

LEMMA LoadingOthers ==
  ASSUME NEW p \in Procs, NEW s, NEW b, Others(p, s, b), NEW g, Loading(p, b, g), ~g.panic
  PROVE  /\ g \in With(p) /\ g \in States /\ Good(g) /\ Inside(g, p) /\ Others(p, s, g)
  <1>1. g \in With(p) /\ Good(g) /\ Inside(g, p) /\ Only(p, b, g) /\ SameImages(p, b, g)
    BY DEF Loading, Only
  <1> QED
    BY <1>1, OthersOnly, OthersTwice, MmTypes

(* load_icode gives up on the way.                                         *)
LEMMA ExecFails ==
  ASSUME NEW p \in Procs, NEW s, Whole(s), NEW b, Others(p, s, b), NEW g, Loading(p, b, g),
         ~g.panic, NEW t, t = free_mm(g, p)
  PROVE  /\ Whole(t) /\ t.mm[p] = NoMm /\ t.panic = g.panic
         /\ MemOf(t) = PutAt(MemOf(s), p, <<>>)
  <1>1. g \in States /\ Good(g) /\ Inside(g, p) /\ Others(p, s, g)
    BY LoadingOthers
  <1> QED
    BY <1>1, FreeWhole

(* It comes to the end of the program.                                     *)
LEMMA ExecEnds ==
  ASSUME NEW p \in Procs, NEW s, Whole(s), NEW b, Others(p, s, b), NEW g \in With(p),
         Loading(p, b, g), NEW q \in Seq(Areas), g.mm[p].areas = q, NEW v \in Values,
         NEW t, t = load_stack(g, p, v), ~t.panic
  PROVE  /\ Whole(t)
         /\ MemOf(t) = PutAt(MemOf(s), p, MemOf(t)[p])
         /\ MemOf(t)[p] \in [Covered(Append(q, StackArea)) -> Values \cup {Undef}]
  <1>1. Loading(p, b, t) /\ t.mm[p].areas = Append(q, StackArea)
    BY StackGood
  <1>2. t \in With(p) /\ t \in States /\ Good(t) /\ Inside(t, p) /\ Others(p, s, t)
    BY <1>1, LoadingOthers
  <1>3. PICK areas : areas = Append(q, StackArea)
    OBVIOUS
  <1>4. areas \in Seq(Areas) /\ Covered(areas) # {} /\ Covered(areas) \subseteq Pages
    <2>1. StackArea \in Areas
      BY DEF Areas
    <2>2. areas \in Seq(Areas)
      BY <1>3, <2>1
    <2>3. Len(q) + 1 \in DOMAIN areas /\ areas[Len(q) + 1] = StackArea
      BY <1>3, <2>1
    <2>4. In(StackArea) # {}
      BY VmAssumption
    <2> QED
      BY <2>2, <2>3, <2>4, CoveredPages DEF Covered
  <1>5. Whole(t) /\ MemOf(t) = PutAt(MemOf(s), p, MemOf(t)[p])
    <2>1. Settled(t, p)
      BY <1>1, <1>2, <1>3, <1>4 DEF Settled
    <2> QED
      BY <1>2, <2>1, StepOf
  <1>6. MemOf(t)[p] \in [Covered(areas) -> Values \cup {Undef}]
    <2>1. t.mm[p] # NoMm
      BY <1>2, MmTypes DEF With
    <2>2. MemOf(t)[p] = [page \in Covered(areas) |-> Image(t, p)[page]]
      BY <1>1, <1>2, <1>3, <2>1, MemImage
    <2>3. Image(t, p) \in [Pages -> Values \cup {Undef}]
      BY <1>2, ImageType
    <2>4. PICK u, i : u = Covered(areas) /\ i = Image(t, p)
      OBVIOUS
    <2>5. u \subseteq Pages /\ i \in [Pages -> Values \cup {Undef}]
      BY <1>4, <2>3, <2>4
    <2>6. [page \in u |-> i[page]] \in [u -> Values \cup {Undef}]
      BY <2>5
    <2> QED
      BY <2>2, <2>4, <2>6
  <1> QED
    BY <1>3, <1>5, <1>6

LEMMA ForkWhole ==
  ASSUME NEW p \in Procs, NEW child \in Procs, NEW s, Whole(s), s.mm[p] # NoMm,
         s.mm[child] = NoMm, NEW b, b = setup_pgdir(s, child), ~b.panic,
         NEW t, t = dup_mmap(b, p, child), ~t.panic
  PROVE  /\ Whole(t) /\ MemOf(t) = PutAt(MemOf(s), child, MemOf(s)[p])
         /\ MemOf(s)[p] # <<>> /\ MemOf(s)[child] = <<>>
  <1>1. s \in States /\ Good(s) /\ Settled(s, p) /\ p # child
    BY DEF Whole
  <1>2. /\ b \in With(child) /\ b.data = s.data /\ \A q \in Procs \ {child} : b.mm[q] = s.mm[q]
        /\ b.mm[child] = EmptyMm /\ Good(b)
    BY <1>1, SetupGood
  <1>3. b \in States /\ b.mm[p] = s.mm[p]
    BY <1>1, <1>2, MmTypes
  <1>4. s \in With(p) /\ b \in With(p)
    BY <1>1, <1>3, MmTypes DEF With
  <1>5. \A page \in Pages : b.mm[child].pte[page] = NoPTE
    BY <1>2 DEF EmptyMm
  <1>6. /\ t \in With(p) /\ t \in With(child) /\ t.data = b.data
        /\ \A q \in Procs \ {p, child} : t.mm[q] = b.mm[q]
        /\ t.mm[p].areas = b.mm[p].areas /\ t.mm[child].areas = b.mm[p].areas
        /\ Good(t) /\ t.mm[child].pte = t.mm[p].pte
        /\ \A page \in Pages : t.mm[p].pte[page].frame = b.mm[p].pte[page].frame
    BY <1>1, <1>2, <1>4, <1>5, DupGood, SMTT(30)
  <1>7. Image(t, p) = Image(s, p)
    <2>1. PICK a, d : a = t.mm[p].pte /\ d = s.mm[p].pte
      OBVIOUS
    <2>2. \A page \in Pages : a[page].frame = d[page].frame
      BY <1>3, <1>6, <2>1
    <2>3. \A page \in Pages : a[page] = NoPTE <=> d[page] = NoPTE
      BY <1>1, <1>4, <1>6, <2>1, <2>2, FrameOf, SMTT(30)
    <2>4. \A page \in Pages :
            (IF a[page] = NoPTE THEN Undef ELSE s.data[a[page].frame])
            = (IF d[page] = NoPTE THEN Undef ELSE s.data[d[page].frame])
      BY <2>2, <2>3
    <2> QED
      BY <1>2, <1>6, <2>1, <2>4 DEF Image
  <1>8. Image(t, child) = Image(s, p)
    BY <1>6, <1>7 DEF Image
  <1>9. Others(child, s, t)
    <2> SUFFICES ASSUME NEW q \in Procs \ {child}
                 PROVE  /\ t.mm[q] = NoMm <=> s.mm[q] = NoMm
                        /\ s.mm[q] # NoMm => SameAreas(q, s, t) /\ Image(t, q) = Image(s, q)
      BY DEF Others
    <2>1. CASE q = p
      BY <1>3, <1>4, <1>6, <1>7, <2>1, MmTypes DEF With, SameAreas
    <2>2. CASE q # p
      BY <1>2, <1>6, <2>2 DEF SameAreas, Image
    <2> QED
      BY <2>1, <2>2
  <1>10. t.mm[child].areas = s.mm[p].areas /\ t \in States
    BY <1>3, <1>6, MmTypes
  <1>11. Settled(t, child)
    <2>1. \A page \in Pages : Image(s, p)[page] # Undef => page \in Covered(s.mm[p].areas)
      BY <1>1, <1>4, InsideImage DEF Settled
    <2>2. \A page \in Pages : Image(t, child)[page] # Undef => page \in Covered(t.mm[child].areas)
      BY <1>8, <1>10, <2>1
    <2>3. Inside(t, child)
      BY <1>6, <2>2, InsideImage
    <2> QED
      BY <1>1, <1>10, <2>3 DEF Settled
  <1>12. Whole(t) /\ MemOf(t) = PutAt(MemOf(s), child, MemOf(t)[child])
    BY <1>6, <1>9, <1>10, <1>11, StepOf
  <1>13. PICK u, i : u = Covered(s.mm[p].areas) /\ i = Image(s, p)
    OBVIOUS
  <1>14. MemOf(s)[p] = [page \in u |-> i[page]] /\ MemOf(s)[child] = <<>>
    <2>1. MemOf(s)[p] = [page \in Covered(s.mm[p].areas) |-> Image(s, p)[page]]
      BY <1>1, MemImage
    <2>2. MemOf(s)[child] = <<>>
      BY <1>1, MemImage
    <2> QED
      BY <1>13, <2>1, <2>2
  <1>15. MemOf(t)[child] = [page \in u |-> i[page]]
    <2>1. t.mm[child] # NoMm
      BY <1>6, MmTypes DEF With
    <2> QED
      BY <1>8, <1>10, <1>13, <2>1, MemImage
  <1>16. MemOf(s)[p] # <<>>
    <2>1. u # {}
      BY <1>1, <1>13 DEF Settled
    <2>2. DOMAIN [page \in u |-> i[page]] # DOMAIN <<>>
      BY <2>1
    <2> QED
      BY <1>14, <2>2
  <1> QED
    BY <1>12, <1>14, <1>15, <1>16

(* A page of p gets v, in a page of its own.                               *)
LEMMA PageWhole ==
  ASSUME NEW p \in Procs, NEW s, Whole(s), s.mm[p] # NoMm,
         NEW page \in Covered(s.mm[p].areas), NEW v, NEW t \in States, Good(t),
         Others(p, s, t), t.mm[p] # NoMm, SameAreas(p, s, t),
         Image(t, p) = PutAt(Image(s, p), page, v)
  PROVE  /\ Whole(t) /\ page \in DOMAIN MemOf(s)[p] /\ MemOf(s)[p][page] = Image(s, p)[page]
         /\ MemOf(t) = PutAt(MemOf(s), p, PutAt(MemOf(s)[p], page, v))
  <1>1. s \in States /\ Good(s) /\ Settled(s, p)
    BY DEF Whole
  <1>2. s \in With(p) /\ t \in With(p)
    BY <1>1, MmTypes
  <1>3. PICK u, i, j : u = Covered(s.mm[p].areas) /\ i = Image(s, p) /\ j = Image(t, p)
    OBVIOUS
  <1>4. u = Covered(t.mm[p].areas) /\ u \subseteq Pages /\ page \in u
    <2>1. s.mm[p].areas \in Seq(Areas)
      BY <1>2 DEF With, FullMm
    <2> QED
      BY <1>3, <2>1, CoveredPages DEF SameAreas
  <1>5. i = [x \in Pages |-> i[x]] /\ j = PutAt(i, page, v)
    <2>1. Image(s, p) \in [Pages -> Values \cup {Undef}]
      BY <1>1, <1>2, ImageType
    <2>2. i = [x \in Pages |-> i[x]]
      BY <1>3, <2>1
    <2> QED
      BY <1>3, <2>2
  <1>6. \A x \in Pages : j[x] = IF x = page THEN v ELSE i[x]
    BY <1>5 DEF PutAt
  <1>7. \A x \in Pages : i[x] # Undef => x \in u
    BY <1>1, <1>2, <1>3, InsideImage DEF Settled
  <1>8. Settled(t, p)
    <2>1. \A x \in Pages : j[x] # Undef => x \in u
      BY <1>4, <1>6, <1>7
    <2>2. Inside(t, p)
      BY <1>2, <1>3, <1>4, <2>1, InsideImage
    <2> QED
      BY <1>3, <1>4, <2>2 DEF Settled
  <1>9. Whole(t) /\ MemOf(t) = PutAt(MemOf(s), p, MemOf(t)[p])
    BY <1>8, StepOf
  <1>10. PICK m, n : m = MemOf(s)[p] /\ n = MemOf(t)[p]
    OBVIOUS
  <1>11. m = [x \in u |-> i[x]]
    BY <1>1, <1>3, <1>10, MemImage
  <1>12. n = [x \in u |-> j[x]]
    BY <1>3, <1>4, <1>10, MemImage
  <1>13. n = PutAt(m, page, v)
    BY <1>4, <1>6, <1>11, <1>12 DEF PutAt
  <1> QED
    BY <1>3, <1>4, <1>9, <1>10, <1>11, <1>13

(* A page that p has not used, or that it may not write, is given to it.   *)
LEMMA FaultWhole ==
  ASSUME NEW p \in Procs, NEW s, Whole(s), s.mm[p] # NoMm,
         NEW page \in Covered(s.mm[p].areas), NEW perm \in Perms, NEW v \in Values,
         NEW t, Only(p, s, t), SameAreas(p, s, t), Good(t),
         \E f \in s.free \cap Frames :
           /\ t.mm[p].pte = PutAt(s.mm[p].pte, page, PTE(f, perm))
           /\ t.data = PutAt(s.data, f, v)
  PROVE  /\ Whole(t) /\ page \in DOMAIN MemOf(s)[p]
         /\ MemOf(t) = PutAt(MemOf(s), p, PutAt(MemOf(s)[p], page, v))
  <1>1. s \in States /\ Good(s)
    BY DEF Whole
  <1>2. s \in With(p) /\ t \in With(p)
    BY <1>1, MmTypes DEF Only
  <1>3. page \in Pages
    <2>1. s.mm[p].areas \in Seq(Areas)
      BY <1>2 DEF With, FullMm
    <2> QED
      BY <2>1, CoveredPages
  <1>4. PICK f \in s.free \cap Frames :
          /\ t.mm[p].pte = PutAt(s.mm[p].pte, page, PTE(f, perm))
          /\ t.data = PutAt(s.data, f, v)
    OBVIOUS
  <1>5. SameImages(p, s, t) /\ Image(t, p) = PutAt(Image(s, p), page, v)
    BY <1>1, <1>2, <1>3, <1>4, PageImage
  <1>6. Others(p, s, t)
    BY <1>5, OthersOnly
  <1>7. t \in States /\ t.mm[p] # NoMm
    BY <1>2, MmTypes DEF With
  <1> QED
    BY <1>5, <1>6, <1>7, PageWhole

LEMMA StoreWhole ==
  ASSUME NEW p \in Procs, NEW s, Whole(s), s.mm[p] # NoMm, NEW page \in Pages,
         s.mm[p].pte[page].perm = "rw", NEW v \in Values,
         NEW t, t = [s EXCEPT !.data[s.mm[p].pte[page].frame] = v]
  PROVE  /\ Whole(t) /\ page \in DOMAIN MemOf(s)[p]
         /\ MemOf(t) = PutAt(MemOf(s), p, PutAt(MemOf(s)[p], page, v))
  <1>1. s \in States /\ Good(s) /\ Settled(s, p)
    BY DEF Whole
  <1>2. s \in With(p)
    BY <1>1, MmTypes
  <1>3. PICK f, d : f = s.mm[p].pte[page].frame /\ d = s.data
    OBVIOUS
  <1>4. s.mm[p].pte[page] # NoPTE
    BY DEF NoPTE, PTE
  <1>5. f \in Frames /\ page \in Covered(s.mm[p].areas)
    BY <1>1, <1>2, <1>3, <1>4, FrameOf DEF Settled, Inside
  <1>6. d \in [Frames -> Values]
    BY <1>1, <1>3 DEF States
  <1>7. PICK w : w = PutAt(d, f, v)
    OBVIOUS
  <1>8. w \in [Frames -> Values] /\ w[f] = v /\ \A x \in Frames \ {f} : w[x] = d[x]
    BY <1>5, <1>6, <1>7, PutType DEF PutAt
  <1>9. t = [s EXCEPT !.data = w]
    BY <1>3, <1>7 DEF PutAt
  <1>10. /\ t \in States /\ t.mm = s.mm /\ t.left = s.left /\ t.free = s.free /\ t.ref = s.ref
         /\ t.cow = s.cow /\ t.data = w
    BY <1>1, <1>8, <1>9 DEF States
  <1>11. Good(t)
    <2>1. EntryOf(t) = EntryOf(s) /\ Spent(t) = Spent(s)
      BY <1>10, ViewSame
    <2> QED
      BY <1>1, <1>10, <2>1 DEF Good, Purse
  <1>12. ASSUME NEW q \in Procs, s.mm[q] # NoMm, NEW y \in Pages, s.mm[q].pte[y] # NoPTE,
                q # p \/ y # page
         PROVE  w[s.mm[q].pte[y].frame] = d[s.mm[q].pte[y].frame]
    <2>1. PICK E, x, z : E = EntryOf(s) /\ x = <<p, page>> /\ z = <<q, y>>
      OBVIOUS
    <2>2. s \in With(q)
      BY <1>1, <1>12, MmTypes
    <2>3. x \in Cells /\ z \in Cells /\ E[x] = s.mm[p].pte[page] /\ E[z] = s.mm[q].pte[y]
      BY <1>2, <2>1, <2>2, EntryAt
    <2>4. At(E, f) = {x}
      <3>1. Sole(E)
        BY <1>1, <2>1 DEF Good, Books
      <3> QED
        BY <1>3, <2>3, <3>1 DEF Sole
    <2>5. z # x
      BY <1>12, <2>1
    <2>6. E[z].frame # f
      BY <2>3, <2>4, <2>5 DEF At
    <2>7. E[z].frame \in Frames
      BY <1>1, <1>12, <2>2, <2>3, FrameOf
    <2> QED
      BY <1>8, <2>3, <2>6, <2>7
  <1>13. Others(p, s, t)
    <2>1. \A q \in Procs \ {p} : s.mm[q] # NoMm => Image(t, q) = Image(s, q)
      BY <1>3, <1>10, <1>12 DEF Image
    <2> QED
      BY <1>10, <2>1 DEF Others, SameAreas
  <1>14. Image(t, p) = PutAt(Image(s, p), page, v)
    <2>1. PICK r, i : r = s.mm[p].pte /\ i = Image(s, p)
      OBVIOUS
    <2>2. i = [y \in Pages |-> IF r[y] = NoPTE THEN Undef ELSE d[r[y].frame]]
      BY <1>3, <2>1 DEF Image
    <2>3. Image(t, p) = [y \in Pages |-> IF r[y] = NoPTE THEN Undef ELSE w[r[y].frame]]
      <3>1. r = t.mm[p].pte /\ w = t.data
        BY <1>10, <2>1
      <3> QED
        BY <3>1 DEF Image
    <2>4. \A y \in Pages : (IF r[y] = NoPTE THEN Undef ELSE w[r[y].frame])
                           = IF y = page THEN v ELSE i[y]
      BY <1>3, <1>4, <1>8, <1>12, <2>1, <2>2
    <2>5. PutAt(i, page, v) = [y \in Pages |-> IF y = page THEN v ELSE i[y]]
      BY <2>2 DEF PutAt
    <2> QED
      BY <2>1, <2>3, <2>4, <2>5
  <1>15. t \in States /\ t.mm[p] # NoMm /\ SameAreas(p, s, t)
    BY <1>10 DEF SameAreas
  <1>16. PICK u : u = t
    OBVIOUS
  <1>17. /\ u \in States /\ Good(u) /\ Others(p, s, u) /\ u.mm[p] # NoMm /\ SameAreas(p, s, u)
         /\ Image(u, p) = PutAt(Image(s, p), page, v)
    BY <1>11, <1>13, <1>14, <1>15, <1>16
  <1>18. /\ Whole(u) /\ page \in DOMAIN MemOf(s)[p]
         /\ MemOf(u) = PutAt(MemOf(s), p, PutAt(MemOf(s)[p], page, v))
    BY <1>5, <1>17, PageWhole
  <1> QED
    BY <1>16, <1>18
-----------------------------------------------------------------------------
(* What the operations do to the memories.  A kernel that stops leaves     *)
(* them as they are.                                                       *)
Stops == vm'.panic /\ MemOf(vm') = MemOf(vm)

Becomes(m) == ~vm'.panic /\ MemOf(vm') = m

Exited(p) == Becomes(PutAt(MemOf(vm), p, <<>>))

Loaded(p, prog) ==
  \E image \in [Covered(Append(prog, StackArea)) -> Values \cup {Undef}] :
    Becomes(PutAt(MemOf(vm), p, image))

Forked(p, child) ==
  /\ MemOf(vm)[p] # <<>> /\ MemOf(vm)[child] = <<>>
  /\ Becomes(PutAt(MemOf(vm), child, MemOf(vm)[p]))

Stored(p, page, v) ==
  /\ page \in DOMAIN MemOf(vm)[p]
  /\ Becomes(PutAt(MemOf(vm), p, PutAt(MemOf(vm)[p], page, v)))

(* A fault for a page that has been used leaves what is in it.             *)
Faulted(p, page) ==
  \E v \in Values :
    /\ Stored(p, page, v)
    /\ MemOf(vm)[p][page] \in {v, Undef}

(* The inductive invariant: the books are right and every mapped page is   *)
(* in an area.                                                             *)
IInv == Whole(vm)

LEMMA GotoWhole ==
  ASSUME NEW s, Goto(s), IInv, s.panic \/ Whole(s), s.panic \in BOOLEAN
  PROVE  /\ IInv'
         /\ Stops \/ (~s.panic /\ Becomes(MemOf(s)))
  <1>1. CASE s.panic
    <2>1. PICK u, t : u = vm /\ t = vm'
      OBVIOUS
    <2>2. t = [u EXCEPT !.panic = TRUE] /\ Whole(u)
      BY <1>1, <2>1 DEF Goto, IInv
    <2>3. Whole(t) /\ MemOf(t) = MemOf(u)
      BY <2>2, StoppedWhole
    <2>4. t.panic
      BY <2>2 DEF Whole, States
    <2> QED
      BY <2>1, <2>3, <2>4 DEF IInv, Stops
  <1>2. CASE ~s.panic
    <2>1. PICK t : t = vm'
      OBVIOUS
    <2>2. t = Wiped(s) /\ Whole(s)
      BY <1>2, <2>1 DEF Goto, Wiped
    <2>3. Whole(t) /\ MemOf(t) = MemOf(s)
      BY <2>2, WipedWhole
    <2>4. ~t.panic
      BY <1>2, <2>2 DEF Wiped, Whole, States
    <2> QED
      BY <1>2, <2>1, <2>3, <2>4 DEF IInv, Becomes
  <1> QED
    BY <1>1, <1>2

LEMMA GoodAtFirst ==
  ASSUME Init
  PROVE  IInv /\ MemOf(vm) = [p \in Procs |-> <<>>]
  <1>1. PICK cow \in Builds :
          vm = [left |-> NPages, free |-> Frames, ref |-> [f \in Frames |-> 0],
                data |-> [f \in Frames |-> 0], page |-> None, mm |-> [p \in Procs |-> NoMm],
                panic |-> FALSE, cow |-> cow]
    BY DEF Init
  <1>2. PICK s : s = vm
    OBVIOUS
  <1>3. s \in States
    BY <1>1, <1>2, VmAssumption DEF States, Values
  <1>4. \A p \in Procs : s.mm[p] = NoMm
    BY <1>1, <1>2
  <1>5. PICK E : E = EntryOf(s)
    OBVIOUS
  <1>6. E \in [Cells -> Entry] /\ \A x \in Cells : E[x] = NoPTE
    BY <1>4, <1>5, EntryTypes DEF EntryOf, Cells
  <1>7. \A f \in Frames : At(E, f) = {}
    BY <1>6, EntryTypes DEF At
  <1>8. PtsOf(s) = {} /\ PdsOf(s) = {} /\ UsersOf(s) = {}
    BY <1>4 DEF PtsOf, PdsOf, UsersOf
  <1>9. Purse(s) = NPages
    <2>1. Cardinality({}) = 0
      BY FS_EmptySet
    <2>2. s.left = NPages /\ NPages \in Int
      BY <1>1, <1>2, VmAssumption
    <2>3. Spent(s) = 0
      BY <1>8, <2>1 DEF Spent
    <2> QED
      BY <2>2, <2>3 DEF Purse
  <1>10. Good(s)
    <2>1. Clean(E) /\ Sole(E)
      <3>1. NoPTE.perm # "rw"
        BY DEF NoPTE, PTE
      <3> QED
        BY <1>6, <3>1 DEF Clean, Sole
    <2>2. Balanced(E, s.ref, s.cow)
      <3>1. \A f \in Frames : s.ref[f] = 0
        BY <1>1, <1>2
      <3>2. Cardinality({}) = 0
        BY FS_EmptySet
      <3> QED
        BY <1>7, <3>1, <3>2 DEF Balanced
    <2>3. s.free = {f \in Frames : s.ref[f] = 0}
      BY <1>1, <1>2
    <2>4. Within(E, NPages) /\ NPages \in Int
      <3>1. Held(E) = {}
        BY <1>7 DEF Held
      <3> QED
        BY <3>1, FS_EmptySet, VmAssumption DEF Within
    <2>5. s.ref \in [Frames -> Int]
      BY <1>3 DEF States
    <2> QED
      BY <1>5, <1>6, <1>9, <2>1, <2>2, <2>3, <2>4, <2>5 DEF Good, Books
  <1>11. MemOf(s) = [p \in Procs |-> <<>>]
    BY <1>4 DEF MemOf
  <1> QED
    BY <1>2, <1>3, <1>4, <1>10, <1>11 DEF IInv, Whole

LEMMA ExitStep ==
  ASSUME IInv, NEW p \in Procs, do_exit(p)
  PROVE  IInv' /\ (Stops \/ Exited(p))
  <1>1. PICK s, t : s = vm /\ t = free_mm(s, p)
    OBVIOUS
  <1>2. Whole(s) /\ Goto(t)
    BY <1>1 DEF IInv, do_exit
  <1>3. Whole(t) /\ MemOf(t) = PutAt(MemOf(s), p, <<>>)
    BY <1>1, <1>2, ExitWhole
  <1>4. t.panic \in BOOLEAN
    BY <1>3 DEF Whole, States
  <1> QED
    BY <1>1, <1>2, <1>3, <1>4, GotoWhole DEF Exited

LEMMA ExecStep ==
  ASSUME IInv, NEW p \in Procs, NEW prog \in Programs, do_execve(p, prog)
  PROVE  IInv' /\ (Stops \/ Loaded(p, prog) \/ Exited(p))
  <1>1. PICK s, b : s = vm /\ b = setup_pgdir(free_mm(s, p), p)
    OBVIOUS
  <1>2. b \in With(p) /\ Loading(p, b, b) /\ b.mm[p].areas = <<>> /\ Others(p, s, b) /\ Whole(s)
    BY <1>1, EmptyWhole DEF IInv
  <1>3. prog \in Seq(Areas)
    <2>1. prog \in Seq(Range(prog)) /\ Range(prog) \subseteq Areas
      BY VmAssumption DEF Areas
    <2> QED
      BY <2>1
  <1> DEFINE L(k) == Loads(p, b, SubSeq(prog, 1, k))
  <1>4. \/ \E k \in 0..Len(prog) : Goto(IF L(k).panic THEN L(k) ELSE free_mm(L(k), p))
        \/ \E v \in Values : Goto(load_stack(L(Len(prog)), p, v))
    <2> DEFINE Full(k) == Loads(p, setup_pgdir(free_mm(vm, p), p), SubSeq(prog, 1, k))
    <2>1. \/ \E k \in 0..Len(prog) :
               Goto(IF Full(k).panic THEN Full(k) ELSE free_mm(Full(k), p))
          \/ \E v \in Values : Goto(load_stack(Full(Len(prog)), p, v))
      BY Zenon DEF do_execve, Loads, FoldLeft, MapThenFoldSet
    <2>2. \A k : Full(k) = L(k)
      BY <1>1
    <2> HIDE DEF Full, L
    <2> QED
      BY <2>1, <2>2
  <1>5. ASSUME NEW k \in 0..Len(prog), NEW g, g = L(k)
        PROVE  /\ g \in With(p) /\ Loading(p, b, g) /\ g.mm[p].areas = SubSeq(prog, 1, k)
               /\ g.panic \in BOOLEAN /\ SubSeq(prog, 1, k) \in Seq(Areas)
    <2>1. PICK q : q = SubSeq(prog, 1, k)
      OBVIOUS
    <2>2. q \in Seq(Areas)
      BY <1>3, <2>1, SubSeqProperties
    <2>3. g = Loads(p, b, q)
      BY <1>5, <2>1
    <2>4. Loading(p, b, g) /\ g.mm[p].areas = q
      BY <1>2, <2>2, <2>3, LoadsGood
    <2>5. g \in With(p)
      BY <2>4 DEF Loading, Only
    <2> QED
      BY <2>1, <2>2, <2>4, <2>5, MmTypes DEF States
  <1> HIDE DEF L
  <1>6. ASSUME NEW k \in 0..Len(prog), Goto(IF L(k).panic THEN L(k) ELSE free_mm(L(k), p))
        PROVE  IInv' /\ (Stops \/ Loaded(p, prog) \/ Exited(p))
    <2>1. PICK g : g = L(k)
      OBVIOUS
    <2>2. g \in With(p) /\ Loading(p, b, g) /\ g.panic \in BOOLEAN
      BY <1>5, <2>1
    <2>3. CASE g.panic
      <3>1. Goto(g)
        BY <1>6, <2>1, <2>3
      <3> QED
        BY <2>2, <2>3, <3>1, GotoWhole
    <2>4. CASE ~g.panic
      <3>1. PICK t : t = free_mm(g, p)
        OBVIOUS
      <3>2. Goto(t)
        BY <1>6, <2>1, <2>4, <3>1
      <3>3. Whole(t) /\ MemOf(t) = PutAt(MemOf(s), p, <<>>)
        BY <1>2, <2>2, <2>4, <3>1, ExecFails
      <3>4. t.panic \in BOOLEAN
        BY <3>3 DEF Whole, States
      <3> QED
        BY <1>1, <3>2, <3>3, <3>4, GotoWhole DEF Exited
    <2> QED
      BY <2>3, <2>4
  <1>7. ASSUME NEW v \in Values, Goto(load_stack(L(Len(prog)), p, v))
        PROVE  IInv' /\ (Stops \/ Loaded(p, prog) \/ Exited(p))
    <2>1. PICK g, t : g = L(Len(prog)) /\ t = load_stack(g, p, v)
      OBVIOUS
    <2>2. Len(prog) \in 0..Len(prog) /\ SubSeq(prog, 1, Len(prog)) = prog
      BY <1>3, SubSeqFull
    <2>3. g \in With(p) /\ Loading(p, b, g) /\ g.mm[p].areas = prog
      BY <1>5, <2>1, <2>2
    <2>4. Goto(t)
      BY <1>7, <2>1
    <2>5. Loading(p, b, t)
      BY <2>1, <2>3, StackGood
    <2>6. t.panic \in BOOLEAN
      BY <2>5, MmTypes DEF Loading, Only, States
    <2>7. ~t.panic =>
            /\ Whole(t)
            /\ MemOf(t) = PutAt(MemOf(s), p, MemOf(t)[p])
            /\ MemOf(t)[p] \in [Covered(Append(prog, StackArea)) -> Values \cup {Undef}]
      BY <1>2, <1>3, <2>1, <2>3, ExecEnds
    <2>8. IInv' /\ (Stops \/ (~t.panic /\ Becomes(MemOf(t))))
      BY <2>4, <2>6, <2>7, GotoWhole
    <2>9. ASSUME ~t.panic, Becomes(MemOf(t)) PROVE Loaded(p, prog)
      <3>1. PICK image : image = MemOf(t)[p]
        OBVIOUS
      <3>2. /\ image \in [Covered(Append(prog, StackArea)) -> Values \cup {Undef}]
            /\ Becomes(PutAt(MemOf(vm), p, image))
        BY <1>1, <2>7, <2>9, <3>1
      <3> QED
        BY <3>2 DEF Loaded
    <2> QED
      BY <2>8, <2>9
  <1> QED
    BY <1>4, <1>6, <1>7

LEMMA ForkStep ==
  ASSUME IInv, NEW p \in Procs, NEW child \in Procs, do_fork(p, child)
  PROVE  IInv' /\ (Stops \/ Forked(p, child))
  <1>1. PICK s, b, t : /\ s = vm /\ b = setup_pgdir(s, child)
                       /\ t = IF b.panic THEN b ELSE dup_mmap(b, p, child)
    OBVIOUS
  <1>2. Whole(s) /\ s.mm[p] # NoMm /\ s.mm[child] = NoMm /\ Goto(t)
    BY <1>1 DEF IInv, do_fork
  <1>3. s \in States /\ Good(s)
    BY <1>2 DEF Whole
  <1>4. b \in With(child) /\ b \in States
    BY <1>1, <1>2, <1>3, SetupGood, MmTypes
  <1>5. CASE b.panic
    <2>1. t.panic /\ t.panic \in BOOLEAN
      BY <1>1, <1>4, <1>5 DEF States
    <2> QED
      BY <1>2, <2>1, GotoWhole
  <1>6. CASE ~b.panic
    <2>1. t = dup_mmap(b, p, child)
      BY <1>1, <1>6
    <2>2. t.panic \in BOOLEAN
      <3>1. b \in With(p) /\ Good(b) /\ p # child
        <4>1. b.mm[p] = s.mm[p] /\ Good(b) /\ p # child
          BY <1>1, <1>2, <1>3, <1>6, SetupGood
        <4> QED
          BY <1>2, <1>4, <4>1, MmTypes
      <3>2. \A page \in Pages : b.mm[child].pte[page] = NoPTE
        <4>1. b.mm[child] = EmptyMm
          BY <1>1, <1>2, <1>3, SetupGood
        <4> QED
          BY <4>1 DEF EmptyMm
      <3>3. t \in With(p)
        BY <1>4, <1>6, <2>1, <3>1, <3>2, DupGood
      <3> QED
        BY <3>3, MmTypes DEF States
    <2>3. ~t.panic =>
            /\ Whole(t) /\ MemOf(t) = PutAt(MemOf(s), child, MemOf(s)[p])
            /\ MemOf(s)[p] # <<>> /\ MemOf(s)[child] = <<>>
      BY <1>1, <1>2, <1>6, <2>1, ForkWhole
    <2> QED
      BY <1>1, <1>2, <2>2, <2>3, GotoWhole DEF Forked
  <1> QED
    BY <1>5, <1>6

(* pgdir_alloc_page for a fault, and the copy of cow_pgfault.              *)
LEMMA NewPageStep ==
  ASSUME IInv, NEW p \in Procs, vm.mm[p] # NoMm, NEW page \in Covered(vm.mm[p].areas),
         page \in Pages, NEW perm \in Perms, NEW v \in Values,
         Goto(pgdir_alloc_page(vm, p, page, perm, v))
  PROVE  IInv' /\ (Stops \/ Stored(p, page, v))
  <1>1. PICK s, t : s = vm /\ t = pgdir_alloc_page(s, p, page, perm, v)
    OBVIOUS
  <1>2. Whole(s) /\ s.mm[p] # NoMm /\ page \in Covered(s.mm[p].areas) /\ Goto(t)
    BY <1>1 DEF IInv
  <1>3. s \in With(p) /\ Good(s)
    BY <1>2, MmTypes DEF Whole
  <1>4. /\ Only(p, s, t) /\ SameAreas(p, s, t)
        /\ ~t.panic =>
             /\ Good(t)
             /\ \E f \in s.free \cap Frames :
                  /\ t.mm[p].pte = PutAt(s.mm[p].pte, page, PTE(f, perm))
                  /\ t.data = PutAt(s.data, f, v)
    BY <1>1, <1>3, AllocPageGood
  <1>5. t.panic \in BOOLEAN
    BY <1>4, MmTypes DEF Only, States
  <1>6. ~t.panic => /\ Whole(t) /\ page \in DOMAIN MemOf(s)[p]
                    /\ MemOf(t) = PutAt(MemOf(s), p, PutAt(MemOf(s)[p], page, v))
    BY <1>2, <1>4, FaultWhole
  <1> QED
    BY <1>1, <1>2, <1>5, <1>6, GotoWhole DEF Stored

LEMMA CopyOnWriteStep ==
  ASSUME IInv, NEW p \in Procs, vm.mm[p] # NoMm, NEW page \in Covered(vm.mm[p].areas),
         page \in Pages, vm.mm[p].pte[page] # NoPTE, vm.cow, Goto(cow_pgfault(vm, p, page))
  PROVE  /\ IInv'
         /\ Stops \/ Stored(p, page, vm.data[vm.mm[p].pte[page].frame])
  <1>1. PICK s, t, v : /\ s = vm /\ t = cow_pgfault(s, p, page)
                       /\ v = s.data[s.mm[p].pte[page].frame]
    OBVIOUS
  <1>2. /\ Whole(s) /\ s.mm[p] # NoMm /\ page \in Covered(s.mm[p].areas) /\ Goto(t)
        /\ s.cow /\ s.mm[p].pte[page] # NoPTE
    BY <1>1 DEF IInv
  <1>3. s \in With(p) /\ Good(s) /\ s \in States
    BY <1>2, MmTypes DEF Whole
  <1>4. v \in Values
    <2>1. s.mm[p].pte[page].frame \in Frames
      BY <1>2, <1>3, FrameOf
    <2> QED
      BY <1>1, <1>3, <2>1 DEF States
  <1>5. /\ Only(p, s, t) /\ SameAreas(p, s, t)
        /\ ~t.panic =>
             /\ Good(t)
             /\ \E f \in s.free \cap Frames :
                  /\ t.mm[p].pte = PutAt(s.mm[p].pte, page, PTE(f, "rw"))
                  /\ t.data = PutAt(s.data, f, v)
    BY <1>1, <1>2, <1>3, CowFaultGood, SMTT(30)
  <1>6. t.panic \in BOOLEAN /\ "rw" \in Perms
    BY <1>5, MmTypes DEF Only, States, Perms
  <1>7. ~t.panic => /\ Whole(t) /\ page \in DOMAIN MemOf(s)[p]
                    /\ MemOf(t) = PutAt(MemOf(s), p, PutAt(MemOf(s)[p], page, v))
    BY <1>2, <1>4, <1>5, <1>6, FaultWhole
  <1> QED
    BY <1>1, <1>2, <1>6, <1>7, GotoWhole DEF Stored

(* What a process sees of a page that it has mapped, and of one it has not. *)
LEMMA SeenPage ==
  ASSUME NEW p \in Procs, NEW s, Whole(s), s.mm[p] # NoMm, NEW page \in Covered(s.mm[p].areas),
         page \in Pages
  PROVE  MemOf(s)[p][page] = IF s.mm[p].pte[page] = NoPTE THEN Undef
                             ELSE s.data[s.mm[p].pte[page].frame]
  <1>1. PICK u, i : u = Covered(s.mm[p].areas) /\ i = Image(s, p)
    OBVIOUS
  <1>2. MemOf(s)[p] = [x \in u |-> i[x]]
    BY <1>1, MemImage DEF Whole
  <1>3. i[page] = IF s.mm[p].pte[page] = NoPTE THEN Undef ELSE s.data[s.mm[p].pte[page].frame]
    BY <1>1 DEF Image
  <1> QED
    BY <1>1, <1>2, <1>3

LEMMA FaultStep ==
  ASSUME IInv, NEW p \in Procs, NEW page \in Pages, do_pgfault(p, page)
  PROVE  IInv' /\ (Stops \/ Faulted(p, page))
  <1>1. PICK s, pte, area, perm :
          /\ s = vm /\ pte = s.mm[p].pte[page]
          /\ area = {a \in Range(s.mm[p].areas) : page \in In(a)}
          /\ perm = IF \E a \in area : a.write THEN "rw" ELSE "none"
    OBVIOUS
  <1>2. /\ s.mm[p] # NoMm
        /\ \/ area = {} /\ Goto([s EXCEPT !.panic = TRUE])
           \/ area # {} /\ pte = NoPTE
              /\ \E v \in Values : Goto(pgdir_alloc_page(s, p, page, perm, v))
           \/ /\ area # {} /\ pte # NoPTE
              /\ Goto(IF s.cow THEN cow_pgfault(s, p, page)
                      ELSE pgdir_alloc_page(s, p, page, perm, s.data[pte.frame]))
    BY <1>1 DEF do_pgfault
  <1>3. Whole(s) /\ s \in With(p) /\ s \in States /\ Good(s)
    BY <1>1, <1>2, MmTypes DEF IInv, Whole
  <1>4. perm \in Perms
    BY <1>1 DEF Perms
  <1>5. area # {} => page \in Covered(s.mm[p].areas)
    BY <1>1 DEF Range, Covered
  <1>6. CASE area = {} /\ Goto([s EXCEPT !.panic = TRUE])
    <2>1. PICK t : t = [s EXCEPT !.panic = TRUE]
      OBVIOUS
    <2>2. t.panic = TRUE
      BY <1>3, <2>1 DEF States
    <2>3. Goto(t)
      BY <1>6, <2>1
    <2> QED
      BY <2>2, <2>3, GotoWhole
  <1>7. area # {} => MemOf(vm)[p][page] = IF pte = NoPTE THEN Undef ELSE s.data[pte.frame]
    BY <1>1, <1>2, <1>3, <1>5, SeenPage
  <1>8. ASSUME area # {}, NEW v \in Values, Stops \/ Stored(p, page, v),
               pte = NoPTE \/ v = s.data[pte.frame]
        PROVE  Stops \/ Faulted(p, page)
    <2>1. MemOf(vm)[p][page] \in {v, Undef}
      BY <1>7, <1>8
    <2> QED
      BY <1>8, <2>1 DEF Faulted
  <1>9. ASSUME area # {}, NEW v \in Values, Goto(pgdir_alloc_page(s, p, page, perm, v))
        PROVE  IInv' /\ (Stops \/ Stored(p, page, v))
    BY <1>1, <1>2, <1>4, <1>5, <1>9, NewPageStep
  <1>10. ASSUME area # {}, pte = NoPTE,
                NEW v \in Values, Goto(pgdir_alloc_page(s, p, page, perm, v))
         PROVE  IInv' /\ (Stops \/ Faulted(p, page))
    BY <1>8, <1>9, <1>10
  <1>11. ASSUME area # {}, pte # NoPTE,
                Goto(IF s.cow THEN cow_pgfault(s, p, page)
                     ELSE pgdir_alloc_page(s, p, page, perm, s.data[pte.frame]))
         PROVE  IInv' /\ (Stops \/ Faulted(p, page))
    <2>1. PICK v : v = s.data[pte.frame]
      OBVIOUS
    <2>2. v \in Values
      <3>1. pte.frame \in Frames
        BY <1>1, <1>3, <1>11, FrameOf
      <3> QED
        BY <1>3, <2>1, <3>1, SMTT(30) DEF States
    <2>3. IInv' /\ (Stops \/ Stored(p, page, v))
      <3>1. CASE s.cow
        BY <1>1, <1>2, <1>5, <1>11, <2>1, <3>1, CopyOnWriteStep
      <3>2. CASE ~s.cow
        BY <1>9, <1>11, <2>1, <2>2, <3>2
      <3> QED
        BY <3>1, <3>2
    <2> QED
      BY <1>8, <1>11, <2>1, <2>2, <2>3
  <1> QED
    BY <1>2, <1>6, <1>10, <1>11

LEMMA StoreStep ==
  ASSUME IInv, ~vm.panic, NEW p \in Procs, NEW page \in Pages, NEW v \in Values, Store(p, page, v)
  PROVE  IInv' /\ Stored(p, page, v)
  <1>1. PICK s, t : s = vm /\ t = vm'
    OBVIOUS
  <1>2. /\ Whole(s) /\ s.mm[p] # NoMm /\ s.mm[p].pte[page].perm = "rw"
        /\ t = [s EXCEPT !.data[s.mm[p].pte[page].frame] = v]
    BY <1>1 DEF IInv, Store
  <1>3. /\ Whole(t) /\ page \in DOMAIN MemOf(s)[p]
        /\ MemOf(t) = PutAt(MemOf(s), p, PutAt(MemOf(s)[p], page, v))
    BY <1>2, StoreWhole
  <1>4. ~t.panic
    BY <1>1, <1>2
  <1> QED
    BY <1>1, <1>3, <1>4 DEF IInv, Stored, Becomes

(* A step of the kernel or of a program keeps the books right.             *)
LEMMA StepWhole ==
  ASSUME IInv, [Next]_vars
  PROVE  IInv'
  <1>1. CASE Next
    BY <1>1, ExecStep, ForkStep, FaultStep, StoreStep, ExitStep DEF Next
  <1>2. CASE UNCHANGED vars
    BY <1>2 DEF vars, IInv
  <1> QED
    BY <1>1, <1>2

(* Between two system calls or page faults the books are right and every   *)
(* page that a process maps lies in one of its areas.                      *)
THEOREM AlwaysWhole == Spec => []IInv
  <1>1. Init => IInv
    BY GoodAtFirst
  <1>2. IInv /\ [Next]_vars => IInv'
    BY StepWhole
  <1> QED
    BY <1>1, <1>2, PTL DEF Spec

(* What the books are about are the mappings that RefsRight counts.        *)
LEMMA WholeIsRight ==
  IInv => RefsRight
  <1> SUFFICES ASSUME IInv PROVE RefsRight
    OBVIOUS
  <1>1. PICK s, E : s = vm /\ E = EntryOf(s)
    OBVIOUS
  <1>2. s \in States /\ Books(E, s.ref, s.free, Purse(s), s.cow)
    BY <1>1 DEF IInv, Whole, Good
  <1>3. Users = UsersOf(s)
    BY <1>1 DEF Users, UsersOf
  <1>4. ASSUME NEW f \in Frames PROVE Mappings(f) = At(E, f)
    <2>1. f # None
      BY EntryTypes
    <2>2. ASSUME NEW x \in Cells
          PROVE  E[x].frame = f <=> s.mm[x[1]] # NoMm /\ s.mm[x[1]].pte[x[2]].frame = f
      BY <1>1, <2>1, <2>2, EntryTypes DEF EntryOf
    <2> QED
      BY <1>1, <1>3, <2>2 DEF Mappings, At, Cells, UsersOf
  <1>5. \A f \in Frames : Cardinality(At(E, f)) <= s.ref[f]
                          /\ (s.cow \/ s.ref[f] = Cardinality(At(E, f)))
    BY <1>2 DEF Books, Balanced
  <1>6. vm.cow \/ RefsExact
    BY <1>1, <1>4, <1>5 DEF RefsExact
  <1>7. \A f \in Frames : vm.ref[f] >= Cardinality(Mappings(f))
    <2> SUFFICES ASSUME NEW f \in Frames PROVE vm.ref[f] >= Cardinality(Mappings(f))
      OBVIOUS
    <2>1. s.ref[f] \in Int /\ Cardinality(At(E, f)) \in Nat
      BY <1>2, AtFinite DEF States
    <2> QED
      BY <1>1, <1>4, <1>5, <2>1
  <1>8. vm.free = {f \in Frames : vm.ref[f] = 0}
    BY <1>1, <1>2 DEF Books
  <1>9. ASSUME NEW p \in Users, NEW page \in Pages, vm.mm[p].pte[page].perm = "rw"
        PROVE  Mappings(vm.mm[p].pte[page].frame) = {<<p, page>>}
    <2>1. PICK x : x = <<p, page>>
      OBVIOUS
    <2>2. p \in Procs /\ s.mm[p] # NoMm /\ s \in With(p)
      BY <1>1, <1>2, <1>9, MmTypes DEF Users
    <2>3. x \in Cells /\ E[x] = s.mm[p].pte[page]
      BY <1>1, <2>1, <2>2, EntryAt
    <2>4. At(E, E[x].frame) = {x}
      BY <1>1, <1>2, <1>9, <2>3 DEF Books, Sole
    <2>5. E[x].frame \in Frames
      <3>1. E[x] # NoPTE
        BY <1>1, <1>9, <2>3 DEF NoPTE, PTE
      <3>2. E[x] \in Entry /\ Clean(E)
        BY <1>2, <2>3 DEF Books
      <3> QED
        BY <2>3, <3>1, <3>2 DEF Clean, Entry
    <2> QED
      BY <1>1, <1>4, <2>1, <2>3, <2>4, <2>5
  <1>10. vm.left + InUse <= NPages
    <2>1. {f \in Frames : Mappings(f) # {}} = Held(E)
      BY <1>4 DEF Held
    <2>2. {x \in Users \X PTs : vm.mm[x[1]].pt[x[2]]} = PtsOf(s)
      BY <1>1 DEF Users, PtsOf
    <2>3. {x \in Users \X PDs : vm.mm[x[1]].pd[x[2]]} = PdsOf(s)
      BY <1>1 DEF Users, PdsOf
    <2>4. InUse = Cardinality(Held(E)) + Cardinality(PtsOf(s)) + Cardinality(PdsOf(s))
                  + Cardinality(UsersOf(s))
      BY <1>3, <2>1, <2>2, <2>3 DEF InUse
    <2>5. Purse(s) + Cardinality(Held(E)) <= NPages
      BY <1>2 DEF Books, Within
    <2>6. s.left \in Int /\ Cardinality(Held(E)) \in Nat /\ Cardinality(PtsOf(s)) \in Nat
          /\ Cardinality(PdsOf(s)) \in Nat /\ Cardinality(UsersOf(s)) \in Nat
      <3>1. IsFiniteSet(Frames) /\ Held(E) \in SUBSET Frames
        BY FS_Interval, VmAssumption DEF Frames, Held
      <3>2. Cardinality(Held(E)) \in Nat
        BY <3>1, FS_Subset, FS_CardinalityType
      <3> QED
        BY <1>2, <3>2, SpentSets DEF States
    <2> QED
      BY <1>1, <2>4, <2>5, <2>6 DEF Purse, Spent
  <1> QED
    BY <1>6, <1>7, <1>8, <1>9, <1>10 DEF RefsRight

(* page_ref counts the entries that name a page, a page is free when none  *)
(* does, one that may be written is mapped once, and nothing is freed      *)
(* twice, whatever sequence of exec, fork, page faults and exit.           *)
THEOREM RefsAlwaysRight == Spec => []RefsRight
  BY AlwaysWhole, WholeIsRight, PTL

(* The memories, before a step and after it.                               *)
LEMMA MemIs ==
  mem = MemOf(vm) /\ mem' = MemOf(vm')
  BY DEF mem, MemOf

(* Each operation does to the memories what the action of Memory for it    *)
(* does.                                                                   *)
LEMMA ExecKept ==
  ASSUME NEW p \in Procs, NEW prog \in Programs, Loaded(p, prog) \/ Exited(p)
  PROVE  Exec(p, prog)
  <1>1. PICK m, n : m = mem /\ n = mem'
    OBVIOUS
  <1>2. CASE Loaded(p, prog)
    <2>1. PICK image \in [Covered(Append(prog, StackArea)) -> Values \cup {Undef}] :
            n = PutAt(m, p, image)
      BY <1>1, <1>2, MemIs DEF Loaded, Becomes
    <2>2. p \in DOMAIN m
      BY <1>1, MemIs DEF MemOf
    <2>3. n[p] = image /\ n = [m EXCEPT ![p] = n[p]]
      BY <2>1, <2>2 DEF PutAt
    <2> QED
      BY <1>1, <2>1, <2>3 DEF Exec, Abstract!Exec
  <1>3. CASE Exited(p)
    BY <1>3, MemIs DEF Exited, Becomes, PutAt, Exec, Abstract!Exit, Abstract!NoMemory
  <1> QED
    BY <1>2, <1>3

LEMMA FaultKept ==
  ASSUME IInv, NEW p \in Procs, vm.mm[p] # NoMm, NEW page \in Pages, Faulted(p, page)
  PROVE  Abstract!Fault(p, page)
  <1>1. PICK m, n : m = mem /\ n = mem'
    OBVIOUS
  <1>2. PICK v \in Values : /\ page \in DOMAIN m[p] /\ m[p][page] \in {v, Undef}
                            /\ n = PutAt(m, p, PutAt(m[p], page, v))
    BY <1>1, MemIs DEF Faulted, Stored, Becomes
  <1>3. CASE m[p][page] = Undef
    <2>1. n = [m EXCEPT ![p][page] = v]
      BY <1>2 DEF PutAt
    <2> QED
      BY <1>1, <1>2, <1>3, <2>1 DEF Abstract!Fault, Abstract!Touch
  <1>4. CASE m[p][page] # Undef
    <2>1. m = [q \in Procs |-> m[q]] /\ m[p] = [x \in DOMAIN m[p] |-> m[p][x]]
      <3>1. PICK u, i : u = Covered(vm.mm[p].areas) /\ i = Image(vm, p)
        OBVIOUS
      <3>2. m[p] = [x \in u |-> i[x]]
        BY <1>1, <3>1, MemIs, MemImage DEF IInv, Whole
      <3>3. m = [q \in Procs |-> m[q]]
        BY <1>1, MemIs DEF MemOf
      <3> QED
        BY <3>2, <3>3
    <2>2. m[p][page] = v
      BY <1>2, <1>4
    <2>3. PutAt(m[p], page, v) = m[p]
      BY <2>1, <2>2 DEF PutAt
    <2>4. n = m
      BY <1>2, <2>1, <2>3 DEF PutAt
    <2> QED
      BY <1>1, <1>2, <1>4, <2>4 DEF Abstract!Fault
  <1> QED
    BY <1>3, <1>4

LEMMA StoreKept ==
  ASSUME IInv, NEW p \in Procs, NEW page \in Pages, NEW v \in Values, Store(p, page, v),
         Stored(p, page, v)
  PROVE  Abstract!Write(p, page, v)
  <1>1. PICK s, m, n : s = vm /\ m = mem /\ n = mem'
    OBVIOUS
  <1>2. /\ m = MemOf(s) /\ Whole(s) /\ s.mm[p] # NoMm /\ s.mm[p].pte[page].perm = "rw"
        /\ page \in DOMAIN m[p] /\ n = PutAt(m, p, PutAt(m[p], page, v))
    BY <1>1, MemIs DEF IInv, Store, Stored, Becomes
  <1>3. s \in States /\ Good(s) /\ Settled(s, p) /\ s \in With(p)
    BY <1>2, MmTypes DEF Whole
  <1>4. s.mm[p].pte[page] # NoPTE
    BY <1>2 DEF NoPTE, PTE
  <1>5. s.mm[p].pte[page].frame \in Frames /\ page \in Covered(s.mm[p].areas)
    BY <1>2, <1>3, <1>4, FrameOf DEF Settled, Inside
  <1>6. m[p][page] = s.data[s.mm[p].pte[page].frame]
    BY <1>2, <1>4, <1>5, SeenPage
  <1>7. m[p][page] \in Values
    BY <1>3, <1>5, <1>6 DEF States
  <1>8. m[p][page] # Undef
    BY <1>7 DEF Values, Undef
  <1>9. n = [m EXCEPT ![p][page] = v]
    BY <1>2 DEF PutAt
  <1> QED
    BY <1>1, <1>2, <1>8, <1>9 DEF Abstract!Write

LEMMA StepKept ==
  ASSUME IInv, Next
  PROVE  Kept
  <1>1. CASE vm'.panic
    <2>1. Stops
      BY <1>1, ExecStep, ForkStep, FaultStep, StoreStep, ExitStep
         DEF Next, Loaded, Exited, Forked, Faulted, Stored, Becomes
    <2> QED
      BY <1>1, <2>1, MemIs DEF Kept, Stops
  <1>2. CASE ~vm'.panic
    <2>1. ~Stops /\ ~vm.panic
      BY <1>2 DEF Stops, Next
    <2>2. ASSUME NEW p \in Procs, NEW prog \in Programs, do_execve(p, prog)
          PROVE  Exec(p, prog)
      BY <2>1, <2>2, ExecStep, ExecKept
    <2>3. ASSUME NEW p \in Procs, NEW child \in Procs, do_fork(p, child)
          PROVE  Abstract!Fork(p, child)
      <3>1. Forked(p, child)
        BY <2>1, <2>3, ForkStep
      <3> QED
        BY <3>1, MemIs DEF Forked, Becomes, PutAt, Abstract!Fork, Abstract!NoMemory
    <2>4. ASSUME NEW p \in Procs, NEW page \in Pages, do_pgfault(p, page)
          PROVE  Abstract!Fault(p, page)
      BY <2>1, <2>4, FaultStep, FaultKept DEF do_pgfault
    <2>5. ASSUME NEW p \in Procs, NEW page \in Pages, NEW v \in Values, Store(p, page, v)
          PROVE  Abstract!Write(p, page, v)
      BY <2>1, <2>5, StoreStep, StoreKept
    <2>6. ASSUME NEW p \in Procs, do_exit(p) PROVE Abstract!Exit(p)
      <3>1. Exited(p)
        BY <2>1, <2>6, ExitStep
      <3> QED
        BY <3>1, MemIs DEF Exited, Becomes, PutAt, Abstract!Exit, Abstract!NoMemory
    <2> QED
      BY <1>2, <2>2, <2>3, <2>4, <2>5, <2>6 DEF Kept
  <1> QED
    BY <1>1, <1>2

(* What the operations may do, a step of Memory may.                       *)
LEMMA KeptIsNext ==
  ASSUME Next, Kept
  PROVE  [Abstract!Next]_mem
  <1>1. CASE vm'.panic
    BY <1>1 DEF Kept
  <1>2. CASE ~vm'.panic
    <2>1. PICK p \in Procs :
            \/ \E prog \in Programs : Exec(p, prog)
            \/ \E child \in Procs : Abstract!Fork(p, child)
            \/ \E page \in Pages :
                 \/ Abstract!Fault(p, page)
                 \/ \E v \in Values : Abstract!Write(p, page, v)
            \/ Abstract!Exit(p)
      BY <1>2 DEF Next, Kept
    <2>2. ASSUME NEW prog \in Programs, Exec(p, prog) PROVE Abstract!Next
      <3>1. [Covered(Append(prog, StackArea)) -> Values \cup {Undef}] \subseteq Images
        BY DEF Images
      <3> QED
        BY <2>2, <3>1 DEF Exec, Abstract!Next
    <2>3. ASSUME NEW child \in Procs, Abstract!Fork(p, child) PROVE Abstract!Next
      BY <2>3 DEF Abstract!Next
    <2>4. ASSUME NEW page \in Pages,
                 Abstract!Fault(p, page) \/ \E v \in Values : Abstract!Write(p, page, v)
          PROVE  Abstract!Next
      <3>1. page \in DOMAIN mem[p]
        BY <2>4 DEF Abstract!Fault, Abstract!Touch, Abstract!Write
      <3> QED
        BY <2>4, <3>1 DEF Abstract!Next
    <2> QED
      BY <2>1, <2>2, <2>3, <2>4 DEF Abstract!Next
  <1> QED
    BY <1>1, <1>2

(* Each process has a memory of its own, which fork copies and only a      *)
(* store of its owner changes: a page fault leaves every page that has     *)
(* been used as it is, whether it shares, copies or recycles physical      *)
(* pages.                                                                  *)
THEOREM MemoryRefinement == Spec => MemorySpec
  <1>1. Init => Abstract!Init
    BY MemIs, GoodAtFirst DEF Abstract!Init, Abstract!NoMemory
  <1>2. IInv /\ [Next]_vars => [Kept]_vars /\ [Abstract!Next]_mem
    <2> SUFFICES ASSUME IInv, [Next]_vars PROVE [Kept]_vars /\ [Abstract!Next]_mem
      OBVIOUS
    <2>1. CASE Next
      BY <2>1, StepKept, KeptIsNext
    <2>2. CASE UNCHANGED vars
      BY <2>2 DEF vars, mem
    <2> QED
      BY <2>1, <2>2
  <1> QED
    BY <1>1, <1>2, AlwaysWhole, PTL DEF Spec, MemorySpec, Abstract!Spec
-----------------------------------------------------------------------------
(***************************************************************************)
(* get_pid, for every MAX_PID and MAX_PROCESS that pass its static_assert: *)
(* the pids of the processes are distinct, and GetPid implements PidSet.   *)
(***************************************************************************)
(* The inductive invariant: what the static variables promise (GapOK) is   *)
(* what makes the fast path return a free pid.                             *)
PidInv == TypeOK /\ GapOK /\ ReturnsFreePid /\ PidsUnique

(* What the two changes of proc_list do to its entries. *)
LEMMA PrependEntries ==
  ASSUME NEW S, NEW s \in Seq(S), NEW p \in S
  PROVE  /\ <<p>> \o s \in Seq(S)
         /\ Len(<<p>> \o s) = Len(s) + 1
         /\ (<<p>> \o s)[1] = p
         /\ \A k \in 2..(Len(s) + 1) : (<<p>> \o s)[k] = s[k - 1]
  OBVIOUS

LEMMA DeleteEntry ==
  ASSUME NEW S, NEW s \in Seq(S), NEW i \in 1..Len(s), NEW t,
         t = [k \in 1..(Len(s) - 1) |-> IF k < i THEN s[k] ELSE s[k + 1]]
  PROVE  /\ t \in Seq(S)
         /\ Len(t) = Len(s) - 1
         /\ \A k \in 1..(Len(s) - 1) : t[k] = IF k < i THEN s[k] ELSE s[k + 1]
  <1>1. Len(s) - 1 \in Nat
    OBVIOUS
  <1>2. \A k \in 1..(Len(s) - 1) : (IF k < i THEN s[k] ELSE s[k + 1]) \in S
    OBVIOUS
  <1>3. t \in [1..(Len(s) - 1) -> S]
    BY <1>2
  <1>4. t \in Seq(S)
    BY <1>1, <1>3
  <1> QED
    BY <1>1, <1>3, <1>4

LEMMA InitPidInv == PidInit => PidInv
  BY PidAssumption DEF PidInit, PidInv, TypeOK, GapOK, Gap, ReturnsFreePid, PidsUnique

(* The invariant is preserved: one step per action. *)
LEMMA NextPidInv == PidInv /\ [PidNext]_pid_vars => PidInv'
  <1> SUFFICES ASSUME PidInv, [PidNext]_pid_vars PROVE PidInv'
    OBVIOUS
  <1> USE PidAssumption DEF Wrap, Lowered, PidInv, TypeOK, GapOK, Gap, ReturnsFreePid, PidsUnique
  <1>1. CASE get_pid
    <2>1. UNCHANGED proc_list /\ le' = 0
      BY <1>1 DEF get_pid
    <2>2. CASE last_pid + 1 >= MAX_PID \/ last_pid + 1 >= next_safe
      <3>1. /\ last_pid' \in 1..(MAX_PID - 1)
            /\ next_safe' = MAX_PID /\ pc' = "while"
        BY <1>1, <2>2 DEF get_pid
      <3> QED
        BY <2>1, <3>1
    <2>3. CASE ~(last_pid + 1 >= MAX_PID \/ last_pid + 1 >= next_safe)
      <3>1. /\ last_pid' = last_pid + 1 /\ last_pid' < next_safe /\ last_pid' < MAX_PID
            /\ next_safe' = next_safe /\ pc' = "return" /\ pc = "out"
        BY <1>1, <2>3 DEF get_pid
      <3>2. TypeOK'
        BY <2>1, <3>1
      <3>3. ASSUME NEW k \in 1..Len(proc_list)
            PROVE  /\ ~(last_pid + 1 < proc_list[k] /\ proc_list[k] < next_safe)
                   /\ proc_list[k] # last_pid + 1
        <4>1. proc_list[k] \in Nat /\ last_pid \in Nat /\ next_safe \in Nat
          OBVIOUS
        <4>2. ~(last_pid < proc_list[k] /\ proc_list[k] < next_safe)
          BY <3>1
        <4> HIDE DEF PidInv, TypeOK, GapOK, Gap, ReturnsFreePid, PidsUnique
        <4> QED
          BY <3>1, <4>1, <4>2
      <3>4. GapOK' /\ ReturnsFreePid'
        BY <2>1, <3>1, <3>2, <3>3
      <3> QED
        BY <2>1, <3>2, <3>4
    <2> QED
      BY <2>2, <2>3
  <1>2. CASE pid_taken
    <2>1. UNCHANGED <<proc_list, pc>> /\ pc = "while" /\ le + 1 \in 1..Len(proc_list)
      BY <1>2 DEF pid_taken
    <2>2. CASE last_pid + 1 >= next_safe
      <3>1. last_pid' \in 1..(MAX_PID - 1) /\ next_safe' = MAX_PID /\ le' = 0
        BY <1>2, <2>2 DEF pid_taken
      <3> QED
        BY <2>1, <3>1
    <2>3. CASE ~(last_pid + 1 >= next_safe)
      <3>1. /\ last_pid' = last_pid + 1 /\ le' = le + 1 /\ next_safe' = next_safe
            /\ proc_list[le + 1] = last_pid
        BY <1>2, <2>3 DEF pid_taken
      <3>2. TypeOK' /\ last_pid' < next_safe'
        BY <2>1, <2>3, <3>1
      <3>3. ASSUME NEW k \in 1..(le + 1)
            PROVE  /\ ~(last_pid + 1 < proc_list[k] /\ proc_list[k] < next_safe)
                   /\ proc_list[k] # last_pid + 1
        <4>1. proc_list[k] \in Nat /\ (k \in 1..le \/ k = le + 1)
          BY <2>1
        <4>2. k \in 1..le => /\ ~(last_pid < proc_list[k] /\ proc_list[k] < next_safe)
                             /\ proc_list[k] # last_pid
          BY <2>1
        <4>3. last_pid \in Nat /\ next_safe \in Nat
          OBVIOUS
        <4> HIDE DEF PidInv, TypeOK, GapOK, Gap, ReturnsFreePid, PidsUnique
        <4> QED
          BY <2>3, <3>1, <4>1, <4>2, <4>3
      <3>4. GapOK'
        BY <2>1, <3>1, <3>2, <3>3
      <3> QED
        BY <2>1, <3>2, <3>4
    <2> QED
      BY <2>2, <2>3
  <1>3. CASE pid_other
    <2> DEFINE pid == proc_list[le + 1]
    <2>1. /\ UNCHANGED <<last_pid, proc_list, pc>> /\ pc = "while" /\ le' = le + 1
          /\ le + 1 \in 1..Len(proc_list) /\ pid # last_pid /\ pid \in 1..(MAX_PID - 1)
          /\ next_safe' = IF pid > last_pid /\ next_safe > pid THEN pid ELSE next_safe
      BY <1>3 DEF pid_other
    <2>2. TypeOK' /\ last_pid < next_safe' /\ next_safe' <= next_safe
      BY <2>1
    <2>3. ASSUME NEW k \in 1..(le + 1)
          PROVE  /\ ~(last_pid < proc_list[k] /\ proc_list[k] < next_safe')
                 /\ proc_list[k] # last_pid
      <3>1. proc_list[k] \in Nat /\ (k \in 1..le \/ k = le + 1)
        BY <2>1
      <3>2. k \in 1..le => /\ ~(last_pid < proc_list[k] /\ proc_list[k] < next_safe)
                           /\ proc_list[k] # last_pid
        BY <2>1
      <3>3. last_pid \in Nat /\ next_safe \in Nat /\ next_safe' \in Nat
        BY <2>2
      <3> HIDE DEF PidInv, TypeOK, GapOK, Gap, ReturnsFreePid, PidsUnique
      <3> QED
        BY <2>1, <2>2, <3>1, <3>2, <3>3
    <2>4. GapOK'
      BY <2>1, <2>2, <2>3
    <2> QED
      BY <2>1, <2>2, <2>4
  <1>4. CASE loop_ends
    BY <1>4 DEF loop_ends
  <1>5. CASE set_links
    <2>1. last_pid \in 1..(MAX_PID - 1)
      BY <1>5 DEF set_links
    <2>2. /\ proc_list' \in Seq(1..(MAX_PID - 1))
          /\ Len(proc_list') = Len(proc_list) + 1
          /\ proc_list'[1] = last_pid
          /\ \A k \in 2..(Len(proc_list) + 1) : proc_list'[k] = proc_list[k - 1]
      BY <1>5, <2>1, PrependEntries DEF set_links
    <2>3. TypeOK'
      BY <1>5, <2>2 DEF set_links
    <2>4. \A k \in 1..Len(proc_list') :
            proc_list'[k] = last_pid \/ (k > 1 /\ proc_list'[k] = proc_list[k - 1])
      BY <2>2
    <2>5. GapOK'
      BY <1>5, <2>2, <2>4 DEF set_links
    <2>6. PidsUnique'
      BY <1>5, <2>2, <2>4 DEF set_links
    <2> QED
      BY <1>5, <2>3, <2>5, <2>6 DEF set_links
  <1>6. CASE \E i \in 1..Len(proc_list) : remove_links(i)
    <2>1. PICK i \in 1..Len(proc_list) : remove_links(i)
      BY <1>6
    <2>2. /\ proc_list' \in Seq(1..(MAX_PID - 1))
          /\ Len(proc_list') = Len(proc_list) - 1
          /\ \A k \in 1..(Len(proc_list) - 1) :
               proc_list'[k] = IF k < i THEN proc_list[k] ELSE proc_list[k + 1]
      BY <2>1, DeleteEntry, SMTT(30) DEF remove_links
    <2>3. TypeOK'
      BY <2>1, <2>2 DEF remove_links
    <2> DEFINE old(n) == IF n < i THEN n ELSE n + 1
    <2>4. ASSUME NEW k \in 1..Len(proc_list')
          PROVE  /\ old(k) \in 1..Len(proc_list) /\ proc_list'[k] = proc_list[old(k)]
                 /\ proc_list[old(k)] \in Nat
      <3>1. k \in 1..(Len(proc_list) - 1) /\ old(k) \in 1..Len(proc_list)
        BY <2>2
      <3>2. proc_list[old(k)] \in Nat
        BY <3>1, SMTT(30)
      <3>3. proc_list'[k] = IF k < i THEN proc_list[k] ELSE proc_list[k + 1]
        BY <2>2, <3>1
      <3> HIDE DEF PidInv, TypeOK, GapOK, Gap, ReturnsFreePid, PidsUnique
      <3> QED
        BY <3>1, <3>2, <3>3
    <2>5. GapOK'
      <3>1. pc = "out" /\ UNCHANGED <<last_pid, next_safe, le, pc>>
        BY <2>1 DEF remove_links
      <3>2. Gap(Len(proc_list))
        BY <3>1
      <3>3. ASSUME NEW k \in 1..Len(proc_list')
            PROVE  ~(last_pid < proc_list'[k] /\ proc_list'[k] < next_safe)
        BY <2>4, <3>2
      <3> QED
        BY <3>1, <3>3
    <2>6. PidsUnique'
      <3> SUFFICES ASSUME NEW j \in 1..Len(proc_list'), NEW k \in 1..Len(proc_list'),
                          proc_list'[j] = proc_list'[k]
                   PROVE  j = k
        OBVIOUS
      <3>1. old(j) = old(k)
        BY <2>4
      <3> HIDE DEF PidInv, TypeOK, GapOK, Gap, ReturnsFreePid, PidsUnique
      <3>2. j \in Int /\ k \in Int /\ i \in Int
        BY <2>1, <2>2, <2>4
      <3> QED
        BY <3>1, <3>2
    <2> QED
      BY <2>1, <2>3, <2>5, <2>6 DEF remove_links
  <1>7. CASE UNCHANGED pid_vars
    BY <1>7 DEF pid_vars
  <1> QED
    BY <1>1, <1>2, <1>3, <1>4, <1>5, <1>6, <1>7 DEF PidNext, Scan

(* PidInv holds in every reachable state. *)
THEOREM PidInvariance == PidSpec => []PidInv
  BY InitPidInv, NextPidInv, PTL DEF PidSpec

(* "get_pid - alloc a unique pid for process": no two processes of         *)
(* proc_list have the same pid, however often last_pid wrapped around.     *)
THEOREM UniquePids == PidSpec => []PidsUnique
  BY PidInvariance, PTL DEF PidInv

(* The pid returned is free and in the range that find_proc accepts. *)
THEOREM FreePid == PidSpec => []ReturnsFreePid
  BY PidInvariance, PTL DEF PidInv

(* get_pid, with the list operations of do_fork and do_wait around it,     *)
(* implements PidSet: set_links takes a free pid, remove_links gives one   *)
(* back, and the steps of the loop change nothing.                         *)
THEOREM PidRefinement == PidSpec => PidSetSpec
  <1> DEFINE pids == {proc_list[k] : k \in 1..Len(proc_list)}
  <1>1. PidInit => Set!Init
    BY DEF PidInit, Set!Init
  <1>2. PidInv /\ [PidNext]_pid_vars => [Set!Next]_<<pids, Len(proc_list)>>
    <2> SUFFICES ASSUME PidInv, [PidNext]_pid_vars PROVE [Set!Next]_<<pids, Len(proc_list)>>
      OBVIOUS
    <2> USE PidAssumption DEF PidInv, TypeOK
    <2>1. CASE UNCHANGED proc_list
      BY <2>1
    <2>2. CASE set_links
      <3>1. last_pid \in 1..(MAX_PID - 1) /\ last_pid \notin pids
        BY <2>2 DEF set_links, ReturnsFreePid
      <3>2. /\ Len(proc_list') = Len(proc_list) + 1
            /\ proc_list'[1] = last_pid
            /\ \A k \in 2..(Len(proc_list) + 1) : proc_list'[k] = proc_list[k - 1]
        BY <2>2, <3>1, PrependEntries DEF set_links
      <3>3. pids' = pids \cup {last_pid}
        <4>1. ASSUME NEW k \in 1..Len(proc_list) PROVE proc_list[k] \in pids'
          <5> HIDE DEF PidInv, TypeOK
          <5>1. Len(proc_list) \in Nat
            BY DEF PidInv, TypeOK
          <5>2. k + 1 \in 2..(Len(proc_list) + 1) /\ (k + 1) - 1 = k
            BY <5>1
          <5>3. k + 1 \in 1..Len(proc_list') /\ proc_list'[k + 1] = proc_list[k]
            BY <3>2, <5>1, <5>2
          <5> QED
            BY <5>3
        <4>2. last_pid \in pids'
          <5>1. 1 \in 1..Len(proc_list')
            BY <3>2
          <5> QED
            BY <3>2, <5>1
        <4>3. ASSUME NEW k \in 1..Len(proc_list')
              PROVE  proc_list'[k] \in pids \cup {last_pid}
          <5> HIDE DEF PidInv, TypeOK
          <5>1. Len(proc_list) \in Nat /\ k \in 1..(Len(proc_list) + 1)
            BY <3>2 DEF PidInv, TypeOK
          <5>2. k = 1 \/ (k \in 2..(Len(proc_list) + 1) /\ k - 1 \in 1..Len(proc_list))
            BY <5>1
          <5> QED
            BY <3>2, <5>2
        <4> QED
          BY <4>1, <4>2, <4>3
      <3> QED
        BY <3>1, <3>2, <3>3 DEF Set!Next, Set!Take
    <2>3. CASE \E i \in 1..Len(proc_list) : remove_links(i)
      <3>1. PICK i \in 1..Len(proc_list) : remove_links(i)
        BY <2>3
      <3>2. /\ Len(proc_list') = Len(proc_list) - 1
            /\ \A k \in 1..(Len(proc_list) - 1) :
                 proc_list'[k] = IF k < i THEN proc_list[k] ELSE proc_list[k + 1]
        BY <3>1, DeleteEntry DEF remove_links
      <3>3. \A x : x \in pids \ {proc_list[i]} => x \in pids'
        <4> SUFFICES ASSUME NEW k \in 1..Len(proc_list), k # i
                     PROVE  proc_list[k] \in pids'
          OBVIOUS
        <4> HIDE DEF PidInv, TypeOK
        <4>3. Len(proc_list) \in Nat
          BY DEF PidInv, TypeOK
        <4>1. CASE k < i
          <5>1. k \in 1..(Len(proc_list) - 1)
            BY <4>1, <4>3
          <5>2. k \in 1..Len(proc_list') /\ proc_list'[k] = proc_list[k]
            BY <3>2, <4>1, <5>1
          <5> QED
            BY <5>2
        <4>2. CASE k > i
          <5>1. k - 1 \in 1..(Len(proc_list) - 1) /\ ~(k - 1 < i) /\ (k - 1) + 1 = k
            BY <4>2, <4>3
          <5>2. k - 1 \in 1..Len(proc_list') /\ proc_list'[k - 1] = proc_list[k]
            BY <3>2, <5>1
          <5> QED
            BY <5>2
        <4> QED
          BY <4>1, <4>2
      <3>4. ASSUME NEW k \in 1..Len(proc_list')
            PROVE  proc_list'[k] \in pids \ {proc_list[i]}
        <4> DEFINE old == IF k < i THEN k ELSE k + 1
        <4>1. Len(proc_list) \in Nat /\ k \in 1..(Len(proc_list) - 1)
          BY <3>2
        <4>2. proc_list'[k] = proc_list[old]
          BY <3>2, <4>1
        <4> HIDE DEF PidInv, TypeOK
        <4>3. old \in 1..Len(proc_list) /\ old # i
          BY <4>1
        <4> QED
          BY <4>2, <4>3 DEF PidsUnique, PidInv
      <3>5. pids' = pids \ {proc_list[i]} /\ proc_list[i] \in pids
        BY <3>3, <3>4
      <3>6. proc_list[i] \in 1..(MAX_PID - 1)
        OBVIOUS
      <3> QED
        BY <3>2, <3>5, <3>6 DEF Set!Next, Set!Give
    <2>4. CASE get_pid \/ Scan
      BY <2>4, <2>1 DEF get_pid, Scan, pid_taken, pid_other, loop_ends
    <2> QED
      BY <2>1, <2>2, <2>3, <2>4 DEF PidNext, pid_vars
  <1> QED
    BY <1>1, <1>2, PidInvariance, PTL DEF PidSpec, PidSetSpec, Set!Spec
===============================================================================
