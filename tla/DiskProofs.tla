------------------------------ MODULE DiskProofs ------------------------------
(***************************************************************************)
(* What the kernels keep on a disk.                                        *)
(*                                                                         *)
(* Page replacement of lab3, for every number of pages, of frames and of   *)
(* swap entries: no page fault changes a page that has been used, and with *)
(* fifo and clock no assertion fails but the one that a page that has to   *)
(* go has a swap entry.                                                    *)
(*                                                                         *)
(* The files of lab8, for every number of processes, descriptors, inodes   *)
(* and blocks and any finite loop over them: as long as no assertion has   *)
(* failed, the counts of every inode cover those who use it, and each      *)
(* block is free or at one place of one file, in memory and on the disk    *)
(* that sfs_sync leaves.                                                   *)
(***************************************************************************)
EXTENDS Swap, Files, WellFoundedInduction, FiniteSetTheorems, TLAPS

(* What holds by 0 for all k up to n, when each k takes it from k - 1. *)
LEMMA UpTo ==
  ASSUME NEW n \in Nat, NEW T, 0 \in T, \A k \in 1..n : k - 1 \in T => k \in T
  PROVE  \A k \in 0..n : k \in T
  <1> DEFINE D == {k \in 0..n : k \notin T}
  <1>1. SUFFICES ASSUME D # {} PROVE FALSE
    OBVIOUS
  <1>2. D \subseteq Nat
    OBVIOUS
  <1>3. PICK k \in D : \A j \in D : ~(<<j, k>> \in OpToRel(<, Nat))
    BY <1>1, <1>2, NatLessThanWellFounded, WFMin
  <1>4. k \in 1..n /\ k - 1 \in 0..n /\ k - 1 < k /\ k \notin T
    OBVIOUS
  <1>5. k - 1 \in D
    BY <1>4
  <1>6. <<k - 1, k>> \in OpToRel(<, Nat)
    BY <1>2, <1>4, <1>5, SMT DEF OpToRel
  <1> QED
    BY <1>3, <1>5, <1>6

(* The least number of a set. *)
LEMMA MinIn ==
  ASSUME NEW F \in SUBSET Nat, F # {}
  PROVE  Min(F) \in F
  <1>2. PICK k \in F : \A j \in F : ~(<<j, k>> \in OpToRel(<, Nat))
    BY NatLessThanWellFounded, WFMin
  <1>3. \A j \in F : k =< j
    <2> SUFFICES ASSUME NEW j \in F, ~(k =< j) PROVE FALSE
      OBVIOUS
    <2>1. j < k
      OBVIOUS
    <2>2. <<j, k>> \in OpToRel(<, Nat)
      BY <2>1, SMT DEF OpToRel
    <2> QED
      BY <1>2, <2>2
  <1> QED
    BY <1>2, <1>3 DEF Min
-----------------------------------------------------------------------------
(* Page replacement.                                                       *)

Used == Frames \ free
Bits == {b \in [Entries -> {0, 1, HeadVisited}] :
           b[Head] = HeadVisited /\ \A f \in Frames : b[f] \in {0, 1}}

(* The links l join S and the list head to rings; the head is in one with  *)
(* others, if there are any.                                               *)
LinkRecord == [next : [Entries -> Entries \cup {Null}], prev : [Entries -> Entries \cup {Null}]]
Closed(l, S) ==
  /\ l \in LinkRecord
  /\ \A e \in S \cup {Head} :
       /\ l.next[e] \in S \cup {Head} /\ l.prev[l.next[e]] = e
       /\ l.prev[e] \in S \cup {Head} /\ l.next[l.prev[e]] = e
Ring(l, S) == Closed(l, S) /\ (S # {} => l.prev[Head] # Head)

(* A frame that is not free holds the page that it says it holds, and the  *)
(* page table agrees.                                                      *)
Mapped ==
  /\ \A f \in Used : vaddr[f] \in Pages /\ pte[vaddr[f]] = f
  /\ \A v \in Pages : pte[v] \in Frames => pte[v] \in Used /\ vaddr[pte[v]] = v

Typed ==
  /\ sm \in Managers
  /\ vaddr \in [Frames -> Pages \cup {0}]
  /\ free \in SUBSET Frames
  /\ data \in [Frames -> Values]
  /\ pte \in [Pages -> Frames \cup {0, Swapped}]
  /\ disk \in [Pages -> Values]
  /\ panic \in BOOLEAN

(* With lru no fault has ever been served: its first one stops the kernel. *)
Untouched ==
  /\ next \in [Entries -> {Head, Null}] /\ prev \in [Entries -> {Head, Null}]
  /\ \A f \in Frames : next[f] = Null /\ prev[f] = Null
  /\ free = Frames
  /\ \A v \in Pages : pte[v] = 0

IInv ==
  /\ Typed
  /\ IF sm = "lru" THEN Untouched
     ELSE visited \in Bits /\ Ring(Links, Used) /\ Mapped
-----------------------------------------------------------------------------
LEMMA Sizes ==
  /\ NFrames \in Nat \ {0}
  /\ Head \notin Frames /\ Null \notin Entries /\ Frames \subseteq Nat
  /\ {0, Swapped} \cap Frames = {} /\ 0 \notin Pages /\ Swapped # 0
  /\ Head \in Entries /\ Frames \subseteq Entries /\ Entries = {Head} \cup Frames
  BY SwapAssumption DEF Head, Null, Swapped, Frames, Entries

(* list_del keeps the links whole. *)
LEMMA DelClosed ==
  ASSUME NEW S \in SUBSET Frames, NEW f \in S, NEW l, Closed(l, S)
  PROVE  Closed(list_del(l, f), S \ {f})
  <1> DEFINE p == l.prev[f]
             q == l.next[f]
             m == list_del(l, f)
             T == (S \ {f}) \cup {Head}
  <1>1. l.next \in [Entries -> Entries \cup {Null}] /\ l.prev \in [Entries -> Entries \cup {Null}]
    BY DEF Closed, LinkRecord
  <1>2. /\ p \in S \cup {Head} /\ q \in S \cup {Head}
        /\ l.next[p] = f /\ l.prev[q] = f
    BY DEF Closed
  <1>3. S \cup {Head} \subseteq Entries /\ f # Head /\ T \subseteq Entries
    BY Sizes
  <1>4. /\ m.next \in [Entries -> Entries \cup {Null}] /\ m.prev \in [Entries -> Entries \cup {Null}]
        /\ \A e \in Entries : /\ m.next[e] = IF e = p THEN q ELSE l.next[e]
                              /\ m.prev[e] = IF e = q THEN p ELSE l.prev[e]
        /\ m = [next |-> m.next, prev |-> m.prev]
    BY <1>1, <1>2, <1>3 DEF list_del
  <1> HIDE DEF m
  <1>5. ASSUME NEW e \in T
        PROVE  /\ m.next[e] \in T /\ m.prev[m.next[e]] = e
               /\ m.prev[e] \in T /\ m.next[m.prev[e]] = e
    <2>1. /\ l.next[e] \in S \cup {Head} /\ l.prev[l.next[e]] = e
          /\ l.prev[e] \in S \cup {Head} /\ l.next[l.prev[e]] = e
      BY DEF Closed
    <2>2. e # f /\ e \in Entries
      BY <1>3
    <2>3. m.next[e] \in T /\ m.prev[m.next[e]] = e
      <3>1. CASE e = p
        BY <1>2, <1>3, <1>4, <2>2, <3>1
      <3>2. CASE e # p
        BY <1>2, <1>3, <1>4, <2>1, <2>2, <3>2
      <3> QED
        BY <3>1, <3>2
    <2>4. m.prev[e] \in T /\ m.next[m.prev[e]] = e
      <3>1. CASE e = q
        BY <1>2, <1>3, <1>4, <2>2, <3>1
      <3>2. CASE e # q
        BY <1>2, <1>3, <1>4, <2>1, <2>2, <3>2
      <3> QED
        BY <3>1, <3>2
    <2> QED
      BY <2>3, <2>4
  <1> QED
    BY <1>4, <1>5 DEF Closed, LinkRecord, m

(* __list_add behind the head makes one ring with f and the head in it. *)
LEMMA InsertRing ==
  ASSUME NEW S \in SUBSET Frames, NEW f \in Frames \ S, NEW l, Closed(l, S)
  PROVE  Ring(Insert(l, f, Head, l.next[Head]), S \cup {f})
  <1> DEFINE q == l.next[Head]
             m == Insert(l, f, Head, q)
             T == (S \cup {f}) \cup {Head}
  <1>1. l.next \in [Entries -> Entries \cup {Null}] /\ l.prev \in [Entries -> Entries \cup {Null}]
    BY DEF Closed, LinkRecord
  <1>2. q \in S \cup {Head} /\ l.prev[q] = Head /\ l.prev[Head] \in S \cup {Head}
    BY DEF Closed
  <1>3. S \cup {Head} \subseteq Entries /\ f # Head /\ T \subseteq Entries
    BY Sizes
  <1>4. /\ m.next \in [Entries -> Entries \cup {Null}] /\ m.prev \in [Entries -> Entries \cup {Null}]
        /\ \A e \in Entries :
             /\ m.next[e] = IF e = f THEN q ELSE IF e = Head THEN f ELSE l.next[e]
             /\ m.prev[e] = IF e = f THEN Head ELSE IF e = q THEN f ELSE l.prev[e]
        /\ m = [next |-> m.next, prev |-> m.prev]
    BY <1>1, <1>2, <1>3 DEF Insert
  <1> HIDE DEF m
  <1>5. ASSUME NEW e \in T
        PROVE  /\ m.next[e] \in T /\ m.prev[m.next[e]] = e
               /\ m.prev[e] \in T /\ m.next[m.prev[e]] = e
    <2>1. e \in Entries /\ f \notin S \cup {Head}
      BY <1>3
    <2>2. CASE e = f
      BY <1>2, <1>3, <1>4, <2>1, <2>2
    <2>3. CASE e # f
      <3>1. /\ l.next[e] \in S \cup {Head} /\ l.prev[l.next[e]] = e
            /\ l.prev[e] \in S \cup {Head} /\ l.next[l.prev[e]] = e
        BY <2>3 DEF Closed
      <3>2. m.next[e] \in T /\ m.prev[m.next[e]] = e
        BY <1>2, <1>3, <1>4, <2>1, <2>3, <3>1
      <3>3. m.prev[e] \in T /\ m.next[m.prev[e]] = e
        BY <1>2, <1>3, <1>4, <2>1, <2>3, <3>1
      <3> QED
        BY <3>2, <3>3
    <2> QED
      BY <2>2, <2>3
  <1>6. m.prev[Head] # Head
    <2>1. CASE q = Head
      BY <1>3, <1>4, <2>1, Sizes
    <2>2. CASE q # Head
      <3>1. l.next[l.prev[Head]] = Head
        BY DEF Closed
      <3> QED
        BY <1>3, <1>4, <2>2, <3>1, Sizes
    <2> QED
      BY <2>1, <2>2
  <1>7. Closed(m, S \cup {f})
    BY <1>4, <1>5 DEF Closed, LinkRecord
  <1> QED
    BY <1>6, <1>7 DEF Ring, m
-----------------------------------------------------------------------------
(* The steps of the clock: where it is, and which bits it has left. *)
Clock(w) ==
  IF w.found THEN w
  ELSE [at |-> prev[w.at], found |-> w.visited[prev[w.at]] = 0,
        visited |-> [w.visited EXCEPT ![prev[w.at]] = IF @ = 1 THEN 0 ELSE @]]
Start == [at |-> Head, visited |-> visited, found |-> FALSE]
Turns == 2 * (NFrames + 1)

LEMMA WalkIs ==
  /\ Walk[0] = Start
  /\ \A k \in 1..Turns : Walk[k] = Clock(Walk[k - 1])
  <1> DEFINE G(g, n) == [k \in 0..n |-> IF k = 0 THEN Start ELSE Clock(g[k - 1])]
             T == {n \in 0..Turns : \E g : g = G(g, n)}
  <1>0. Turns \in Nat
    BY Sizes DEF Turns
  <1>1. 0 \in T
    <2>1. PICK g : g = [k \in 0..0 |-> Start]
      OBVIOUS
    <2>2. G(g, 0) = [k \in 0..0 |-> Start]
      OBVIOUS
    <2>3. 0 \in 0..Turns /\ \E f : f = G(f, 0)
      BY <1>0, <2>1, <2>2
    <2> QED
      BY <2>3
  <1>2. ASSUME NEW n \in 1..Turns, n - 1 \in T PROVE n \in T
    <2>1. PICK g : g = G(g, n - 1)
      BY <1>2
    <2> DEFINE h == [k \in 0..n |-> IF k = 0 THEN Start ELSE Clock(g[k - 1])]
    <2>2. \A k \in 0..(n - 1) : h[k] = g[k]
      BY <2>1, <1>0
    <2>3. \A k \in 0..n : k # 0 => k - 1 \in 0..(n - 1)
      BY <1>0
    <2>4. h = G(h, n)
      BY <2>2, <2>3
    <2>5. n \in 0..Turns /\ \E f : f = G(f, n)
      <3> HIDE DEF G, h
      <3> QED
        BY <2>4, <1>0
    <2> QED
      BY <2>5
  <1>3. Turns \in T
    <2> HIDE DEF T
    <2>1. \A k \in 0..Turns : k \in T
      BY <1>0, <1>1, <1>2, UpTo
    <2> QED
      BY <1>0, <2>1
  <1>4. PICK g : g = G(g, Turns)
    BY <1>3
  <1>5. Walk = CHOOSE f : f = G(f, Turns)
    BY DEF Walk, Clock, Start, Turns
  <1>6. Walk = G(Walk, Turns)
    <2> HIDE DEF G
    <2> QED
      BY <1>4, <1>5
  <1> QED
    BY <1>0, <1>6

(* What the clock has done after k steps: it has cleared the bit of every  *)
(* frame that it has passed.                                               *)
Passed(k) ==
  /\ Walk[k].at \in Used \cup {Head}
  /\ Walk[k].visited \in Bits
  /\ Walk[k].found => Walk[k].at \in Used
  /\ ~Walk[k].found =>
       \A j \in 1..k : /\ ~Walk[j - 1].found /\ Walk[j].at = prev[Walk[j - 1].at]
                       /\ Walk[j].at \in Frames => Walk[k].visited[Walk[j].at] = 0

LEMMA ClockStep ==
  ASSUME HeadVisited \notin {0, 1}, free \in SUBSET Frames,
         visited \in Bits, Closed(Links, Used),
         NEW k \in 1..Turns, Passed(k - 1)
  PROVE  Passed(k)
  <1> DEFINE w == Walk[k - 1]
             e == prev[w.at]
  <1>1. Walk[k] = Clock(w)
    BY WalkIs
  <1>2. w.at \in Used \cup {Head} /\ w.visited \in Bits /\ (w.found => w.at \in Used)
    BY DEF Passed
  <1>3. e \in Used \cup {Head}
    BY <1>2 DEF Closed, Links
  <1>4. e \in Entries /\ (e \in Frames <=> e \in Used) /\ Used \subseteq Frames
    BY <1>3, Sizes DEF Used
  <1>5. CASE w.found
    <2>1. Walk[k] = w
      BY <1>1, <1>5 DEF Clock
    <2> QED
      BY <1>2, <1>5, <2>1 DEF Passed
  <1>6. CASE ~w.found
    <2> DEFINE b == [w.visited EXCEPT ![e] = IF @ = 1 THEN 0 ELSE @]
    <2>1. Walk[k].at = e /\ Walk[k].found = (w.visited[e] = 0) /\ Walk[k].visited = b
      BY <1>1, <1>6 DEF Clock
    <2>2. w.visited[Head] = HeadVisited /\ w.visited \in [Entries -> {0, 1, HeadVisited}]
      BY <1>2 DEF Bits
    <2>3. b \in Bits
      BY <1>2, <1>4, <2>2, Sizes DEF Bits
    <2>4. w.visited[e] = 0 => e \in Used
      BY <1>3, <2>2
    <2>5. ASSUME ~Walk[k].found, NEW j \in 1..k
          PROVE  /\ ~Walk[j - 1].found /\ Walk[j].at = prev[Walk[j - 1].at]
                 /\ Walk[j].at \in Frames => Walk[k].visited[Walk[j].at] = 0
      <3>1. CASE j = k
        <4>1. e \in Frames => w.visited[e] \in {0, 1}
          BY <1>2 DEF Bits
        <4>2. e \in Frames => b[e] = 0
          BY <1>4, <2>1, <2>2, <2>5, <4>1
        <4> QED
          BY <1>6, <2>1, <3>1, <4>2
      <3>2. CASE j # k
        <4>1. j \in 1..(k - 1)
          BY <3>2
        <4>2. /\ ~Walk[j - 1].found /\ Walk[j].at = prev[Walk[j - 1].at]
              /\ Walk[j].at \in Frames => w.visited[Walk[j].at] = 0
          BY <1>6, <4>1 DEF Passed
        <4>3. Walk[j].at \in Frames => Walk[j].at \in Entries
          BY Sizes
        <4>4. \A f \in Entries : w.visited[f] = 0 => b[f] = 0
          BY <2>2
        <4> QED
          BY <2>1, <4>2, <4>3, <4>4
      <3> QED
        BY <3>1, <3>2
    <2> HIDE DEF b
    <2> QED
      BY <1>3, <2>1, <2>3, <2>4, <2>5 DEF Passed
  <1> QED
    BY <1>5, <1>6

(* In two turns the clock finds a frame.                                   *)
LEMMA ClockFinds ==
  ASSUME HeadVisited \notin {0, 1}, free \in SUBSET Frames, Used # {},
         visited \in Bits, Ring(Links, Used)
  PROVE  Walk[Turns].at \in Used /\ Walk[Turns].visited \in Bits
  <1>0. Turns \in Nat /\ NFrames + 3 \in 1..Turns /\ NFrames \in Nat
    BY Sizes DEF Turns
  <1>1. \A k \in 0..Turns : Passed(k)
    <2> DEFINE T == {k \in 0..Turns : Passed(k)}
    <2>1. Passed(0)
      BY WalkIs DEF Passed, Start
    <2>2. Closed(Links, Used)
      BY DEF Ring
    <2>3. \A k \in 1..Turns : Passed(k - 1) => Passed(k)
      BY <2>2, ClockStep
    <2>4. 0 \in T /\ \A k \in 1..Turns : k - 1 \in T => k \in T
      BY <1>0, <2>1, <2>3
    <2> HIDE DEF T
    <2>5. \A k \in 0..Turns : k \in T
      BY <1>0, <2>4, UpTo
    <2> QED
      BY <2>5 DEF T
  <1>2. Walk[Turns].visited \in Bits /\ (Walk[Turns].found => Walk[Turns].at \in Used)
    BY <1>0, <1>1 DEF Passed
  <1>3. SUFFICES ASSUME ~Walk[Turns].found PROVE FALSE
    BY <1>2
  <1>4. /\ \A j \in 0..(Turns - 1) : ~Walk[j].found
        /\ \A j \in 1..Turns : Walk[j].at = prev[Walk[j - 1].at]
    <2>1. \A j \in 1..Turns : ~Walk[j - 1].found /\ Walk[j].at = prev[Walk[j - 1].at]
      BY <1>0, <1>1, <1>3, SMTT(30) DEF Passed
    <2>2. \A j \in 0..(Turns - 1) : j + 1 \in 1..Turns /\ (j + 1) - 1 = j
      BY <1>0
    <2> QED
      BY <2>1, <2>2
  (* It comes to no frame twice. *)
  <1>5. ASSUME NEW i \in 1..Turns, NEW j \in 1..Turns, i < j, Walk[i].at = Walk[j].at
        PROVE  Walk[i].at \notin Frames
    <2>1. SUFFICES ASSUME Walk[i].at \in Frames PROVE FALSE
      OBVIOUS
    <2>2. j - 1 \in 0..(Turns - 1) /\ j - 1 \in 0..Turns /\ i \in 1..(j - 1)
      BY <1>0, <1>5
    <2>3. ~Walk[j - 1].found /\ Passed(j - 1)
      BY <1>1, <1>4, <2>2
    <2>4. Walk[j - 1].visited[Walk[i].at] = 0
      BY <2>1, <2>2, <2>3 DEF Passed
    <2>5. Walk[j].at = prev[Walk[j - 1].at]
      BY <1>4
    <2>6. Walk[j] = Clock(Walk[j - 1])
      BY WalkIs
    <2>7. Walk[j].found
      <3> DEFINE w == Walk[j - 1]
      <3>1. Walk[j].found = (w.visited[prev[w.at]] = 0)
        BY <2>3, <2>6 DEF Clock
      <3>2. w.visited[prev[w.at]] = 0
        BY <1>5, <2>4, <2>5
      <3> QED
        BY <3>1, <3>2
    <2> QED
      <3>1. CASE j = Turns
        BY <1>3, <2>7, <3>1
      <3>2. CASE j # Turns
        <4>1. j \in 0..(Turns - 1)
          BY <1>0, <3>2
        <4> QED
          BY <1>4, <2>7, <4>1
      <3> QED
        BY <3>1, <3>2
  (* But it passes more places than there are entries. *)
  <1>6. PICK i \in 1..(NFrames + 2), j \in 1..(NFrames + 2) : i < j /\ Walk[i].at = Walk[j].at
    <2> DEFINE N == 1..(NFrames + 2)
               at == [k \in N |-> Walk[k].at]
    <2>1. IsFiniteSet(N) /\ Cardinality(N) = NFrames + 2
      BY <1>0, FS_Interval
    <2>2. IsFiniteSet(Entries) /\ Cardinality(Entries) = NFrames + 1
      <3>1. IsFiniteSet(Frames) /\ Cardinality(Frames) = NFrames
        BY <1>0, FS_Interval DEF Frames
      <3> QED
        BY <1>0, <3>1, FS_AddElement, Sizes DEF Entries
    <2>3. at \in [N -> Entries]
      <3>1. \A k \in N : Walk[k].at \in Entries
        BY <1>0, <1>1, Sizes DEF Passed, Used
      <3> QED
        BY <3>1
    <2>4. PICK x \in N, y \in N : x # y /\ at[x] = at[y]
      <3> HIDE DEF N, at
      <3>1. Cardinality(Entries) < Cardinality(N)
        BY <1>0, <2>1, <2>2
      <3> QED
        BY <2>1, <2>2, <2>3, <3>1, FS_PigeonHole
    <2>5. Walk[x].at = Walk[y].at /\ (x < y \/ y < x)
      BY <2>4
    <2> QED
      BY <2>5
  <1>7. i \in 1..Turns /\ j \in 1..Turns /\ i \in 0..Turns
    BY <1>0
  <1>8. Walk[i].at = Head
    <2>1. Walk[i].at \notin Frames
      BY <1>5, <1>6, <1>7
    <2>2. Walk[i].at \in Used \cup {Head}
      BY <1>1, <1>7 DEF Passed
    <2> QED
      BY <2>1, <2>2 DEF Used
  <1>9. i + 1 \in 1..Turns /\ j + 1 \in 1..Turns /\ i + 1 < j + 1
    BY <1>0, <1>6
  <1>10. Walk[i + 1].at = prev[Head] /\ Walk[j + 1].at = prev[Head]
    <2>1. (i + 1) - 1 = i /\ (j + 1) - 1 = j
      OBVIOUS
    <2> QED
      BY <1>4, <1>6, <1>8, <1>9, <2>1
  <1>11. prev[Head] \in Frames
    BY DEF Ring, Closed, Links, Used
  <1> QED
    BY <1>5, <1>9, <1>10, <1>11
-----------------------------------------------------------------------------
(* While pages are listed, the manager chooses one of them.                *)
LEMMA VictimListed ==
  ASSUME HeadVisited \notin {0, 1}, IInv, sm # "lru", Used # {}
  PROVE  Victim.at \in Used /\ Victim.visited \in Bits
  <1>1. sm \in {"fifo", "clock"} /\ free \in SUBSET Frames /\ visited \in Bits /\ Ring(Links, Used)
    BY SwapAssumption DEF IInv, Typed
  <1>2. CASE sm = "fifo"
    <2>1. Victim = [at |-> prev[Head], visited |-> visited]
      BY <1>2 DEF Victim
    <2> QED
      BY <1>1, <2>1 DEF Ring, Closed, Links
  <1>3. CASE sm = "clock"
    <2>1. Victim = [at |-> Walk[Turns].at, visited |-> Walk[Turns].visited]
      BY <1>3 DEF Victim, Turns
    <2>2. Walk[Turns].at \in Used /\ Walk[Turns].visited \in Bits
      BY <1>1, ClockFinds
    <2> QED
      BY <2>1, <2>2
  <1> QED
    BY <1>1, <1>2, <1>3

(* alloc_page returns a free frame, or one whose page it has written to    *)
(* the disk; it fails only when a page without a swap entry has to go.     *)
Evicts == free = {}
NoSlot == free = {} /\ \E v \in Pages : pte[v] \in Frames /\ ~HasSlot(v)
PteAfter(f) == IF Evicts THEN [pte EXCEPT ![vaddr[f]] = Swapped] ELSE pte
DiskAfter(f) == IF Evicts THEN [disk EXCEPT ![vaddr[f]] = data[f]] ELSE disk

LEMMA AllocPage ==
  ASSUME HeadVisited \notin {0, 1}, IInv, sm # "lru"
  PROVE  \/ ~alloc_page.ok /\ NoSlot
         \/ \E f \in Frames :
              /\ alloc_page.ok /\ alloc_page.frame = f
              /\ Evicts \/ f \in free
              /\ Closed(alloc_page.links, Used \ {f})
              /\ alloc_page.visited \in Bits
              /\ alloc_page.pte = PteAfter(f) /\ alloc_page.disk = DiskAfter(f)
              /\ alloc_page.free = free \ {f}
  <1>1. /\ free \in SUBSET Frames /\ visited \in Bits /\ Ring(Links, Used) /\ Mapped
        /\ Used \subseteq Frames
    BY DEF IInv, Typed, Used
  <1>2. CASE free # {}
    <2>1. PICK f : f = Min(free)
      OBVIOUS
    <2>2. f \in free
      BY <1>1, <1>2, <2>1, MinIn, Sizes
    <2>3. alloc_page = [frame |-> f, links |-> Links, visited |-> visited, pte |-> pte,
                        disk |-> disk, free |-> free \ {f}, ok |-> TRUE]
      BY <1>2, <2>1 DEF alloc_page
    <2>4. Closed(Links, Used \ {f})
      <3>1. Used \ {f} = Used
        BY <2>2 DEF Used
      <3> QED
        BY <1>1, <3>1 DEF Ring
    <2> QED
      BY <1>1, <1>2, <2>2, <2>3, <2>4 DEF PteAfter, DiskAfter, Evicts
  <1>3. CASE free = {}
    <2>1. Used = Frames /\ Used # {}
      BY <1>3, Sizes DEF Used, Frames
    <2>2. PICK f, b : f = Victim.at /\ b = Victim.visited
      OBVIOUS
    <2>3. f \in Used /\ b \in Bits
      BY <2>1, <2>2, VictimListed
    <2>4. pte[vaddr[f]] \notin {0, Swapped}
      <3>1. pte[vaddr[f]] = f
        BY <1>1, <2>3 DEF Mapped
      <3> QED
        BY <2>1, <2>3, <3>1, Sizes
    <2>5. CASE ~HasSlot(vaddr[f])
      <3>1. alloc_page = [ok |-> FALSE]
        BY <1>3, <2>2, <2>5 DEF alloc_page
      <3>2. vaddr[f] \in Pages /\ pte[vaddr[f]] \in Frames
        BY <1>1, <2>3 DEF Mapped
      <3> QED
        BY <1>3, <2>5, <3>1, <3>2 DEF NoSlot
    <2>6. CASE HasSlot(vaddr[f])
      <3>1. f \in Frames /\ free \ {f} = {}
        BY <1>1, <1>3, <2>3
      <3>2. alloc_page = [frame |-> f, links |-> list_del(Links, f), visited |-> b,
                          pte |-> [pte EXCEPT ![vaddr[f]] = Swapped],
                          disk |-> [disk EXCEPT ![vaddr[f]] = data[f]], free |-> {}, ok |-> TRUE]
        BY <1>3, <2>2, <2>4, <2>6, <3>1 DEF alloc_page
      <3>3. Closed(list_del(Links, f), Used \ {f})
        <4>1. Closed(Links, Used)
          BY <1>1 DEF Ring
        <4> QED
          BY <1>1, <2>3, <4>1, DelClosed
      <3> QED
        BY <1>3, <2>3, <3>1, <3>2, <3>3 DEF PteAfter, DiskAfter, Evicts
    <2> QED
      BY <2>5, <2>6
  <1> QED
    BY <1>2, <1>3

(* What do_pgfault does, when the manager is not lru.                      *)
Faulted(v, f) ==
  /\ Evicts \/ f \in free
  /\ sm' = sm /\ panic' = panic
  /\ Ring(Links', (Used \ {f}) \cup {f})
  /\ visited' \in Bits
  /\ vaddr' = [vaddr EXCEPT ![f] = v]
  /\ free' = free \ {f}
  /\ data' = IF pte[v] = Swapped THEN [data EXCEPT ![f] = DiskAfter(f)[v]] ELSE data
  /\ pte' = [PteAfter(f) EXCEPT ![v] = f]
  /\ disk' = DiskAfter(f)

(* A fault that stops the kernel.                                          *)
Stopped == panic' /\ UNCHANGED <<sm, next, prev, visited, vaddr, free, data, pte, disk>>

LEMMA FaultStep ==
  ASSUME HeadVisited \notin {0, 1}, IInv, sm # "lru", NEW v \in Pages, do_pgfault(v)
  PROVE  (Stopped /\ NoSlot) \/ \E f \in Frames : Faulted(v, f)
  <1>1. CASE ~alloc_page.ok /\ NoSlot
    BY <1>1 DEF do_pgfault, Stopped
  <1>2. CASE ~(~alloc_page.ok /\ NoSlot)
    <2>1. PICK f \in Frames :
             /\ alloc_page.ok /\ alloc_page.frame = f
             /\ Evicts \/ f \in free
             /\ Closed(alloc_page.links, Used \ {f})
             /\ alloc_page.visited \in Bits
             /\ alloc_page.pte = PteAfter(f) /\ alloc_page.disk = DiskAfter(f)
             /\ alloc_page.free = free \ {f}
      BY <1>2, AllocPage
    <2>2. PICK l, b : l = alloc_page.links /\ b = alloc_page.visited
      OBVIOUS
    <2>3. /\ next' = map_swappable(l, f).next /\ prev' = map_swappable(l, f).prev
          /\ visited' = [b EXCEPT ![f] = IF sm = "clock" THEN 1 ELSE @]
          /\ vaddr' = [vaddr EXCEPT ![f] = v]
          /\ free' = free \ {f}
          /\ data' = IF pte[v] = Swapped THEN [data EXCEPT ![f] = DiskAfter(f)[v]] ELSE data
          /\ pte' = [PteAfter(f) EXCEPT ![v] = f]
          /\ disk' = DiskAfter(f)
          /\ sm' = sm /\ panic' = panic
      <3>1. CanMap(alloc_page.links, alloc_page.frame)
        BY DEF CanMap
      <3> QED
        BY <2>1, <2>2, <3>1 DEF do_pgfault, swap_in
    <2>4. Ring(Links', (Used \ {f}) \cup {f})
      <3>1. map_swappable(l, f) = Insert(l, f, Head, l.next[Head])
        BY DEF map_swappable, fifo_map_swappable
      <3>2. Links' = Insert(l, f, Head, l.next[Head])
        BY <2>3, <3>1 DEF Links, Insert
      <3>3. Used \ {f} \subseteq Frames
        BY DEF Used
      <3> QED
        BY <2>1, <2>2, <3>2, <3>3, InsertRing
    <2>5. visited' \in Bits
      <3>1. b \in [Entries -> {0, 1, HeadVisited}] /\ b[Head] = HeadVisited
            /\ \A g \in Frames : b[g] \in {0, 1}
        BY <2>1, <2>2 DEF Bits
      <3>2. visited' \in [Entries -> {0, 1, HeadVisited}] /\ visited'[Head] = HeadVisited
            /\ \A g \in Frames : visited'[g] \in {0, 1}
        BY <2>3, <3>1, Sizes
      <3> QED
        BY <3>2 DEF Bits
    <2> QED
      BY <2>1, <2>3, <2>4, <2>5 DEF Faulted
  <1> QED
    BY <1>1, <1>2

(* The page table after a fault, page by page.                             *)
LEMMA PteIs ==
  ASSUME IInv, sm # "lru", NEW v \in Pages, pte[v] \notin Frames,
         NEW f \in Frames, Faulted(v, f)
  PROVE  /\ pte' \in [Pages -> Frames \cup {0, Swapped}] /\ disk' \in [Pages -> Values]
         /\ data' \in [Frames -> Values]
         /\ pte'[v] = f
         /\ \A w \in Pages \ {v} :
              /\ pte[w] = f => /\ Evicts /\ vaddr[f] = w /\ pte'[w] = Swapped
                               /\ disk'[w] = data[f]
              /\ pte[w] # f => pte'[w] = pte[w] /\ disk'[w] = disk[w]
         /\ disk'[v] = disk[v]
  <1>1. /\ free \in SUBSET Frames /\ Mapped /\ data \in [Frames -> Values]
        /\ pte \in [Pages -> Frames \cup {0, Swapped}] /\ disk \in [Pages -> Values]
    BY DEF IInv, Typed
  <1>2. /\ pte' = [PteAfter(f) EXCEPT ![v] = f] /\ disk' = DiskAfter(f)
        /\ data' = IF pte[v] = Swapped THEN [data EXCEPT ![f] = DiskAfter(f)[v]] ELSE data
        /\ Evicts \/ f \in free
    BY DEF Faulted
  <1>3. \A w \in Pages : pte[w] = f => w = vaddr[f] /\ w # v /\ Evicts
    BY <1>1, <1>2 DEF Mapped, Used
  <1>4. CASE Evicts
    <2>1. vaddr[f] \in Pages /\ pte[vaddr[f]] = f
      BY <1>1, <1>4 DEF Mapped, Used, Evicts
    <2>2. /\ PteAfter(f) = [pte EXCEPT ![vaddr[f]] = Swapped]
          /\ DiskAfter(f) = [disk EXCEPT ![vaddr[f]] = data[f]]
      BY <1>4 DEF PteAfter, DiskAfter
    <2> QED
      BY <1>1, <1>2, <1>3, <1>4, <2>1, <2>2
  <1>5. CASE ~Evicts
    BY <1>1, <1>2, <1>3, <1>5 DEF PteAfter, DiskAfter
  <1> QED
    BY <1>4, <1>5

LEMMA FaultInv ==
  ASSUME IInv, sm # "lru", NEW v \in Pages, pte[v] \notin Frames,
         NEW f \in Frames, Faulted(v, f)
  PROVE  IInv'
  <1>1. /\ Typed /\ Mapped
        /\ free \in SUBSET Frames /\ vaddr \in [Frames -> Pages \cup {0}]
        /\ pte \in [Pages -> Frames \cup {0, Swapped}]
    BY DEF IInv, Typed
  <1>2. /\ sm' = sm /\ panic' = panic /\ visited' \in Bits
        /\ Ring(Links', (Used \ {f}) \cup {f})
        /\ vaddr' = [vaddr EXCEPT ![f] = v] /\ free' = free \ {f}
    BY DEF Faulted
  <1>3. Used' = (Used \ {f}) \cup {f}
    BY <1>1, <1>2 DEF Used
  <1>4. Typed'
    <2>1. /\ pte' \in [Pages -> Frames \cup {0, Swapped}] /\ disk' \in [Pages -> Values]
          /\ data' \in [Frames -> Values]
      BY PteIs
    <2> QED
      BY <1>1, <1>2, <2>1 DEF Typed
  <1>5. Mapped'
    <2>1. ASSUME NEW g \in Used' PROVE vaddr'[g] \in Pages /\ pte'[vaddr'[g]] = g
      <3>1. CASE g = f
        BY <1>1, <1>2, <3>1, PteIs
      <3>2. CASE g # f
        <4>1. g \in Used /\ vaddr'[g] = vaddr[g]
          BY <1>1, <1>2, <1>3, <2>1, <3>2
        <4>2. vaddr[g] \in Pages /\ pte[vaddr[g]] = g /\ g \in Frames
          BY <1>1, <4>1 DEF Mapped, Used
        <4> QED
          BY <3>2, <4>1, <4>2, PteIs
      <3> QED
        BY <3>1, <3>2
    <2>2. ASSUME NEW w \in Pages, pte'[w] \in Frames
          PROVE  pte'[w] \in Used' /\ vaddr'[pte'[w]] = w
      <3>1. CASE w = v
        BY <1>1, <1>2, <1>3, <3>1, PteIs
      <3>2. CASE w # v
        <4>1. pte[w] # f /\ pte'[w] = pte[w]
          BY <2>2, <3>2, PteIs, Sizes
        <4>2. pte[w] \in Used /\ vaddr[pte[w]] = w
          BY <1>1, <2>2, <4>1 DEF Mapped
        <4> QED
          BY <1>1, <1>2, <1>3, <4>1, <4>2 DEF Used
      <3> QED
        BY <3>1, <3>2
    <2> QED
      BY <2>1, <2>2 DEF Mapped
  <1> QED
    BY <1>1, <1>2, <1>3, <1>4, <1>5 DEF IInv, Bits

(* What a page contains, whether it is in memory or on the disk.           *)
Content(v) ==
  IF pte[v] = 0 THEN Undef ELSE IF pte[v] = Swapped THEN disk[v] ELSE data[pte[v]]

LEMMA MemIs ==
  /\ mem = [p \in {"mm"} |-> [v \in Pages |-> Content(v)]]
  /\ mem' = [p \in {"mm"} |-> [v \in Pages |-> Content(v)']]
  <1>1. Swapped # 0
    BY Sizes
  <1>2. \A v \in Pages : Content(v) = CASE pte[v] = 0 -> Undef
                                        [] pte[v] = Swapped -> disk[v]
                                        [] OTHER -> data[pte[v]]
    BY <1>1 DEF Content
  <1>3. \A v \in Pages : Content(v)' = CASE pte'[v] = 0 -> Undef
                                         [] pte'[v] = Swapped -> disk'[v]
                                         [] OTHER -> data'[pte'[v]]
    BY <1>1 DEF Content
  <1> QED
    BY <1>2, <1>3 DEF mem

(* A fault gives a new page some content and leaves all others alone.      *)
LEMMA FaultContent ==
  ASSUME IInv, sm # "lru", NEW v \in Pages, pte[v] \in {0, Swapped},
         NEW f \in Frames, Faulted(v, f)
  PROVE  /\ \A w \in Pages \ {v} : Content(w)' = Content(w)
         /\ Content(v)' \in Values
         /\ pte[v] = Swapped => Content(v)' = Content(v)
  <1>1. pte[v] \notin Frames /\ Swapped # 0 /\ f \notin {0, Swapped}
    BY Sizes
  <1>2. data' = IF pte[v] = Swapped THEN [data EXCEPT ![f] = disk'[v]] ELSE data
    BY DEF Faulted
  <1>3. data \in [Frames -> Values] /\ pte \in [Pages -> Frames \cup {0, Swapped}]
    BY DEF IInv, Typed
  <1>4. ASSUME NEW w \in Pages \ {v} PROVE Content(w)' = Content(w)
    <2>1. CASE pte[w] = f
      <3>1. pte'[w] = Swapped /\ disk'[w] = data[f]
        BY <1>1, <2>1, PteIs
      <3> QED
        BY <1>1, <2>1, <3>1 DEF Content
    <2>2. CASE pte[w] # f
      <3>1. pte'[w] = pte[w] /\ disk'[w] = disk[w]
        BY <1>1, <2>2, PteIs
      <3>2. pte[w] \in Frames => data'[pte[w]] = data[pte[w]]
        BY <1>2, <1>3, <2>2
      <3> QED
        BY <1>3, <3>1, <3>2 DEF Content
    <2> QED
      BY <2>1, <2>2
  <1>5. pte'[v] = f /\ disk'[v] = disk[v] /\ data' \in [Frames -> Values]
    BY <1>1, PteIs
  <1>6. Content(v)' = data'[f]
    BY <1>1, <1>5 DEF Content
  <1>7. pte[v] = Swapped => data'[f] = disk[v]
    BY <1>2, <1>3, <1>5
  <1>8. pte[v] = Swapped => Content(v) = disk[v]
    BY <1>1 DEF Content
  <1> QED
    BY <1>4, <1>5, <1>6, <1>7, <1>8
-----------------------------------------------------------------------------
(* When one page gets x and the others keep what they have.                *)
LEMMA OnePage ==
  ASSUME NEW v \in Pages, NEW x, Content(v)' = x,
         \A w \in Pages \ {v} : Content(w)' = Content(w)
  PROVE  /\ v \in DOMAIN mem["mm"] /\ mem["mm"][v] = Content(v)
         /\ mem' = [mem EXCEPT !["mm"][v] = x]
         /\ Content(v) = x => mem' = mem
  <1>1. "mm" \in {"mm"} /\ mem["mm"] = [w \in Pages |-> Content(w)]
    BY MemIs
  <1>2. [w \in Pages |-> Content(w)'] = [mem["mm"] EXCEPT ![v] = x]
    BY <1>1
  <1>3. mem' = [mem EXCEPT !["mm"] = [w \in Pages |-> Content(w)']]
    BY MemIs
  <1>4. ASSUME Content(v) = x PROVE mem' = mem
    <2>1. \A w \in Pages : Content(w)' = Content(w)
      BY <1>4
    <2> QED
      BY <2>1, MemIs
  <1> QED
    BY <1>1, <1>2, <1>3, <1>4

(* A store changes the page it is to.                                      *)
LEMMA StoreStep ==
  ASSUME IInv, ~panic, NEW v \in Pages, NEW x \in Values, Store(v, x)
  PROVE  /\ IInv'
         /\ \A w \in Pages \ {v} : Content(w)' = Content(w)
         /\ Content(v)' = x /\ Content(v) \in Values
         /\ sm # "lru" /\ ~panic'
  <1>1. /\ pte[v] \in Frames /\ data' = [data EXCEPT ![pte[v]] = x]
        /\ sm' = sm /\ next' = next /\ prev' = prev /\ visited' = visited /\ vaddr' = vaddr
        /\ free' = free /\ pte' = pte /\ disk' = disk /\ panic' = panic
    BY DEF Store
  <1>2. /\ data \in [Frames -> Values] /\ pte \in [Pages -> Frames \cup {0, Swapped}]
    BY DEF IInv, Typed
  <1>3. sm # "lru"
    <2>1. sm = "lru" => pte[v] = 0
      BY DEF IInv, Untouched
    <2> QED
      BY <1>1, <2>1, Sizes
  <1>4. Mapped /\ visited \in Bits /\ Ring(Links, Used)
    BY <1>3 DEF IInv
  <1>5. IInv'
    <2>1. Typed'
      BY <1>1, <1>2 DEF IInv, Typed
    <2>2. Mapped' /\ Links' = Links /\ Used' = Used
      BY <1>1, <1>4 DEF Mapped, Links, Used
    <2> QED
      BY <1>1, <1>3, <1>4, <2>1, <2>2 DEF IInv, Bits
  <1>6. ASSUME NEW w \in Pages \ {v} PROVE Content(w)' = Content(w)
    <2>1. pte[w] \in Frames => pte[w] # pte[v]
      BY <1>1, <1>4 DEF Mapped
    <2>2. pte[w] \in Frames => data'[pte[w]] = data[pte[w]]
      BY <1>1, <1>2, <2>1
    <2> QED
      BY <1>1, <1>2, <2>2 DEF Content
  <1>7. Content(v)' = x /\ Content(v) \in Values
    BY <1>1, <1>2, Sizes DEF Content
  <1> QED
    BY <1>1, <1>3, <1>4, <1>5, <1>6, <1>7

(* With lru the first fault follows a link that nobody has set.            *)
LEMMA LruStops ==
  ASSUME IInv, sm = "lru", NEW v \in Pages, do_pgfault(v)
  PROVE  Stopped /\ IInv'
  <1>1. Typed /\ Untouched
    BY DEF IInv
  <1>2. free = Frames /\ free # {}
    BY <1>1, Sizes DEF Untouched, Frames
  <1>3. PICK f : f = Min(free)
    OBVIOUS
  <1>4. f \in Frames
    BY <1>2, <1>3, MinIn, Sizes
  <1>5. alloc_page.links = Links /\ alloc_page.frame = f
    BY <1>2, <1>3 DEF alloc_page
  <1>6. ~CanMap(alloc_page.links, alloc_page.frame)
    BY <1>1, <1>4, <1>5 DEF CanMap, Links, Untouched
  <1>7. panic' = TRUE /\ UNCHANGED <<sm, next, prev, visited, vaddr, free, data, pte, disk>>
    BY <1>6 DEF do_pgfault
  <1> QED
    BY <1>1, <1>7 DEF IInv, Typed, Untouched, Stopped

(* A fault gives a new page its first content, changes no other page, and  *)
(* stops the kernel for the two reasons that Kept names.                   *)
LEMMA StoppedKeeps ==
  ASSUME IInv, Stopped
  PROVE  IInv' /\ mem' = mem
  <1>1. IInv'
    BY DEF Stopped, IInv, Typed, Untouched, Mapped, Bits, Ring, Closed, LinkRecord, Links, Used
  <1>2. mem' = mem
    BY DEF Stopped, mem
  <1> QED
    BY <1>1, <1>2

LEMMA FaultKeeps ==
  ASSUME HeadVisited \notin {0, 1}, IInv, ~panic, NEW v \in Pages, do_pgfault(v)
  PROVE  /\ IInv'
         /\ \/ panic' /\ mem' = mem /\ (sm = "lru" \/ NoSlot)
            \/ ~panic' /\ Abstract!Fault("mm", v)
  <1>1. CASE sm # "lru" /\ ~(Stopped /\ NoSlot)
    <2>1. PICK f \in Frames : Faulted(v, f)
      BY <1>1, FaultStep
    <2>2. pte[v] \in {0, Swapped} /\ pte[v] \notin Frames
      BY Sizes DEF do_pgfault
    <2>3. IInv'
      BY <1>1, <2>1, <2>2, FaultInv
    <2>4. PICK x : x = Content(v)'
      OBVIOUS
    <2>5. /\ \A w \in Pages \ {v} : Content(w)' = Content(w)
          /\ x \in Values /\ (pte[v] = Swapped => x = Content(v))
      BY <1>1, <2>1, <2>2, <2>4, FaultContent
    <2>6. /\ v \in DOMAIN mem["mm"] /\ mem["mm"][v] = Content(v)
          /\ mem' = [mem EXCEPT !["mm"][v] = x]
          /\ Content(v) = x => mem' = mem
      BY <2>4, <2>5, OnePage
    <2>7. CASE pte[v] = 0
      <3>1. Content(v) = Undef
        BY <2>7 DEF Content
      <3> QED
        BY <2>1, <2>3, <2>5, <2>6, <3>1 DEF Faulted, Abstract!Fault, Abstract!Touch
    <2>8. CASE pte[v] = Swapped
      <3>1. mem' = mem /\ Content(v) # Undef
        BY <2>5, <2>6, <2>8 DEF Values, Undef
      <3> QED
        BY <2>1, <2>3, <2>6, <3>1 DEF Faulted, Abstract!Fault
    <2> QED
      BY <2>2, <2>7, <2>8
  <1>2. CASE sm = "lru"
    BY <1>2, LruStops, StoppedKeeps DEF Stopped
  <1>3. CASE Stopped /\ NoSlot
    BY <1>3, StoppedKeeps DEF Stopped
  <1> QED
    BY <1>1, <1>2, <1>3 DEF Stopped

LEMMA StoreKeeps ==
  ASSUME IInv, ~panic, NEW v \in Pages, NEW x \in Values, Store(v, x)
  PROVE  IInv' /\ ~panic' /\ Abstract!Write("mm", v, x)
  <1>1. /\ IInv' /\ ~panic'
        /\ \A w \in Pages \ {v} : Content(w)' = Content(w)
        /\ Content(v)' = x /\ Content(v) \in Values
    BY StoreStep
  <1>2. v \in DOMAIN mem["mm"] /\ mem["mm"][v] = Content(v) /\ mem' = [mem EXCEPT !["mm"][v] = x]
    BY <1>1, OnePage
  <1>3. Content(v) # Undef
    BY <1>1 DEF Values, Undef
  <1> QED
    BY <1>1, <1>2, <1>3 DEF Abstract!Write

(* The links, the page table and the disk stay together, and the clock     *)
(* ends: the word that stands for the head's bit is neither 0 nor 1.       *)
THEOREM SwapInductive ==
  ASSUME HeadVisited \notin {0, 1}
  PROVE  /\ Init => IInv
         /\ IInv /\ [Next]_vars => IInv' /\ [Kept]_vars
  <1>1. ASSUME Init PROVE IInv
    <2>1. /\ sm \in Managers /\ free = Frames /\ data \in [Frames -> Values]
          /\ next = [e \in Entries |-> IF e = Head THEN Head ELSE Null] /\ prev = next
          /\ visited = [e \in Entries |-> IF e = Head THEN HeadVisited ELSE 0]
          /\ vaddr = [f \in Frames |-> 0] /\ panic = FALSE
          /\ pte = [v \in Pages |-> 0] /\ disk = [v \in Pages |-> 0]
      BY <1>1 DEF Init, swap_init, init_mm
    <2>2. Typed
      BY <2>1 DEF Typed, Values
    <2>3. Untouched
      BY <2>1, Sizes DEF Untouched
    <2>4. visited \in Bits
      BY <2>1, Sizes DEF Bits
    <2>5. Used = {}
      BY <2>1 DEF Used
    <2>6. Ring(Links, Used)
      BY <2>1, <2>5, Sizes DEF Ring, Closed, LinkRecord, Links
    <2>7. Mapped
      BY <2>1, <2>5, Sizes DEF Mapped
    <2> QED
      BY <2>1, <2>2, <2>3, <2>4, <2>6, <2>7 DEF IInv
  <1>2. ASSUME IInv, [Next]_vars
        PROVE  IInv' /\ [Kept]_vars
    <2>1. CASE UNCHANGED vars
      BY <1>2, <2>1 DEF vars, IInv, Typed, Untouched, Mapped, Bits, Ring, Closed, LinkRecord,
                        Links, Used
    <2>2. CASE Next
      <3>1. ~panic
        BY <2>2 DEF Next
      <3>2. IInv'
        BY <1>2, <2>2, <3>1, FaultKeeps, StoreKeeps DEF Next
      <3>3. CASE panic'
        <4>1. PICK v \in Pages : do_pgfault(v)
          BY <1>2, <2>2, <3>1, <3>3, StoreKeeps DEF Next
        <4> QED
          BY <1>2, <3>1, <3>2, <3>3, <4>1, FaultKeeps DEF Kept, NoSlot
      <3>4. CASE ~panic'
        <4>1. \A v \in Pages : do_pgfault(v) => Abstract!Fault("mm", v)
          BY <1>2, <3>1, <3>4, FaultKeeps
        <4>2. \A v \in Pages, x \in Values : Store(v, x) => Abstract!Write("mm", v, x)
          BY <1>2, <3>1, StoreKeeps
        <4> QED
          BY <3>2, <3>4, <4>1, <4>2 DEF Kept
      <3> QED
        BY <3>3, <3>4
    <2> QED
      BY <1>2, <2>1, <2>2
  <1> QED
    BY <1>1, <1>2

(* SwapKeeps: do_pgfault, swap_out and swap_in leave every page that has   *)
(* been used as it is, and a store changes its own page only, whatever the *)
(* manager.  The kernel stops only in lru's first fault, or when a page    *)
(* without a swap entry may have to go.                                    *)
THEOREM MemoryKept ==
  ASSUME HeadVisited \notin {0, 1}
  PROVE  Spec => SwapKeeps
  <1>1. /\ Init => IInv
        /\ IInv /\ [Next]_vars => IInv' /\ [Kept]_vars
    BY SwapInductive
  <1> QED
    BY <1>1, PTL DEF Spec, SwapKeeps
-----------------------------------------------------------------------------
(* Files.                                                                  *)

(* What the fields of a mounted file system may be.                        *)
Nums == Data \cup {None}
MaxBlocks == SFS_NDIRECT + SFS_BLK_NENTRY
Dins == [size : Nat, blocks : 0..MaxBlocks, indirect : Nums,
         direct : [0..(SFS_NDIRECT - 1) -> Nums]]
Nodes == [ref : Nat \ {0}, open : Nat, dirty : BOOLEAN, din : Dins]
Said == {"", "index out of range", "tblks == din->blocks", "vop_truncate", "vop_tryseek",
         "vop_read", "vop_create"}
Mounts == [cache : [Inos -> Nodes \cup {NoNode}], disk : [Inos -> Dins],
           entries : [Data -> [0..(SFS_BLK_NENTRY - 1) -> Nums]],
           freemap : SUBSET Data, unused : Int, super_dirty : BOOLEAN,
           saved : [freemap : SUBSET Data, unused : Int], panic : Said]

(* Where a block number may stand, and which one stands there.             *)
PlaceSet == ({"direct"} \X (0..(SFS_NDIRECT - 1))) \cup {<<"indirect", 0>>}
            \cup ({"entry"} \X (0..(SFS_BLK_NENTRY - 1)))
Cells == Files \X PlaceSet
Number(ent, din, place) ==
  IF place[1] = "direct" THEN din.direct[place[2]]
  ELSE IF place[1] = "indirect" THEN din.indirect
  ELSE IF din.indirect = None THEN None ELSE ent[din.indirect][place[2]]
Numbers(ent, dins) == [x \in Cells |-> Number(ent, dins[x[1]], x[2])]

DinsOf(f) == [i \in Inos |-> Din(f, i)]
NumbersOf(f) == Numbers(f.entries, DinsOf(f))

(* Each block is free or stands at one place.                              *)
Own(m, fr) ==
  /\ m \in [Cells -> Nums]
  /\ \A x, y \in Cells : m[x] = m[y] /\ m[x] # None => x = y
  /\ \A b \in Data : b \notin fr <=> \E x \in Cells : m[x] = b

(* An inode that is not dirty names the blocks that its disk inode names.  *)
SameBlocks(d, e) == d.direct = e.direct /\ d.indirect = e.indirect
Clean(f) ==
  \A i \in Inos : Cached(f, i) /\ ~f.cache[i].dirty => SameBlocks(f.cache[i].din, f.disk[i])

Good(f) ==
  /\ f \in Mounts
  /\ Clean(f) /\ Own(NumbersOf(f), f.freemap) /\ f.unused = Cardinality(f.freemap)
  /\ f.super_dirty \/ f.saved = [freemap |-> f.freemap, unused |-> f.unused]

(* The counts of the inodes: h descriptors are open on each, and there are *)
(* w other references, or fewer.                                           *)
Counted(f, h, w) ==
  /\ h \in [Inos -> Nat] /\ w \in [Inos -> Nat]
  /\ \A i \in Inos : IF Cached(f, i)
                     THEN f.cache[i].ref >= h[i] + w[i] /\ f.cache[i].open = h[i]
                     ELSE h[i] = 0 /\ w[i] = 0

(* Tables of open files and of current directories.                        *)
FdEntries == {FD_NONE} \cup [node : Inos, pos : Nat, writable : BOOLEAN]
Tables == [Procs -> [Fds -> FdEntries]]
HeldBy(t, i) == {x \in Procs \X Fds : t[x[1]][x[2]].node = i}
HoldersOf(t) == [i \in Inos |-> Cardinality(HeldBy(t, i))]
CwdsOf(t) == [i \in Inos |-> Cardinality({p \in Procs : t[p] = i}) + (IF i = Root THEN 1 ELSE 0)]

Pwds == [Procs -> Inos \cup {None}]

(* A file system in order, and what is counted on its inodes.              *)
Quiet(f) == f.panic = ""
Sound(f, h, w) == Good(f) /\ Quiet(f) /\ Counted(f, h, w)

Ordered ==
  /\ Sound(fs, HoldersOf(fd), CwdsOf(pwd))
  /\ fd \in Tables /\ pwd \in Pwds
  /\ \A p \in Procs : pwd[p] = None => fd[p] = NoFiles /\ p \notin alive

FilesInv == Quiet(fs) => Ordered
LEMMA FsConstants ==
  /\ Inos \subseteq Nat \ {0} /\ IsFiniteSet(Inos) /\ Files \subseteq Inos /\ Dirs \subseteq Inos
  /\ NData \in Nat /\ SFS_NDIRECT \in Nat /\ SFS_BLK_NENTRY \in Nat /\ SFS_BLKSIZE \in Nat \ {0}
  /\ MaxBlocks \in Nat /\ Data \subseteq Nat \ {0} /\ None \notin Data /\ None = 0
  /\ Nums = 0..NData
  BY SfsAssumption DEF Inos, Data, None, MaxBlocks, Nums

LEMMA FiniteData ==
  /\ IsFiniteSet(Data)
  /\ \A F \in SUBSET Data : IsFiniteSet(F) /\ Cardinality(F) \in Nat
  <1>1. IsFiniteSet(Data)
    BY FsConstants, FS_Interval DEF Data
  <1> QED
    BY <1>1, FS_Subset, FS_CardinalityType

(* A block comes off the free map and is written somewhere. *)
LEMMA SetCell ==
  ASSUME NEW m, NEW fr \in SUBSET Data, Own(m, fr),
         NEW x \in Cells, m[x] = None, NEW b \in fr
  PROVE  Own([m EXCEPT ![x] = b], fr \ {b})
  <1> DEFINE n == [m EXCEPT ![x] = b]
  <1>1. m \in [Cells -> Nums] /\ b \in Data /\ b # None
    BY FsConstants DEF Own
  <1>2. n \in [Cells -> Nums] /\ n[x] = b /\ \A y \in Cells : y # x => n[y] = m[y]
    BY <1>1 DEF Nums
  <1>3. \A y \in Cells : m[y] # b
    BY <1>1 DEF Own
  <1> HIDE DEF n
  <1>4. \A y, z \in Cells : n[y] = n[z] /\ n[y] # None => y = z
    BY <1>1, <1>2, <1>3 DEF Own
  <1>5. \A c \in Data : c \notin fr \ {b} <=> \E y \in Cells : n[y] = c
    <2> SUFFICES ASSUME NEW c \in Data PROVE c \notin fr \ {b} <=> \E y \in Cells : n[y] = c
      OBVIOUS
    <2>1. CASE c = b
      BY <1>2, <2>1
    <2>2. CASE c # b
      <3>1. c \notin fr <=> \E y \in Cells : m[y] = c
        BY DEF Own
      <3>2. \A y \in Cells : n[y] = c <=> m[y] = c
        BY <1>2, <2>2, FsConstants
      <3> QED
        BY <2>2, <3>1, <3>2
    <2> QED
      BY <2>1, <2>2
  <1> QED
    BY <1>2, <1>4, <1>5 DEF Own, n

(* A block is written over and goes back to the free map. *)
LEMMA ClearCell ==
  ASSUME NEW m, NEW fr \in SUBSET Data, Own(m, fr), NEW x \in Cells, m[x] # None
  PROVE  Own([m EXCEPT ![x] = None], fr \cup {m[x]}) /\ m[x] \in Data \ fr
  <1> DEFINE n == [m EXCEPT ![x] = None]
  <1>1. m \in [Cells -> Nums] /\ m[x] \in Data \ fr
    BY DEF Own, Nums
  <1>2. n \in [Cells -> Nums] /\ n[x] = None /\ \A y \in Cells : y # x => n[y] = m[y]
    BY <1>1 DEF Nums
  <1> HIDE DEF n
  <1>4. \A y, z \in Cells : n[y] = n[z] /\ n[y] # None => y = z
    BY <1>1, <1>2 DEF Own
  <1>5. \A c \in Data : c \notin fr \cup {m[x]} <=> \E y \in Cells : n[y] = c
    <2> SUFFICES ASSUME NEW c \in Data PROVE c \notin fr \cup {m[x]} <=> \E y \in Cells : n[y] = c
      OBVIOUS
    <2>1. CASE c = m[x]
      BY <1>1, <1>2, <2>1, FsConstants DEF Own
    <2>2. CASE c # m[x]
      <3>1. c \notin fr <=> \E y \in Cells : m[y] = c
        BY DEF Own
      <3>2. \A y \in Cells : n[y] = c <=> m[y] = c
        BY <1>2, <2>2, FsConstants
      <3> QED
        BY <2>2, <3>1, <3>2
    <2> QED
      BY <2>1, <2>2
  <1> QED
    BY <1>1, <1>2, <1>4, <1>5 DEF Own, n

(* Then each block has one owner. *)
LEMMA OwnedFromOwn ==
  ASSUME NEW f \in Mounts, NEW dins \in [Inos -> Dins], NEW fr \in SUBSET Data,
         Own(Numbers(f.entries, dins), fr)
  PROVE  OwnedOnce(f, dins, fr, Cardinality(fr))
  <1> DEFINE m == Numbers(f.entries, dins)
             uses == Uses(f, dins)
             At(x) == BlockAt(f, dins[x[1]], x[2])
             used == {At(x) : x \in uses}
             g == [b \in used |-> CHOOSE x \in uses : At(x) = b]
  <1>1. uses = {x \in Cells : m[x] # None}
    <2>1. ASSUME NEW i \in Files, NEW place
          PROVE  place \in Places(f, dins[i])
                   <=> place \in PlaceSet /\ Number(f.entries, dins[i], place) # None
      <3>1. dins[i] \in Dins /\ DOMAIN dins[i].direct = 0..(SFS_NDIRECT - 1)
            /\ DOMAIN ZeroBlock = 0..(SFS_BLK_NENTRY - 1)
        BY FsConstants DEF Dins, ZeroBlock
      <3> QED
        BY <3>1 DEF Places, PlaceSet, Number
    <2> QED
      BY <2>1 DEF Uses, Cells, Numbers
  <1>2. \A x \in uses : At(x) = m[x]
    <2> SUFFICES ASSUME NEW x \in uses PROVE At(x) = m[x]
      OBVIOUS
    <2>1. x \in Cells /\ m[x] # None /\ m[x] = Number(f.entries, dins[x[1]], x[2])
      BY <1>1 DEF Numbers
    <2>2. x[2] \in PlaceSet
      BY <2>1 DEF Cells
    <2>3. x[2][1] \in {"direct", "indirect", "entry"}
      BY <2>2 DEF PlaceSet
    <2> QED
      BY <2>1, <2>3 DEF BlockAt, Number
  <1> HIDE DEF m, uses
  <1>3. used = Data \ fr
    <2>1. \A x \in Cells : m[x] \in Nums
      BY DEF Own, m
    <2>2. \A b \in used : b \in Data \ fr
      BY <1>1, <1>2, <2>1 DEF Own, m, Nums
    <2>3. \A b \in Data \ fr : b \in used
      BY <1>1, <1>2, FsConstants DEF Own, m
    <2> QED
      BY <2>2, <2>3
  <1>4. g \in Bijection(used, uses)
    <2>1. \A b \in used : g[b] \in uses /\ At(g[b]) = b
      OBVIOUS
    <2>2. g \in [used -> uses]
      BY <2>1
    <2>3. \A b, c \in used : g[b] = g[c] => b = c
      BY <2>1
    <2>4. \A x \in uses : At(x) \in used /\ g[At(x)] = x
      <3>1. \A x \in uses : At(x) \in used /\ g[At(x)] \in uses /\ At(g[At(x)]) = At(x)
        BY <2>1
      <3> QED
        BY <1>1, <1>2, <3>1 DEF Own, m
    <2>5. \A x \in uses : \E b \in used : g[b] = x
      BY <2>4
    <2> HIDE DEF g, used
    <2> QED
      BY <2>2, <2>3, <2>5 DEF Bijection, Injection, Surjection, IsInjective
  <1>5. Cardinality(used) = Cardinality(uses)
    <2>1. IsFiniteSet(used) /\ ExistsBijection(used, uses)
      BY <1>3, <1>4, FiniteData DEF ExistsBijection
    <2> QED
      BY <2>1, FS_Bijection
  <1> QED
    BY <1>3, <1>5 DEF OwnedOnce, uses
-----------------------------------------------------------------------------
Direct(i, k) == <<i, <<"direct", k>>>>
Indirect(i) == <<i, <<"indirect", 0>>>>
Entry(i, k) == <<i, <<"entry", k>>>>

LEMMA CellsAre ==
  /\ \A i \in Files, k \in 0..(SFS_NDIRECT - 1) : Direct(i, k) \in Cells
  /\ \A i \in Files : Indirect(i) \in Cells
  /\ \A i \in Files, k \in 0..(SFS_BLK_NENTRY - 1) : Entry(i, k) \in Cells
  /\ \A x \in Cells : \/ \E i \in Files, k \in 0..(SFS_NDIRECT - 1) : x = Direct(i, k)
                      \/ \E i \in Files : x = Indirect(i)
                      \/ \E i \in Files, k \in 0..(SFS_BLK_NENTRY - 1) : x = Entry(i, k)
  BY DEF Cells, PlaceSet, Direct, Indirect, Entry

LEMMA NumberAt ==
  ASSUME NEW f
  PROVE  /\ \A i \in Files, k \in 0..(SFS_NDIRECT - 1) :
              NumbersOf(f)[Direct(i, k)] = Din(f, i).direct[k]
         /\ \A i \in Files : NumbersOf(f)[Indirect(i)] = Din(f, i).indirect
         /\ \A i \in Files, k \in 0..(SFS_BLK_NENTRY - 1) :
              NumbersOf(f)[Entry(i, k)] = IF Din(f, i).indirect = None THEN None
                                          ELSE f.entries[Din(f, i).indirect][k]
  <1> DEFINE m == NumbersOf(f)
  <1>1. \A x \in Cells : m[x] = Number(f.entries, Din(f, x[1]), x[2])
    BY FsConstants DEF NumbersOf, Numbers, DinsOf, Cells
  <1> HIDE DEF m
  <1>2. \A i \in Files, k \in 0..(SFS_NDIRECT - 1) : m[Direct(i, k)] = Din(f, i).direct[k]
    BY <1>1, CellsAre DEF Direct, Number
  <1>3. \A i \in Files : m[Indirect(i)] = Din(f, i).indirect
    BY <1>1, CellsAre DEF Indirect, Number
  <1>4. \A i \in Files, k \in 0..(SFS_BLK_NENTRY - 1) :
           m[Entry(i, k)] = IF Din(f, i).indirect = None THEN None
                            ELSE f.entries[Din(f, i).indirect][k]
    BY <1>1, CellsAre DEF Entry, Number
  <1> QED
    BY <1>2, <1>3, <1>4 DEF m

LEMMA CachedNode ==
  ASSUME NEW f \in Mounts, NEW i \in Inos
  PROVE  /\ Cached(f, i) => f.cache[i] \in Nodes /\ Din(f, i) = f.cache[i].din
         /\ ~Cached(f, i) => f.cache[i] = NoNode /\ Din(f, i) = f.disk[i]
         /\ Din(f, i) \in Dins
         /\ \A c \in Nodes : c # NoNode
  BY DEF Mounts, Cached, Din, Nodes, NoNode

(* One inode in memory changes, and all it counts is as before. *)
SameCounts(f, g) ==
  /\ g.panic = f.panic
  /\ \A i \in Inos : /\ Cached(g, i) <=> Cached(f, i)
                     /\ Cached(f, i) => /\ g.cache[i].ref = f.cache[i].ref
                                        /\ g.cache[i].open = f.cache[i].open

LEMMA CountedSame ==
  ASSUME NEW f, NEW g, SameCounts(f, g), NEW h, NEW w, Counted(f, h, w)
  PROVE  Counted(g, h, w)
  BY DEF SameCounts, Counted

NodeFits(f, i, n) ==
  /\ Good(f) /\ i \in Inos /\ Cached(f, i) /\ n \in Nodes
  /\ n.ref = f.cache[i].ref /\ n.open = f.cache[i].open
  /\ n.dirty \/ (~f.cache[i].dirty /\ SameBlocks(n.din, f.cache[i].din))

NodeWritten(f, i, n, g) ==
  /\ NodeFits(f, i, n)
  /\ g.disk = f.disk /\ g.panic = f.panic /\ g.cache = [f.cache EXCEPT ![i] = n]

LEMMA NodeChange ==
  ASSUME NEW f, NEW i, NEW n, NEW g, NodeWritten(f, i, n, g)
  PROVE  /\ g.cache \in [Inos -> Nodes \cup {NoNode}] /\ g.cache[i] = n
         /\ Clean(g) /\ SameCounts(f, g)
         /\ Din(g, i) = n.din /\ \A j \in Inos \ {i} : Din(g, j) = Din(f, j)
  <1>0. /\ Good(f) /\ i \in Inos /\ Cached(f, i) /\ n \in Nodes
        /\ n.ref = f.cache[i].ref /\ n.open = f.cache[i].open
        /\ n.dirty \/ (~f.cache[i].dirty /\ SameBlocks(n.din, f.cache[i].din))
        /\ g.disk = f.disk /\ g.panic = f.panic /\ g.cache = [f.cache EXCEPT ![i] = n]
    BY DEF NodeWritten, NodeFits
  <1>1. f \in Mounts /\ Clean(f) /\ f.cache \in [Inos -> Nodes \cup {NoNode}]
    BY <1>0 DEF Good, Mounts
  <1>2. f.cache[i] \in Nodes /\ n # NoNode
    BY <1>0, <1>1, CachedNode
  <1>3. /\ g.cache \in [Inos -> Nodes \cup {NoNode}]
        /\ g.cache[i] = n /\ \A j \in Inos \ {i} : g.cache[j] = f.cache[j]
    BY <1>0, <1>1
  <1>4. Clean(g)
    BY <1>0, <1>1, <1>2, <1>3 DEF Clean, SameBlocks, Cached
  <1>5. SameCounts(f, g)
    BY <1>0, <1>2, <1>3 DEF SameCounts, Cached
  <1> QED
    BY <1>0, <1>2, <1>3, <1>4, <1>5 DEF Din, Cached

(* A mounted file system is its fields; and what changes an inode in it. *)
Fields(f) == f = [cache |-> f.cache, disk |-> f.disk, entries |-> f.entries,
                  freemap |-> f.freemap, unused |-> f.unused,
                  super_dirty |-> f.super_dirty, saved |-> f.saved, panic |-> f.panic]

LEMMA MountIs ==
  ASSUME NEW f, Fields(f),
         f.cache \in [Inos -> Nodes \cup {NoNode}], f.disk \in [Inos -> Dins],
         f.entries \in [Data -> [0..(SFS_BLK_NENTRY - 1) -> Nums]],
         f.freemap \in SUBSET Data, f.unused \in Int, f.super_dirty \in BOOLEAN,
         f.saved \in [freemap : SUBSET Data, unused : Int], f.panic \in Said
  PROVE  f \in Mounts
  BY DEF Mounts, Fields

WithNode(f, i, n) == [f EXCEPT !.cache = [f.cache EXCEPT ![i] = n]]
DirtyDin(c, d) == [[c EXCEPT !.din = d] EXCEPT !.dirty = TRUE]

LEMMA DirtyDinIs ==
  ASSUME NEW c \in Nodes, NEW d \in Dins, NEW n, n = DirtyDin(c, d)
  PROVE  n \in Nodes /\ n.ref = c.ref /\ n.open = c.open /\ n.dirty /\ n.din = d
  BY DEF DirtyDin, Nodes

(* A number is written, of a block that was free. *)
Assigns(f, g, x, b) ==
  /\ Good(f) /\ g \in Mounts /\ Clean(g) /\ g.super_dirty
  /\ x \in Cells /\ NumbersOf(f)[x] = None /\ b \in f.freemap
  /\ \A y \in Cells : NumbersOf(g)[y] = IF y = x THEN b ELSE NumbersOf(f)[y]
  /\ g.freemap = f.freemap \ {b} /\ g.unused = f.unused - 1

LEMMA Assigned ==
  ASSUME NEW f, NEW g, NEW x, NEW b, Assigns(f, g, x, b)
  PROVE  Good(g)
  <1> USE DEF Assigns
  <1>1. f.freemap \in SUBSET Data /\ Own(NumbersOf(f), f.freemap)
        /\ f.unused = Cardinality(f.freemap)
    BY DEF Good, Mounts
  <1>2. PICK m, fr : m = NumbersOf(f) /\ fr = f.freemap
    OBVIOUS
  <1>3. Own(NumbersOf(g), g.freemap)
    <2>1. NumbersOf(g) = [m EXCEPT ![x] = b]
      BY <1>2 DEF NumbersOf, Numbers
    <2>2. Own([m EXCEPT ![x] = b], fr \ {b})
      BY <1>1, <1>2, SetCell
    <2> QED
      BY <1>2, <2>1, <2>2
  <1>4. g.unused = Cardinality(g.freemap)
    BY <1>1, FiniteData, FS_RemoveElement
  <1> QED
    BY <1>3, <1>4 DEF Good

(* A number is cleared, and the block is free. *)
Clears(f, g, x) ==
  /\ Good(f) /\ g \in Mounts /\ Clean(g) /\ g.super_dirty
  /\ x \in Cells /\ NumbersOf(f)[x] # None
  /\ \A y \in Cells : NumbersOf(g)[y] = IF y = x THEN None ELSE NumbersOf(f)[y]
  /\ g.freemap = f.freemap \cup {NumbersOf(f)[x]} /\ g.unused = f.unused + 1

LEMMA Cleared ==
  ASSUME NEW f, NEW g, NEW x, Clears(f, g, x)
  PROVE  Good(g)
  <1> USE DEF Clears
  <1>1. f.freemap \in SUBSET Data /\ Own(NumbersOf(f), f.freemap)
        /\ f.unused = Cardinality(f.freemap)
    BY DEF Good, Mounts
  <1>2. PICK m, fr : m = NumbersOf(f) /\ fr = f.freemap
    OBVIOUS
  <1>3. Own(NumbersOf(g), g.freemap) /\ m[x] \notin fr
    <2>1. NumbersOf(g) = [m EXCEPT ![x] = None]
      BY <1>2 DEF NumbersOf, Numbers
    <2>2. Own([m EXCEPT ![x] = None], fr \cup {m[x]}) /\ m[x] \in Data \ fr
      BY <1>1, <1>2, ClearCell
    <2> QED
      BY <1>2, <2>1, <2>2
  <1>4. g.unused = Cardinality(g.freemap)
    <2>1. PICK b : b = m[x]
      OBVIOUS
    <2>2. IsFiniteSet(fr) /\ b \notin fr /\ Cardinality(fr) \in Nat
      BY <1>1, <1>2, <1>3, <2>1, FiniteData
    <2>3. Cardinality(fr \cup {b}) = Cardinality(fr) + 1
      BY <2>2, FS_AddElement
    <2> QED
      BY <1>1, <1>2, <2>1, <2>3
  <1> QED
    BY <1>3, <1>4 DEF Good
-----------------------------------------------------------------------------
(* The five ways in which a block comes to a file or leaves it. *)
LEMMA AllocIs ==
  ASSUME NEW f, Good(f), f.freemap # {}
  PROVE  \E b \in f.freemap :
           /\ bitmap_alloc(f) = b /\ b \in Data
           /\ sfs_block_alloc(f) =
                [f EXCEPT !.freemap = f.freemap \ {b}, !.unused = f.unused - 1,
                          !.super_dirty = TRUE, !.entries[b] = ZeroBlock]
  <1>1. f.freemap \in SUBSET Data /\ f.freemap \in SUBSET Nat
    BY FsConstants DEF Good, Mounts
  <1>2. Min(f.freemap) \in f.freemap
    BY <1>1, MinIn
  <1> QED
    BY <1>1, <1>2 DEF bitmap_alloc, sfs_block_alloc

(* How the result of a block operation differs: the inode i has become n,  *)
(* the entries e, the free map fr, and so on.                              *)
Changed(f, i, n, e, fr, u) ==
  [f EXCEPT !.cache = [f.cache EXCEPT ![i] = n], !.entries = e, !.freemap = fr, !.unused = u,
            !.super_dirty = TRUE]

ChangeFits(f, i, n, e, fr, u) ==
  /\ NodeFits(f, i, n)
  /\ e \in [Data -> [0..(SFS_BLK_NENTRY - 1) -> Nums]] /\ fr \in SUBSET Data /\ u \in Int

LEMMA ChangedIs ==
  ASSUME NEW f, NEW i, NEW n, NEW e, NEW fr, NEW u, ChangeFits(f, i, n, e, fr, u),
         NEW g, g = Changed(f, i, n, e, fr, u)
  PROVE  /\ g \in Mounts /\ Clean(g) /\ SameCounts(f, g) /\ g.super_dirty
         /\ g.entries = e /\ g.freemap = fr /\ g.unused = u
         /\ g.cache[i] = n
         /\ Din(g, i) = n.din /\ \A j \in Inos \ {i} : Din(g, j) = Din(f, j)
  <1>1. f \in Mounts
    BY DEF ChangeFits, NodeFits, Good
  <1>2. /\ g.disk = f.disk /\ g.panic = f.panic
        /\ g.cache = [f.cache EXCEPT ![i] = n]
        /\ g.entries = e /\ g.freemap = fr /\ g.unused = u /\ g.super_dirty = TRUE
        /\ g.saved = f.saved
    BY <1>1 DEF Changed, Mounts
  <1>5. Fields(g)
    BY <1>1 DEF Changed, Mounts, Fields
  <1>3. /\ g.cache \in [Inos -> Nodes \cup {NoNode}] /\ g.cache[i] = n
        /\ Clean(g) /\ SameCounts(f, g)
        /\ Din(g, i) = n.din /\ \A j \in Inos \ {i} : Din(g, j) = Din(f, j)
    <2>1. NodeWritten(f, i, n, g)
      BY <1>2 DEF ChangeFits, NodeWritten
    <2> QED
      BY <2>1, NodeChange
  <1>4. g \in Mounts
    <2>1. f.disk \in [Inos -> Dins] /\ f.saved \in [freemap : SUBSET Data, unused : Int]
          /\ f.panic \in Said
      BY <1>1 DEF Mounts
    <2> QED
      BY <1>2, <1>3, <1>5, <2>1, MountIs DEF ChangeFits
  <1> QED
    BY <1>2, <1>3, <1>4
(* The numbers of the other files are as before.                           *)
LEMMA OtherFiles ==
  ASSUME NEW f, Good(f), NEW i \in Files, NEW g,
         \A j \in Inos \ {i} : Din(g, j) = Din(f, j),
         \A b \in Data \ f.freemap : b = Din(f, i).indirect \/ g.entries[b] = f.entries[b]
  PROVE  \A y \in Cells : y[1] # i => NumbersOf(g)[y] = NumbersOf(f)[y]
  <1> DEFINE m == NumbersOf(f)
  <1>1. f \in Mounts /\ Own(m, f.freemap)
    BY DEF Good
  <1>2. ASSUME NEW j \in Files \ {i} PROVE Din(f, j).indirect # None =>
           g.entries[Din(f, j).indirect] = f.entries[Din(f, j).indirect]
    <2> DEFINE e == Din(f, j).indirect
    <2> SUFFICES ASSUME e # None PROVE g.entries[e] = f.entries[e]
      OBVIOUS
    <2>1. m[Indirect(j)] = e /\ m[Indirect(i)] = Din(f, i).indirect
      BY NumberAt
    <2>2. Indirect(j) \in Cells /\ Indirect(i) \in Cells /\ Indirect(i) # Indirect(j)
      BY CellsAre DEF Indirect
    <2> HIDE DEF m, e
    <2>3. e \in Data \ f.freemap /\ e # Din(f, i).indirect
      BY <1>1, <2>1, <2>2 DEF Own, Nums
    <2> QED
      BY <2>3 DEF e
  <1>3. \A j \in Files \ {i} : Din(g, j) = Din(f, j)
    BY FsConstants
  <1>4. ASSUME NEW y \in Cells, y[1] # i PROVE NumbersOf(g)[y] = m[y]
    <2> HIDE DEF m
    <2>1. CASE \E j \in Files, k \in 0..(SFS_NDIRECT - 1) : y = Direct(j, k)
      <3>1. PICK j \in Files, k \in 0..(SFS_NDIRECT - 1) : y = Direct(j, k)
        BY <2>1
      <3>2. j # i
        BY <1>4, <3>1 DEF Direct
      <3>3. NumbersOf(g)[Direct(j, k)] = Din(g, j).direct[k]
        BY <3>1, NumberAt
      <3>4. m[Direct(j, k)] = Din(f, j).direct[k]
        BY <3>1, NumberAt DEF m
      <3> QED
        BY <1>2, <1>3, <3>1, <3>2, <3>3, <3>4
    <2>2. CASE \E j \in Files : y = Indirect(j)
      <3>1. PICK j \in Files : y = Indirect(j)
        BY <2>2
      <3>2. j # i
        BY <1>4, <3>1 DEF Indirect
      <3>3. NumbersOf(g)[Indirect(j)] = Din(g, j).indirect
        BY <3>1, NumberAt
      <3>4. m[Indirect(j)] = Din(f, j).indirect
        BY <3>1, NumberAt DEF m
      <3> QED
        BY <1>2, <1>3, <3>1, <3>2, <3>3, <3>4
    <2>3. CASE \E j \in Files, k \in 0..(SFS_BLK_NENTRY - 1) : y = Entry(j, k)
      <3>1. PICK j \in Files, k \in 0..(SFS_BLK_NENTRY - 1) : y = Entry(j, k)
        BY <2>3
      <3>2. j # i
        BY <1>4, <3>1 DEF Entry
      <3>3. NumbersOf(g)[Entry(j, k)] = IF Din(g, j).indirect = None THEN None
                                       ELSE g.entries[Din(g, j).indirect][k]
        BY <3>1, NumberAt
      <3>4. m[Entry(j, k)] = IF Din(f, j).indirect = None THEN None
                                       ELSE f.entries[Din(f, j).indirect][k]
        BY <3>1, NumberAt DEF m
      <3> QED
        BY <1>2, <1>3, <3>1, <3>2, <3>3, <3>4
    <2> QED
      BY <2>1, <2>2, <2>3, CellsAre
  <1> QED
    BY <1>4

(* A block that has a place is not free. *)
LEMMA Placed ==
  ASSUME NEW f, Good(f), NEW x \in Cells, NumbersOf(f)[x] # None
  PROVE  NumbersOf(f)[x] \in Data \ f.freemap
  BY DEF Good, Own, Nums

LEMMA IndirectPlaced ==
  ASSUME NEW f, Good(f), NEW i \in Files, Din(f, i).indirect # None
  PROVE  Din(f, i).indirect \in Data \ f.freemap
  BY Placed, CellsAre, NumberAt

(* A cell of the file i itself. *)
LEMMA OwnCells ==
  ASSUME NEW i \in Files, NEW y \in Cells, y[1] = i
  PROVE  \/ \E k \in 0..(SFS_NDIRECT - 1) : y = Direct(i, k)
         \/ y = Indirect(i)
         \/ \E k \in 0..(SFS_BLK_NENTRY - 1) : y = Entry(i, k)
  BY CellsAre DEF Direct, Indirect, Entry

(* Only the number at x has changed, and it is of the file i.              *)
EntryIn(e, d, l) == IF d.indirect = None THEN None ELSE e[d.indirect][l]
EntryOf(f, i, l) == EntryIn(f.entries, Din(f, i), l)

OneNumber(f, g, i, x, b) ==
  /\ Good(f) /\ i \in Files
  /\ \A j \in Inos \ {i} : Din(g, j) = Din(f, j)
  /\ \A c \in Data \ f.freemap : c = Din(f, i).indirect \/ g.entries[c] = f.entries[c]
  /\ \A l \in 0..(SFS_NDIRECT - 1) :
       Din(g, i).direct[l] = IF Direct(i, l) = x THEN b ELSE Din(f, i).direct[l]
  /\ Din(g, i).indirect = IF Indirect(i) = x THEN b ELSE Din(f, i).indirect
  /\ \A l \in 0..(SFS_BLK_NENTRY - 1) :
       EntryOf(g, i, l) = IF Entry(i, l) = x THEN b ELSE EntryOf(f, i, l)
  /\ x[1] = i

LEMMA NumbersFrom ==
  ASSUME NEW f, NEW g, NEW i, NEW x, NEW b, OneNumber(f, g, i, x, b)
  PROVE  \A y \in Cells : NumbersOf(g)[y] = IF y = x THEN b ELSE NumbersOf(f)[y]
  <1>1. \A y \in Cells : y[1] # i => NumbersOf(g)[y] = NumbersOf(f)[y] /\ y # x
    BY OtherFiles DEF OneNumber
  <1>2. ASSUME NEW y \in Cells, y[1] = i
        PROVE  NumbersOf(g)[y] = IF y = x THEN b ELSE NumbersOf(f)[y]
    <2>0. i \in Files
      BY DEF OneNumber
    <2>1. CASE \E l \in 0..(SFS_NDIRECT - 1) : y = Direct(i, l)
      <3>1. PICK l \in 0..(SFS_NDIRECT - 1) : y = Direct(i, l)
        BY <2>1
      <3>2. NumbersOf(g)[y] = Din(g, i).direct[l]
        BY <2>0, <3>1, NumberAt
      <3>3. NumbersOf(f)[y] = Din(f, i).direct[l]
        BY <2>0, <3>1, NumberAt
      <3> QED
        BY <3>1, <3>2, <3>3 DEF OneNumber
    <2>2. CASE y = Indirect(i)
      <3>2. NumbersOf(g)[y] = Din(g, i).indirect
        BY <2>0, <2>2, NumberAt
      <3>3. NumbersOf(f)[y] = Din(f, i).indirect
        BY <2>0, <2>2, NumberAt
      <3> QED
        BY <2>2, <3>2, <3>3 DEF OneNumber
    <2>3. CASE \E l \in 0..(SFS_BLK_NENTRY - 1) : y = Entry(i, l)
      <3>1. PICK l \in 0..(SFS_BLK_NENTRY - 1) : y = Entry(i, l)
        BY <2>3
      <3>2. NumbersOf(g)[y] = EntryOf(g, i, l)
        BY <2>0, <3>1, NumberAt DEF EntryOf, EntryIn
      <3>3. NumbersOf(f)[y] = EntryOf(f, i, l)
        BY <2>0, <3>1, NumberAt DEF EntryOf, EntryIn
      <3> QED
        BY <3>1, <3>2, <3>3 DEF OneNumber
    <2> QED
      BY <1>2, <2>0, <2>1, <2>2, <2>3, OwnCells
  <1> QED
    BY <1>1, <1>2

(* The inode of the file i becomes n and the indirect blocks e, by which   *)
(* the number at x becomes b.                                              *)
NumberFits(f, i, n, e, x, b) ==
  /\ i \in Files /\ NodeFits(f, i, n)
  /\ e \in [Data -> [0..(SFS_BLK_NENTRY - 1) -> Nums]]
  /\ \A c \in Data \ f.freemap : c = Din(f, i).indirect \/ e[c] = f.entries[c]
  /\ \A l \in 0..(SFS_NDIRECT - 1) :
       n.din.direct[l] = IF Direct(i, l) = x THEN b ELSE Din(f, i).direct[l]
  /\ n.din.indirect = IF Indirect(i) = x THEN b ELSE Din(f, i).indirect
  /\ \A l \in 0..(SFS_BLK_NENTRY - 1) :
       EntryIn(e, n.din, l) = IF Entry(i, l) = x THEN b ELSE EntryOf(f, i, l)
  /\ x \in Cells /\ x[1] = i

NumberWritten(f, i, n, e, x, b, fr, u, g) ==
  /\ NumberFits(f, i, n, e, x, b)
  /\ fr \in SUBSET Data /\ u \in Int /\ g = Changed(f, i, n, e, fr, u)

LEMMA NumberWrite ==
  ASSUME NEW f, NEW i, NEW n, NEW e, NEW x, NEW b, NEW fr, NEW u, NEW g,
         NumberWritten(f, i, n, e, x, b, fr, u, g)
  PROVE  /\ g \in Mounts /\ Clean(g) /\ g.super_dirty /\ g.freemap = fr /\ g.unused = u
         /\ \A y \in Cells : NumbersOf(g)[y] = IF y = x THEN b ELSE NumbersOf(f)[y]
         /\ SameCounts(f, g) /\ g.cache[i] = n
  <1>0. NumberFits(f, i, n, e, x, b) /\ fr \in SUBSET Data /\ u \in Int
        /\ g = Changed(f, i, n, e, fr, u)
    BY DEF NumberWritten
  <1>1. ChangeFits(f, i, n, e, fr, u)
    BY <1>0 DEF NumberFits, ChangeFits
  <1>2. /\ g \in Mounts /\ Clean(g) /\ SameCounts(f, g) /\ g.super_dirty
        /\ g.entries = e /\ g.freemap = fr /\ g.unused = u /\ g.cache[i] = n
        /\ Din(g, i) = n.din /\ \A j \in Inos \ {i} : Din(g, j) = Din(f, j)
    BY <1>0, <1>1, ChangedIs
  <1>3. OneNumber(f, g, i, x, b)
    BY <1>0, <1>2 DEF OneNumber, NumberFits, NodeFits, EntryOf
  <1> QED
    BY <1>2, <1>3, NumbersFrom

Allocs(f, i, n, e, x, b, fr, u, g) ==
  /\ NumberFits(f, i, n, e, x, b) /\ NumbersOf(f)[x] = None /\ b \in f.freemap
  /\ fr = f.freemap \ {b} /\ u = f.unused - 1 /\ g = Changed(f, i, n, e, fr, u)

LEMMA AllocStep ==
  ASSUME NEW f, NEW i, NEW n, NEW e, NEW x, NEW b, NEW fr, NEW u, NEW g,
         Allocs(f, i, n, e, x, b, fr, u, g)
  PROVE  Good(g) /\ SameCounts(f, g) /\ g.cache[i] = n
  <1>1. Good(f) /\ x \in Cells
    BY DEF NumberFits, NodeFits, Allocs
  <1>2. NumberWritten(f, i, n, e, x, b, fr, u, g)
    BY <1>1 DEF Good, Mounts, NumberWritten, Allocs
  <1>3. /\ g \in Mounts /\ Clean(g) /\ g.super_dirty /\ g.freemap = fr /\ g.unused = u
        /\ \A y \in Cells : NumbersOf(g)[y] = IF y = x THEN b ELSE NumbersOf(f)[y]
        /\ SameCounts(f, g) /\ g.cache[i] = n
    BY <1>2, NumberWrite
  <1>4. Assigns(f, g, x, b)
    BY <1>1, <1>3 DEF Assigns, Allocs
  <1> QED
    BY <1>3, <1>4, Assigned

Frees(f, i, n, e, x, b, fr, u, g) ==
  /\ NumberFits(f, i, n, e, x, None) /\ b = NumbersOf(f)[x] /\ b # None
  /\ fr = f.freemap \cup {b} /\ u = f.unused + 1 /\ g = Changed(f, i, n, e, fr, u)

LEMMA FreeStep ==
  ASSUME NEW f, NEW i, NEW n, NEW e, NEW x, NEW b, NEW fr, NEW u, NEW g,
         Frees(f, i, n, e, x, b, fr, u, g)
  PROVE  Good(g) /\ SameCounts(f, g) /\ g.cache[i] = n
  <1>1. Good(f) /\ x \in Cells
    BY DEF NumberFits, NodeFits, Frees
  <1>0. PICK z : z = None
    OBVIOUS
  <1>2. NumberWritten(f, i, n, e, x, z, fr, u, g)
    <2>1. b \in Data
      BY <1>1, Placed DEF Frees
    <2> QED
      BY <1>0, <1>1, <2>1 DEF Good, Mounts, NumberWritten, Frees
  <1>3. /\ g \in Mounts /\ Clean(g) /\ g.super_dirty /\ g.freemap = fr /\ g.unused = u
        /\ \A y \in Cells : NumbersOf(g)[y] = IF y = x THEN z ELSE NumbersOf(f)[y]
        /\ SameCounts(f, g) /\ g.cache[i] = n
    BY <1>2, NumberWrite
  <1>4. Clears(f, g, x)
    BY ZenonT(60), <1>0, <1>1, <1>3 DEF Clears, Frees
  <1> QED
    BY <1>3, <1>4, Cleared

(* A block for a place in the inode.                                       *)
DirectAlloc(f, i, k) ==
  [sfs_block_alloc(f) EXCEPT !.cache[i].din.direct[k] = bitmap_alloc(f), !.cache[i].dirty = TRUE]

LEMMA DirectSet ==
  ASSUME NEW f, Good(f), NEW i \in Files, Cached(f, i), f.freemap # {},
         NEW k \in 0..(SFS_NDIRECT - 1), f.cache[i].din.direct[k] = None,
         NEW g, g = DirectAlloc(f, i, k)
  PROVE  /\ Good(g) /\ SameCounts(f, g)
         /\ g.cache[i].din.blocks = f.cache[i].din.blocks
  <1>1. PICK b \in f.freemap :
           /\ bitmap_alloc(f) = b /\ b \in Data
           /\ sfs_block_alloc(f) =
                [f EXCEPT !.freemap = f.freemap \ {b}, !.unused = f.unused - 1,
                          !.super_dirty = TRUE, !.entries[b] = ZeroBlock]
    BY AllocIs
  <1>2. f \in Mounts /\ f.cache[i] \in Nodes /\ Din(f, i) = f.cache[i].din /\ i \in Inos
        /\ f.cache[i].din \in Dins
    BY CachedNode, FsConstants DEF Good, Nodes
  <1>3. PICK d, n : d = [f.cache[i].din EXCEPT !.direct[k] = b] /\ n = DirtyDin(f.cache[i], d)
    OBVIOUS
  <1>4. PICK e : e = [f.entries EXCEPT ![b] = ZeroBlock]
    OBVIOUS
  <1>5. /\ d \in Dins /\ d.indirect = Din(f, i).indirect /\ d.direct[k] = b
        /\ d.blocks = f.cache[i].din.blocks
        /\ \A l \in 0..(SFS_NDIRECT - 1) : l # k => d.direct[l] = Din(f, i).direct[l]
    BY <1>1, <1>2, <1>3 DEF Dins, Nums
  <1>6. e \in [Data -> [0..(SFS_BLK_NENTRY - 1) -> Nums]]
        /\ \A c \in Data : c # b => e[c] = f.entries[c]
    BY <1>1, <1>2, <1>4 DEF Mounts, ZeroBlock, Nums
  <1>7. NodeFits(f, i, n) /\ n.din = d
    BY <1>2, <1>3, <1>5, DirtyDinIs DEF NodeFits
  <1>8. NumberFits(f, i, n, e, Direct(i, k), b)
    <2>1. d.indirect # None => d.indirect \in Data \ f.freemap
      BY <1>5, IndirectPlaced
    <2>2. \A l \in 0..(SFS_BLK_NENTRY - 1) : EntryIn(e, d, l) = EntryOf(f, i, l)
      BY <1>5, <1>6, <2>1 DEF EntryOf, EntryIn
    <2> QED
      BY <1>1, <1>5, <1>6, <1>7, <2>2, CellsAre DEF NumberFits, Direct, Indirect, Entry
  <1>9. NumbersOf(f)[Direct(i, k)] = None
    <2>1. NumbersOf(f)[Direct(i, k)] = Din(f, i).direct[k]
      BY <1>2, NumberAt
    <2> QED
      BY <1>2, <2>1
  <1>10. PICK fr, u : fr = f.freemap \ {b} /\ u = f.unused - 1
    OBVIOUS
  <1>11. g = Changed(f, i, n, e, fr, u)
    <2>1. PICK a : a = sfs_block_alloc(f)
      OBVIOUS
    <2>2. a = [f EXCEPT !.freemap = fr, !.unused = u, !.super_dirty = TRUE, !.entries = e]
      BY <1>1, <1>4, <1>10, <2>1
    <2>3. a.cache = f.cache /\ Fields(a)
      BY <1>2, <2>2 DEF Mounts, Fields
    <2>4. g = WithNode(a, i, n)
      <3>1. g = [a EXCEPT !.cache[i].din.direct[k] = b, !.cache[i].dirty = TRUE]
        BY <1>1, <2>1 DEF DirectAlloc
      <3> QED
        BY ONLY <1>3, <2>3, <3>1 DEF Fields, WithNode, DirtyDin
    <2> QED
      BY <1>2, <2>2, <2>3, <2>4 DEF Changed, Mounts, WithNode
  <1>12. Good(g) /\ SameCounts(f, g) /\ g.cache[i] = n
    <2>1. Allocs(f, i, n, e, Direct(i, k), b, fr, u, g)
      BY <1>1, <1>8, <1>9, <1>10, <1>11 DEF Allocs
    <2> QED
      BY <2>1, AllocStep
  <1> QED
    BY <1>5, <1>7, <1>12

(* A block for the numbers that the inode has no place for.                *)
IndirectAlloc(f, i) ==
  [sfs_block_alloc(f) EXCEPT !.cache[i].din.indirect = bitmap_alloc(f), !.cache[i].dirty = TRUE]

LEMMA IndirectSet ==
  ASSUME NEW f, Good(f), NEW i \in Files, Cached(f, i), f.freemap # {},
         f.cache[i].din.indirect = None,
         NEW g, g = IndirectAlloc(f, i)
  PROVE  /\ Good(g) /\ SameCounts(f, g)
         /\ g.cache[i].din.blocks = f.cache[i].din.blocks
         /\ g.cache[i].din.indirect = bitmap_alloc(f) /\ bitmap_alloc(f) \in f.freemap
         /\ g.entries[bitmap_alloc(f)] = ZeroBlock
         /\ g.freemap = f.freemap \ {bitmap_alloc(f)}
  <1>1. PICK b \in f.freemap :
           /\ bitmap_alloc(f) = b /\ b \in Data
           /\ sfs_block_alloc(f) =
                [f EXCEPT !.freemap = f.freemap \ {b}, !.unused = f.unused - 1,
                          !.super_dirty = TRUE, !.entries[b] = ZeroBlock]
    BY AllocIs
  <1>2. f \in Mounts /\ f.cache[i] \in Nodes /\ Din(f, i) = f.cache[i].din /\ i \in Inos
        /\ f.cache[i].din \in Dins
    BY CachedNode, FsConstants DEF Good, Nodes
  <1>3. PICK d, n : d = [f.cache[i].din EXCEPT !.indirect = b] /\ n = DirtyDin(f.cache[i], d)
    OBVIOUS
  <1>4. PICK e : e = [f.entries EXCEPT ![b] = ZeroBlock]
    OBVIOUS
  <1>5. /\ d \in Dins /\ d.indirect = b /\ d.direct = Din(f, i).direct
        /\ d.blocks = f.cache[i].din.blocks
    BY <1>1, <1>2, <1>3 DEF Dins, Nums
  <1>6. e \in [Data -> [0..(SFS_BLK_NENTRY - 1) -> Nums]]
        /\ \A c \in Data : c # b => e[c] = f.entries[c]
    BY <1>1, <1>2, <1>4 DEF Mounts, ZeroBlock, Nums
  <1>7. NodeFits(f, i, n) /\ n.din = d
    BY <1>2, <1>3, <1>5, DirtyDinIs DEF NodeFits
  <1>8. NumberFits(f, i, n, e, Indirect(i), b)
    <2>1. \A l \in 0..(SFS_BLK_NENTRY - 1) : e[b][l] = None
      BY <1>1, <1>2, <1>4 DEF Mounts, ZeroBlock
    <2>2. \A l \in 0..(SFS_BLK_NENTRY - 1) : EntryIn(e, d, l) = EntryOf(f, i, l)
      BY <1>2, <1>5, <2>1 DEF EntryOf, EntryIn
    <2> QED
      BY <1>1, <1>5, <1>6, <1>7, <2>2, CellsAre DEF NumberFits, Direct, Indirect, Entry
  <1>9. NumbersOf(f)[Indirect(i)] = None
    BY <1>2, NumberAt
  <1>10. PICK fr, u : fr = f.freemap \ {b} /\ u = f.unused - 1
    OBVIOUS
  <1>11. g = Changed(f, i, n, e, fr, u)
    <2>1. PICK a : a = sfs_block_alloc(f)
      OBVIOUS
    <2>2. a = [f EXCEPT !.freemap = fr, !.unused = u, !.super_dirty = TRUE, !.entries = e]
      BY <1>1, <1>4, <1>10, <2>1
    <2>3. a.cache = f.cache /\ Fields(a)
      BY <1>2, <2>2 DEF Mounts, Fields
    <2>4. g = WithNode(a, i, n)
      <3>1. g = [a EXCEPT !.cache[i].din.indirect = b, !.cache[i].dirty = TRUE]
        BY <1>1, <2>1 DEF IndirectAlloc
      <3> QED
        BY ONLY <1>3, <2>3, <3>1 DEF Fields, WithNode, DirtyDin
    <2> QED
      BY <1>2, <2>2, <2>3, <2>4 DEF Changed, Mounts, WithNode
  <1>12. Good(g) /\ SameCounts(f, g) /\ g.cache[i] = n
    <2>1. Allocs(f, i, n, e, Indirect(i), b, fr, u, g)
      BY <1>1, <1>8, <1>9, <1>10, <1>11 DEF Allocs
    <2> QED
      BY <2>1, AllocStep
  <1>13. g.entries = e /\ g.freemap = fr
    BY <1>2, <1>11 DEF Changed, Mounts
  <1>14. e[b] = ZeroBlock
    BY <1>1, <1>2, <1>4 DEF Mounts
  <1> QED
    BY <1>1, <1>5, <1>7, <1>10, <1>12, <1>13, <1>14

(* A block for a place in the indirect block.                              *)
EntryAlloc(f, i, k) ==
  [sfs_block_alloc(f) EXCEPT !.entries[f.cache[i].din.indirect][k] = bitmap_alloc(f)]

LEMMA EntrySet ==
  ASSUME NEW f, Good(f), NEW i \in Files, Cached(f, i), f.freemap # {},
         NEW k \in 0..(SFS_BLK_NENTRY - 1), NEW ent, ent = f.cache[i].din.indirect,
         ent # None, f.entries[ent][k] = None,
         NEW g, g = EntryAlloc(f, i, k)
  PROVE  /\ Good(g) /\ SameCounts(f, g)
         /\ g.cache[i].din.blocks = f.cache[i].din.blocks
  <1>1. PICK b \in f.freemap :
           /\ bitmap_alloc(f) = b /\ b \in Data
           /\ sfs_block_alloc(f) =
                [f EXCEPT !.freemap = f.freemap \ {b}, !.unused = f.unused - 1,
                          !.super_dirty = TRUE, !.entries[b] = ZeroBlock]
    BY AllocIs
  <1>2. f \in Mounts /\ f.cache[i] \in Nodes /\ Din(f, i) = f.cache[i].din /\ i \in Inos
        /\ f.cache[i].din \in Dins
    BY CachedNode, FsConstants DEF Good, Nodes
  <1>3. PICK n : n = f.cache[i]
    OBVIOUS
  <1>4. PICK z, e : z = [f.entries EXCEPT ![b] = ZeroBlock] /\ e = [z EXCEPT ![ent][k] = b]
    OBVIOUS
  <1>5. ent \in Data \ f.freemap /\ ent = Din(f, i).indirect
    BY <1>2, IndirectPlaced
  <1>6. /\ e \in [Data -> [0..(SFS_BLK_NENTRY - 1) -> Nums]]
        /\ \A c \in Data \ f.freemap : c # ent => e[c] = f.entries[c]
        /\ \A l \in 0..(SFS_BLK_NENTRY - 1) : e[ent][l] = IF l = k THEN b ELSE f.entries[ent][l]
    <2>1. f.entries \in [Data -> [0..(SFS_BLK_NENTRY - 1) -> Nums]] /\ b \in Nums
          /\ ZeroBlock \in [0..(SFS_BLK_NENTRY - 1) -> Nums]
      BY <1>1, <1>2 DEF Mounts, ZeroBlock, Nums
    <2>2. z \in [Data -> [0..(SFS_BLK_NENTRY - 1) -> Nums]]
          /\ \A c \in Data : c # b => z[c] = f.entries[c]
      BY <1>4, <2>1
    <2>3. ent # b /\ ent \in Data
      BY <1>1, <1>5
    <2>4. z[ent] \in [0..(SFS_BLK_NENTRY - 1) -> Nums] /\ z[ent] = f.entries[ent]
      BY <2>2, <2>3
    <2>5. e = [z EXCEPT ![ent] = [z[ent] EXCEPT ![k] = b]]
      BY SMTT(60), <1>4
    <2> HIDE <1>4
    <2>6. [z[ent] EXCEPT ![k] = b] \in [0..(SFS_BLK_NENTRY - 1) -> Nums]
          /\ \A l \in 0..(SFS_BLK_NENTRY - 1) :
                [z[ent] EXCEPT ![k] = b][l] = IF l = k THEN b ELSE f.entries[ent][l]
      BY <2>1, <2>4
    <2> QED
      BY <1>1, <2>2, <2>3, <2>5, <2>6
  <1>7. NodeFits(f, i, n)
    BY <1>2, <1>3 DEF NodeFits, SameBlocks
  <1>8. NumberFits(f, i, n, e, Entry(i, k), b)
    <2>1. \A l \in 0..(SFS_BLK_NENTRY - 1) :
             EntryIn(e, n.din, l) = IF Entry(i, l) = Entry(i, k) THEN b ELSE EntryOf(f, i, l)
      BY <1>2, <1>3, <1>5, <1>6 DEF EntryOf, EntryIn, Entry
    <2> QED
      BY <1>2, <1>3, <1>5, <1>6, <1>7, <2>1, CellsAre DEF NumberFits, Direct, Indirect, Entry
  <1>9. NumbersOf(f)[Entry(i, k)] = None
    BY <1>5, NumberAt
  <1>10. PICK fr, u : fr = f.freemap \ {b} /\ u = f.unused - 1
    OBVIOUS
  <1>11. g = Changed(f, i, n, e, fr, u)
    <2>1. PICK a : a = sfs_block_alloc(f)
      OBVIOUS
    <2>2. a = [f EXCEPT !.freemap = fr, !.unused = u, !.super_dirty = TRUE, !.entries = z]
      BY <1>1, <1>4, <1>10, <2>1
    <2>3. a.entries = z /\ Fields(a)
      BY <1>2, <2>2 DEF Mounts, Fields
    <2>4. g = [a EXCEPT !.entries = e]
      <3>1. g = [a EXCEPT !.entries[ent][k] = b]
        BY <1>1, <2>1 DEF EntryAlloc
      <3> QED
        BY ONLY <1>4, <2>3, <3>1 DEF Fields
    <2>5. [f.cache EXCEPT ![i] = n] = f.cache
      BY <1>2, <1>3 DEF Mounts
    <2>6. g = [f EXCEPT !.cache = f.cache, !.entries = e, !.freemap = fr, !.unused = u,
                        !.super_dirty = TRUE]
      BY <1>2, <2>2, <2>3, <2>4 DEF Mounts
    <2> QED
      BY <2>5, <2>6 DEF Changed
  <1>12. Good(g) /\ SameCounts(f, g) /\ g.cache[i] = n
    <2>1. Allocs(f, i, n, e, Entry(i, k), b, fr, u, g)
      BY <1>1, <1>8, <1>9, <1>10, <1>11 DEF Allocs
    <2> QED
      BY <2>1, AllocStep
  <1> QED
    BY <1>3, <1>12

(* A block leaves its place in the inode.                                  *)
DirectFree(f, i, k) ==
  [sfs_block_free(f, f.cache[i].din.direct[k]) EXCEPT !.cache[i].din.direct[k] = None,
                                                      !.cache[i].dirty = TRUE]

LEMMA DirectClear ==
  ASSUME NEW f, Good(f), NEW i \in Files, Cached(f, i),
         NEW k \in 0..(SFS_NDIRECT - 1), NEW b, b = f.cache[i].din.direct[k], b # None,
         NEW g, g = DirectFree(f, i, k)
  PROVE  /\ Good(g) /\ SameCounts(f, g)
         /\ g.cache[i].din.blocks = f.cache[i].din.blocks
  <1>2. f \in Mounts /\ f.cache[i] \in Nodes /\ Din(f, i) = f.cache[i].din /\ i \in Inos
        /\ f.cache[i].din \in Dins
    BY CachedNode, FsConstants DEF Good, Nodes
  <1>3. PICK d, n : d = [f.cache[i].din EXCEPT !.direct[k] = None] /\ n = DirtyDin(f.cache[i], d)
    OBVIOUS
  <1>4. PICK e : e = f.entries
    OBVIOUS
  <1>5. /\ d \in Dins /\ d.indirect = Din(f, i).indirect /\ d.direct[k] = None
        /\ d.blocks = f.cache[i].din.blocks
        /\ \A l \in 0..(SFS_NDIRECT - 1) : l # k => d.direct[l] = Din(f, i).direct[l]
    BY <1>2, <1>3 DEF Dins, Nums
  <1>6. e \in [Data -> [0..(SFS_BLK_NENTRY - 1) -> Nums]]
    BY <1>2, <1>4 DEF Mounts
  <1>7. NodeFits(f, i, n) /\ n.din = d
    BY <1>2, <1>3, <1>5, DirtyDinIs DEF NodeFits
  <1>8. NumberFits(f, i, n, e, Direct(i, k), None)
    <2>1. \A l \in 0..(SFS_BLK_NENTRY - 1) : EntryIn(e, d, l) = EntryOf(f, i, l)
      BY <1>4, <1>5 DEF EntryOf, EntryIn
    <2> QED
      BY <1>4, <1>5, <1>6, <1>7, <2>1, CellsAre DEF NumberFits, Direct, Indirect, Entry
  <1>9. NumbersOf(f)[Direct(i, k)] = b
    <2>1. NumbersOf(f)[Direct(i, k)] = Din(f, i).direct[k]
      BY <1>2, NumberAt
    <2> QED
      BY <1>2, <2>1
  <1>10. PICK fr, u : fr = f.freemap \cup {b} /\ u = f.unused + 1
    OBVIOUS
  <1>11. g = Changed(f, i, n, e, fr, u)
    <2>1. PICK a : a = sfs_block_free(f, b)
      OBVIOUS
    <2>2. a = [f EXCEPT !.freemap = fr, !.unused = u, !.super_dirty = TRUE]
      BY <1>2, <1>10, <2>1 DEF sfs_block_free, Mounts
    <2>3. a.cache = f.cache /\ Fields(a)
      BY <1>2, <2>2 DEF Mounts, Fields
    <2>4. g = WithNode(a, i, n)
      <3>1. g = [a EXCEPT !.cache[i].din.direct[k] = None, !.cache[i].dirty = TRUE]
        BY <2>1 DEF DirectFree
      <3> QED
        BY ONLY <1>3, <2>3, <3>1 DEF Fields, WithNode, DirtyDin
    <2> QED
      BY <1>2, <1>4, <2>2, <2>3, <2>4 DEF Changed, Mounts, WithNode
  <1>12. Good(g) /\ SameCounts(f, g) /\ g.cache[i] = n
    <2>1. Frees(f, i, n, e, Direct(i, k), b, fr, u, g)
      BY <1>8, <1>9, <1>10, <1>11 DEF Frees
    <2> QED
      BY <2>1, FreeStep
  <1> QED
    BY <1>5, <1>7, <1>12

(* A block leaves its place in the indirect block.                         *)
EntryFree(f, i, k) ==
  [sfs_block_free(f, f.entries[f.cache[i].din.indirect][k])
     EXCEPT !.entries[f.cache[i].din.indirect][k] = None]

LEMMA EntryClear ==
  ASSUME NEW f, Good(f), NEW i \in Files, Cached(f, i),
         NEW k \in 0..(SFS_BLK_NENTRY - 1), NEW ent, ent = f.cache[i].din.indirect, ent # None,
         NEW b, b = f.entries[ent][k], b # None,
         NEW g, g = EntryFree(f, i, k)
  PROVE  /\ Good(g) /\ SameCounts(f, g)
         /\ g.cache[i].din.blocks = f.cache[i].din.blocks
  <1>2. f \in Mounts /\ f.cache[i] \in Nodes /\ Din(f, i) = f.cache[i].din /\ i \in Inos
        /\ f.cache[i].din \in Dins
    BY CachedNode, FsConstants DEF Good, Nodes
  <1>3. PICK n : n = f.cache[i]
    OBVIOUS
  <1>4. PICK e : e = [f.entries EXCEPT ![ent][k] = None]
    OBVIOUS
  <1>5. ent \in Data \ f.freemap /\ ent = Din(f, i).indirect
    BY <1>2, IndirectPlaced
  <1>6. /\ e \in [Data -> [0..(SFS_BLK_NENTRY - 1) -> Nums]]
        /\ \A c \in Data \ f.freemap : c # ent => e[c] = f.entries[c]
        /\ \A l \in 0..(SFS_BLK_NENTRY - 1) :
              e[ent][l] = IF l = k THEN None ELSE f.entries[ent][l]
    <2>1. f.entries \in [Data -> [0..(SFS_BLK_NENTRY - 1) -> Nums]]
      BY <1>2 DEF Mounts
    <2>4. f.entries[ent] \in [0..(SFS_BLK_NENTRY - 1) -> Nums]
      BY <1>5, <2>1
    <2>5. e = [f.entries EXCEPT ![ent] = [f.entries[ent] EXCEPT ![k] = None]]
      BY <1>4
    <2> HIDE <1>4
    <2>6. [f.entries[ent] EXCEPT ![k] = None] \in [0..(SFS_BLK_NENTRY - 1) -> Nums]
          /\ \A l \in 0..(SFS_BLK_NENTRY - 1) :
                [f.entries[ent] EXCEPT ![k] = None][l] = IF l = k THEN None ELSE f.entries[ent][l]
      BY <2>4 DEF Nums
    <2> QED
      BY <1>5, <2>1, <2>5, <2>6
  <1>7. NodeFits(f, i, n)
    BY <1>2, <1>3 DEF NodeFits, SameBlocks
  <1>8. NumberFits(f, i, n, e, Entry(i, k), None)
    <2>1. \A l \in 0..(SFS_BLK_NENTRY - 1) :
             EntryIn(e, n.din, l) = IF Entry(i, l) = Entry(i, k) THEN None ELSE EntryOf(f, i, l)
      BY <1>2, <1>3, <1>5, <1>6 DEF EntryOf, EntryIn, Entry
    <2> QED
      BY <1>2, <1>3, <1>5, <1>6, <1>7, <2>1, CellsAre DEF NumberFits, Direct, Indirect, Entry
  <1>9. NumbersOf(f)[Entry(i, k)] = b
    BY <1>5, NumberAt
  <1>10. PICK fr, u : fr = f.freemap \cup {b} /\ u = f.unused + 1
    OBVIOUS
  <1>11. g = Changed(f, i, n, e, fr, u)
    <2>1. PICK a : a = sfs_block_free(f, b)
      OBVIOUS
    <2>2. a = [f EXCEPT !.freemap = fr, !.unused = u, !.super_dirty = TRUE]
      BY <1>2, <1>10, <2>1 DEF sfs_block_free, Mounts
    <2>3. a.entries = f.entries /\ Fields(a)
      BY <1>2, <2>2 DEF Mounts, Fields
    <2>4. g = [a EXCEPT !.entries = e]
      <3>1. g = [a EXCEPT !.entries[ent][k] = None]
        BY <2>1 DEF EntryFree
      <3> QED
        BY ONLY <1>4, <2>3, <3>1 DEF Fields
    <2>5. [f.cache EXCEPT ![i] = n] = f.cache
      BY <1>2, <1>3 DEF Mounts
    <2>6. g = [f EXCEPT !.cache = f.cache, !.entries = e, !.freemap = fr, !.unused = u,
                        !.super_dirty = TRUE]
      BY <1>2, <2>2, <2>3, <2>4 DEF Mounts
    <2> QED
      BY <2>5, <2>6 DEF Changed
  <1>12. Good(g) /\ SameCounts(f, g) /\ g.cache[i] = n
    <2>1. Frees(f, i, n, e, Entry(i, k), b, fr, u, g)
      BY <1>8, <1>9, <1>10, <1>11 DEF Frees
    <2> QED
      BY <2>1, FreeStep
  <1> QED
    BY <1>3, <1>12

-----------------------------------------------------------------------------
(* An inode changes, and no number of a block.                             *)
LEMMA NodeSet ==
  ASSUME NEW f, NEW i, NEW n, NodeFits(f, i, n), SameBlocks(n.din, f.cache[i].din),
         NEW g, g = WithNode(f, i, n)
  PROVE  Good(g) /\ SameCounts(f, g) /\ g.cache[i] = n
  <1>1. Good(f) /\ f \in Mounts /\ i \in Inos /\ Cached(f, i) /\ Din(f, i) = f.cache[i].din
    BY CachedNode DEF NodeFits, Good
  <1>2. /\ g.cache = [f.cache EXCEPT ![i] = n] /\ g.disk = f.disk /\ g.entries = f.entries
        /\ g.freemap = f.freemap /\ g.unused = f.unused /\ g.super_dirty = f.super_dirty
        /\ g.saved = f.saved /\ g.panic = f.panic
    BY <1>1 DEF WithNode, Mounts
  <1>3. Fields(g)
    BY <1>1 DEF WithNode, Mounts, Fields
  <1>4. /\ g.cache \in [Inos -> Nodes \cup {NoNode}] /\ g.cache[i] = n
        /\ Clean(g) /\ SameCounts(f, g)
        /\ Din(g, i) = n.din /\ \A j \in Inos \ {i} : Din(g, j) = Din(f, j)
    <2>1. NodeWritten(f, i, n, g)
      BY <1>2 DEF NodeWritten
    <2> QED
      BY <2>1, NodeChange
  <1>5. g \in Mounts
    <2>1. f.disk \in [Inos -> Dins] /\ f.saved \in [freemap : SUBSET Data, unused : Int]
          /\ f.panic \in Said /\ f.entries \in [Data -> [0..(SFS_BLK_NENTRY - 1) -> Nums]]
          /\ f.freemap \in SUBSET Data /\ f.unused \in Int /\ f.super_dirty \in BOOLEAN
      BY <1>1 DEF Mounts
    <2> QED
      BY <1>2, <1>3, <1>4, <2>1, MountIs
  <1>6. NumbersOf(g) = NumbersOf(f)
    <2>1. \A j \in Files : SameBlocks(Din(g, j), Din(f, j))
      BY <1>1, <1>4, FsConstants DEF SameBlocks
    <2>2. \A j \in Files, place \in PlaceSet :
             Number(g.entries, Din(g, j), place) = Number(f.entries, Din(f, j), place)
      BY <1>2, <2>1 DEF Number, SameBlocks
    <2> QED
      BY <2>2, FsConstants DEF NumbersOf, Numbers, DinsOf, Cells
  <1> QED
    BY <1>1, <1>2, <1>4, <1>5, <1>6 DEF Good

(* A block is taken off the free map and put back.                         *)
Tried(f) == sfs_block_free(sfs_block_alloc(f), bitmap_alloc(f))

LEMMA TriedSame ==
  ASSUME NEW f, Good(f), NEW i \in Files, Cached(f, i), f.freemap # {}, NEW g, g = Tried(f)
  PROVE  Good(g) /\ SameCounts(f, g) /\ g.cache = f.cache
  <1>1. PICK b \in f.freemap :
           /\ bitmap_alloc(f) = b /\ b \in Data
           /\ sfs_block_alloc(f) =
                [f EXCEPT !.freemap = f.freemap \ {b}, !.unused = f.unused - 1,
                          !.super_dirty = TRUE, !.entries[b] = ZeroBlock]
    BY AllocIs
  <1>2. f \in Mounts /\ f.cache[i] \in Nodes /\ Din(f, i) = f.cache[i].din /\ i \in Inos
    BY CachedNode, FsConstants DEF Good
  <1>3. PICK n, e : n = f.cache[i] /\ e = [f.entries EXCEPT ![b] = ZeroBlock]
    OBVIOUS
  <1>4. e \in [Data -> [0..(SFS_BLK_NENTRY - 1) -> Nums]]
        /\ \A c \in Data : c # b => e[c] = f.entries[c]
    BY <1>1, <1>2, <1>3 DEF Mounts, ZeroBlock, Nums
  <1>5. NodeFits(f, i, n)
    BY <1>2, <1>3 DEF NodeFits, SameBlocks
  <1>6. PICK c : c = Din(f, i).indirect
    OBVIOUS
  <1>7. NumberFits(f, i, n, e, Indirect(i), c)
    <2>1. c # None => c \in Data \ f.freemap
      BY <1>6, IndirectPlaced
    <2>2. \A l \in 0..(SFS_BLK_NENTRY - 1) : EntryIn(e, n.din, l) = EntryOf(f, i, l)
      BY <1>1, <1>2, <1>3, <1>4, <1>6, <2>1 DEF EntryOf, EntryIn
    <2>3. \A a \in Data \ f.freemap : e[a] = f.entries[a]
      BY <1>1, <1>4
    <2> QED
      BY <1>2, <1>3, <1>4, <1>5, <1>6, <2>2, <2>3, CellsAre
         DEF NumberFits, Direct, Indirect, Entry
  <1>8. PICK fr, u : fr = f.freemap /\ u = f.unused
    OBVIOUS
  <1>9. [f.cache EXCEPT ![i] = n] = f.cache
    BY <1>2, <1>3 DEF Mounts
  <1>10. g = Changed(f, i, n, e, fr, u) /\ g.cache = f.cache
    <2>1. PICK a : a = sfs_block_alloc(f)
      OBVIOUS
    <2>2. a = [f EXCEPT !.freemap = f.freemap \ {b}, !.unused = f.unused - 1,
                        !.super_dirty = TRUE, !.entries = e]
      BY <1>1, <1>3, <2>1
    <2>3. g = [a EXCEPT !.freemap = @ \cup {b}, !.unused = @ + 1, !.super_dirty = TRUE]
      BY <1>1, <2>1 DEF Tried, sfs_block_free
    <2>4. (f.freemap \ {b}) \cup {b} = fr /\ (f.unused - 1) + 1 = u
      BY <1>1, <1>2, <1>8 DEF Mounts
    <2>5. g = [f EXCEPT !.cache = f.cache, !.entries = e, !.freemap = fr, !.unused = u,
                        !.super_dirty = TRUE]
      BY ZenonT(60), <1>2, <2>2, <2>3, <2>4 DEF Mounts
    <2> QED
      BY <1>2, <1>9, <2>5 DEF Changed, Mounts
  <1>11. NumberWritten(f, i, n, e, Indirect(i), c, fr, u, g)
    BY <1>2, <1>7, <1>8, <1>10 DEF NumberWritten, Mounts
  <1>12. /\ g \in Mounts /\ Clean(g) /\ g.super_dirty /\ g.freemap = fr /\ g.unused = u
         /\ \A y \in Cells : NumbersOf(g)[y] = IF y = Indirect(i) THEN c ELSE NumbersOf(f)[y]
         /\ SameCounts(f, g)
    BY <1>11, NumberWrite
  <1>13. NumbersOf(g) = NumbersOf(f)
    <2>1. NumbersOf(f)[Indirect(i)] = c
      BY <1>6, NumberAt
    <2>2. \A y \in Cells : NumbersOf(g)[y] = NumbersOf(f)[y]
      BY <1>12, <2>1
    <2> QED
      BY <2>2 DEF NumbersOf, Numbers
  <1> QED
    BY <1>8, <1>10, <1>12, <1>13 DEF Good
-----------------------------------------------------------------------------
(* What a call about the blocks of the file i may do: fail an assertion,   *)
(* or keep every block at one place and all counts.                        *)
SameSize(f, g, i) == Cached(g, i) /\ g.cache[i].din.blocks = f.cache[i].din.blocks
GoodStep(f, g, i) == Good(g) /\ SameCounts(f, g) /\ Quiet(g) /\ SameSize(f, g, i)

LEMMA KeptStep ==
  ASSUME NEW f, Quiet(f), NEW i \in Inos, Cached(f, i), NEW g, SameCounts(f, g)
  PROVE  Quiet(g) /\ Cached(g, i)
  BY Zenon DEF SameCounts, Quiet

LEMMA EntryStep ==
  ASSUME NEW f, NEW h, NEW i \in Files, NEW k \in 0..(SFS_BLK_NENTRY - 1), NEW c, NEW g,
         GoodStep(f, h, i), h.freemap # {}, c = h.cache[i].din.indirect,
         c # None, h.entries[c][k] = None, g = EntryAlloc(h, i, k)
  PROVE  GoodStep(f, g, i)
  <1>1. i \in Inos
    BY FsConstants
  <1>2. Good(h) /\ Cached(h, i) /\ SameCounts(f, h) /\ Quiet(h)
        /\ h.cache[i].din.blocks = f.cache[i].din.blocks
    BY DEF GoodStep, SameSize
  <1>3. Good(g) /\ SameCounts(h, g) /\ g.cache[i].din.blocks = h.cache[i].din.blocks
    BY <1>2, EntrySet
  <1>4. Quiet(g) /\ Cached(g, i)
    BY <1>1, <1>2, <1>3, KeptStep
  <1> QED
    BY <1>1, <1>2, <1>3, <1>4 DEF GoodStep, SameCounts, SameSize

(* The entry may be written before the number of its block is.             *)
Twice(f, a, y, h, g, b, i, k) ==
  /\ f \in Mounts /\ b = bitmap_alloc(f) /\ a = sfs_block_alloc(f)
  /\ y = [sfs_block_alloc(a) EXCEPT !.entries[b][k] = bitmap_alloc(a)]
  /\ h = [a EXCEPT !.cache[i].din.indirect = b, !.cache[i].dirty = TRUE]
  /\ g = [sfs_block_alloc(h) EXCEPT !.entries[b][k] = bitmap_alloc(h)]

LEMMA AllocsCommute ==
  ASSUME NEW f, NEW a, NEW y, NEW h, NEW g, NEW b, NEW i, NEW k, Twice(f, a, y, h, g, b, i, k)
  PROVE  g = [y EXCEPT !.cache[i].din.indirect = b, !.cache[i].dirty = TRUE]
  <1>1. /\ f \in Mounts /\ b = bitmap_alloc(f) /\ a = sfs_block_alloc(f)
        /\ y = [sfs_block_alloc(a) EXCEPT !.entries[b][k] = bitmap_alloc(a)]
        /\ h = [a EXCEPT !.cache[i].din.indirect = b, !.cache[i].dirty = TRUE]
        /\ g = [sfs_block_alloc(h) EXCEPT !.entries[b][k] = bitmap_alloc(h)]
    BY DEF Twice
  <1>2. PICK n : n = DirtyDin(a.cache[i], [a.cache[i].din EXCEPT !.indirect = b])
    BY Zenon
  <1>3. Fields(f) /\ Fields(a)
    BY <1>1 DEF Mounts, Fields, sfs_block_alloc
  <1>15. h = [a EXCEPT !.cache[i].din.indirect = b, !.cache[i].dirty = TRUE]
    BY <1>1
  <1>4. h = WithNode(a, i, n)
    BY ONLY <1>2, <1>3, <1>15 DEF Fields, WithNode, DirtyDin
  <1>5. PICK nc, c : nc = [a.cache EXCEPT ![i] = n] /\ c = bitmap_alloc(a)
    OBVIOUS
  <1>6. h = [a EXCEPT !.cache = nc] /\ Fields(h) /\ h.freemap = a.freemap
    BY ONLY <1>3, <1>4, <1>5 DEF WithNode, Fields
  <1>7. bitmap_alloc(h) = c
    BY <1>5, <1>6 DEF bitmap_alloc
  <1>8. PICK e, ze : ze = [a.entries EXCEPT ![c] = ZeroBlock] /\ e = [ze EXCEPT ![b][k] = c]
    OBVIOUS
  <1>9. y = [a EXCEPT !.freemap = a.freemap \ {c}, !.unused = a.unused - 1,
                      !.super_dirty = TRUE, !.entries = e]
    <2>1. PICK z : z = sfs_block_alloc(a)
      OBVIOUS
    <2>2. z = [a EXCEPT !.freemap = a.freemap \ {c}, !.unused = a.unused - 1,
                        !.super_dirty = TRUE, !.entries = ze]
      BY SMTT(60), <1>8, <1>3, <1>5, <2>1 DEF sfs_block_alloc, Fields
    <2>3. y = [z EXCEPT !.entries[b][k] = c]
      BY <1>1, <1>5, <1>7, <2>1
    <2>4. Fields(z) /\ z.entries = ze
      BY <1>3, <1>5, <2>2 DEF Fields
    <2>5. e = [ze EXCEPT ![b][k] = c]
      BY <1>8
    <2>6. y = [z EXCEPT !.entries = e]
      BY ONLY <2>3, <2>4, <2>5 DEF Fields
    <2> QED
      BY ONLY <1>3, <2>2, <2>6 DEF Fields
  <1>10. g = [h EXCEPT !.freemap = a.freemap \ {c}, !.unused = a.unused - 1,
                       !.super_dirty = TRUE, !.entries = e]
    <2>1. PICK z : z = sfs_block_alloc(h)
      OBVIOUS
    <2>2. z = [h EXCEPT !.freemap = a.freemap \ {c}, !.unused = a.unused - 1,
                        !.super_dirty = TRUE, !.entries = ze]
      BY <1>8, <1>3, <1>6, <1>7, <2>1 DEF sfs_block_alloc, Fields
    <2>3. g = [z EXCEPT !.entries[b][k] = c]
      BY <1>1, <1>5, <1>7, <2>1
    <2>4. Fields(z) /\ z.entries = ze
      BY <1>3, <1>6, <1>7, <2>2 DEF Fields
    <2>5. e = [ze EXCEPT ![b][k] = c]
      BY <1>8
    <2>6. g = [z EXCEPT !.entries = e]
      BY ONLY <2>3, <2>4, <2>5 DEF Fields
    <2> QED
      BY ONLY <1>3, <1>6, <2>2, <2>6 DEF Fields
  <1>11. y.cache = a.cache /\ Fields(y)
    BY ONLY <1>3, <1>9 DEF Fields
  <1>12. [y EXCEPT !.cache[i].din.indirect = b, !.cache[i].dirty = TRUE] = WithNode(y, i, n)
    BY ONLY <1>2, <1>11 DEF Fields, WithNode, DirtyDin
  <1>13. WithNode(y, i, n) = [y EXCEPT !.cache = nc]
    BY <1>5, <1>11 DEF WithNode
  <1>14. [y EXCEPT !.cache = nc] = g
    BY ONLY <1>3, <1>6, <1>9, <1>10 DEF Fields
  <1> QED
    BY <1>12, <1>13, <1>14

LEMMA GetSub ==
  ASSUME NEW f, Good(f), Quiet(f), NEW i \in Files, Cached(f, i),
         NEW k \in 0..(SFS_BLK_NENTRY - 1),
         NEW r, r = sfs_bmap_get_sub_nolock(f, i, k)
  PROVE  GoodStep(f, r.fs, i) /\ r.ok \in BOOLEAN
  <1>0. PICK ent : ent = f.cache[i].din.indirect
    OBVIOUS
  <1>1. f \in Mounts /\ f.freemap \in SUBSET Data /\ i \in Inos
    BY FsConstants DEF Good, Mounts
  <1>2. IsFiniteSet(f.freemap) /\ Cardinality(f.freemap) \in Nat
    BY <1>1, FiniteData
  <1>3. Cardinality(f.freemap) # 0 => f.freemap # {}
    BY FS_EmptySet
  <1>4. GoodStep(f, f, i)
    BY DEF GoodStep, SameSize, SameCounts
  <1>6. CASE ent # None /\ f.entries[ent][k] # None
    <2>1. r = Done(f)
      BY <1>0, <1>6 DEF sfs_bmap_get_sub_nolock
    <2> QED
      BY <1>4, <2>1 DEF Done
  <1>7. CASE ent # None /\ f.entries[ent][k] = None /\ f.freemap # {}
    <2>1. r = Done(EntryAlloc(f, i, k))
      BY <1>0, <1>7 DEF sfs_bmap_get_sub_nolock, EntryAlloc
    <2>2. PICK g : g = EntryAlloc(f, i, k)
      OBVIOUS
    <2>3. GoodStep(f, g, i)
      BY <1>0, <1>4, <1>7, <2>2, EntryStep
    <2> QED
      BY <2>1, <2>2, <2>3 DEF Done
  <1>8. CASE ent = None /\ Cardinality(f.freemap) > 1
    <2>1. PICK b, h : b = bitmap_alloc(f) /\ h = IndirectAlloc(f, i)
      OBVIOUS
    <2>2. f.freemap # {}
      BY <1>2, <1>3, <1>8
    <2>3. /\ Good(h) /\ SameCounts(f, h) /\ h.cache[i].din.blocks = f.cache[i].din.blocks
          /\ h.cache[i].din.indirect = b /\ b \in f.freemap /\ h.entries[b] = ZeroBlock
          /\ h.freemap = f.freemap \ {b}
      <3>1. f.cache[i].din.indirect = None
        BY <1>0, <1>8
      <3>2. /\ Good(h) /\ SameCounts(f, h) /\ h.cache[i].din.blocks = f.cache[i].din.blocks
            /\ h.cache[i].din.indirect = bitmap_alloc(f) /\ bitmap_alloc(f) \in f.freemap
            /\ h.entries[bitmap_alloc(f)] = ZeroBlock
            /\ h.freemap = f.freemap \ {bitmap_alloc(f)}
        BY <2>1, <2>2, <3>1, IndirectSet
      <3> QED
        BY <2>1, <3>2
    <2>4. h.freemap # {}
      <3>1. Cardinality(f.freemap \ {b}) = Cardinality(f.freemap) - 1
        <4>1. PICK F : F = f.freemap
          OBVIOUS
        <4>2. IsFiniteSet(F) /\ b \in F
          BY <1>2, <2>3, <4>1
        <4>3. Cardinality(F \ {b}) = Cardinality(F) - 1
          BY <4>2, FS_RemoveElement
        <4> QED
          BY <4>1, <4>3
      <3>2. Cardinality(f.freemap \ {b}) # 0
        BY <1>2, <1>8, <3>1
      <3> QED
        BY <2>3, <3>2, FS_EmptySet
    <2>5. b # None /\ h.entries[b][k] = None
      BY <1>1, <2>3, FsConstants DEF ZeroBlock
    <2>6. Cached(h, i) /\ Quiet(h) /\ SameSize(f, h, i)
      BY <1>1, <2>3, KeptStep DEF SameSize
    <2>7. PICK g : g = EntryAlloc(h, i, k)
      OBVIOUS
    <2>8. GoodStep(f, g, i)
      BY <2>3, <2>4, <2>5, <2>6, <2>7, EntryStep DEF GoodStep
    <2>9. r = Done(g)
      <3>1. PICK a : a = sfs_block_alloc(f)
        OBVIOUS
      <3>2. PICK y : y = [sfs_block_alloc(a) EXCEPT !.entries[b][k] = bitmap_alloc(a)]
        OBVIOUS
      <3>3. r = Done([y EXCEPT !.cache[i].din.indirect = b, !.cache[i].dirty = TRUE])
        BY <1>0, <1>8, <2>1, <3>1, <3>2 DEF sfs_bmap_get_sub_nolock
      <3>4. h = [a EXCEPT !.cache[i].din.indirect = b, !.cache[i].dirty = TRUE]
        BY <2>1, <3>1 DEF IndirectAlloc
      <3>5. g = [sfs_block_alloc(h) EXCEPT !.entries[b][k] = bitmap_alloc(h)]
        BY SMTT(60), <2>3, <2>7 DEF EntryAlloc
      <3>6. Twice(f, a, y, h, g, b, i, k)
        BY <1>1, <2>1, <3>1, <3>2, <3>4, <3>5 DEF Twice
      <3>7. g = [y EXCEPT !.cache[i].din.indirect = b, !.cache[i].dirty = TRUE]
        BY <3>6, AllocsCommute
      <3> QED
        BY <3>3, <3>7
    <2> QED
      BY <2>8, <2>9 DEF Done
  <1>9. CASE ent = None /\ Cardinality(f.freemap) = 1
    <2>1. r = Failed(Tried(f))
      BY <1>0, <1>9 DEF sfs_bmap_get_sub_nolock, Tried
    <2>2. PICK g : g = Tried(f)
      OBVIOUS
    <2>3. f.freemap # {}
      BY <1>3, <1>9
    <2>4. Good(g) /\ SameCounts(f, g) /\ g.cache = f.cache
      BY <2>2, <2>3, TriedSame
    <2>5. GoodStep(f, g, i)
      BY <1>1, <2>4, KeptStep DEF GoodStep, SameSize
    <2> QED
      BY <2>1, <2>2, <2>5 DEF Failed
  <1>10. CASE ent # None /\ f.entries[ent][k] = None /\ f.freemap = {}
    <2>1. r = Failed(f)
      BY <1>0, <1>10 DEF sfs_bmap_get_sub_nolock
    <2> QED
      BY <1>4, <2>1 DEF Failed
  <1>11. CASE ent = None /\ Cardinality(f.freemap) = 0
    <2>1. r = Failed(f)
      BY <1>0, <1>11 DEF sfs_bmap_get_sub_nolock
    <2> QED
      BY <1>4, <2>1 DEF Failed
  <1> QED
    BY <1>2, <1>6, <1>7, <1>8, <1>9, <1>10, <1>11

(* A block for place k of the file, wherever that is.                      *)
LEMMA PanicIs ==
  ASSUME NEW f \in Mounts
  PROVE  /\ ~Quiet(Panic(f, "index out of range")) /\ ~Quiet(Panic(f, "tblks == din->blocks"))
         /\ ~Quiet(Panic(f, "vop_truncate")) /\ ~Quiet(Panic(f, "vop_tryseek"))
         /\ ~Quiet(Panic(f, "vop_read")) /\ ~Quiet(Panic(f, "vop_create"))
  <1>1. \A w : Panic(f, w).panic = w
    BY DEF Panic, Mounts
  <1>2. /\ "index out of range" # "" /\ "tblks == din->blocks" # "" /\ "vop_truncate" # ""
        /\ "vop_tryseek" # "" /\ "vop_read" # "" /\ "vop_create" # ""
    BY Zenon
  <1> QED
    BY <1>1, <1>2, Zenon DEF Quiet

LEMMA Get ==
  ASSUME NEW f, Good(f), Quiet(f), NEW i \in Files, Cached(f, i), NEW k \in Nat,
         NEW r, r = sfs_bmap_get_nolock(f, i, k)
  PROVE  /\ r.ok \in BOOLEAN
         /\ Quiet(r.fs) => GoodStep(f, r.fs, i)
         /\ r.ok => Quiet(r.fs) /\ k < MaxBlocks
  <1>1. f \in Mounts /\ i \in Inos
    BY FsConstants DEF Good
  <1>2. GoodStep(f, f, i)
    BY DEF GoodStep, SameSize, SameCounts
  <1>3. CASE k >= SFS_NDIRECT + SFS_BLK_NENTRY
    <2>1. r = Failed(Panic(f, "index out of range"))
      BY <1>3 DEF sfs_bmap_get_nolock
    <2>2. PICK g : g = Panic(f, "index out of range")
      OBVIOUS
    <2>3. ~Quiet(g)
      BY <1>1, <2>2, PanicIs
    <2>4. r = Failed(g)
      BY <2>1, <2>2
    <2> HIDE <2>1, <2>2
    <2> QED
      BY <2>3, <2>4 DEF Failed
  <1>4. CASE k < SFS_NDIRECT + SFS_BLK_NENTRY /\ k >= SFS_NDIRECT
    <2>1. PICK l : l = k - SFS_NDIRECT
      OBVIOUS
    <2>2. l \in 0..(SFS_BLK_NENTRY - 1) /\ k < MaxBlocks
      BY <1>4, <2>1, FsConstants DEF MaxBlocks
    <2>3. r = sfs_bmap_get_sub_nolock(f, i, l)
      <3>1. ~(k >= SFS_NDIRECT + SFS_BLK_NENTRY) /\ k >= SFS_NDIRECT
        BY <1>4, FsConstants
      <3> QED
        BY <2>1, <3>1, Zenon DEF sfs_bmap_get_nolock
    <2>4. GoodStep(f, r.fs, i) /\ r.ok \in BOOLEAN
      BY <2>2, <2>3, GetSub
    <2> QED
      BY <2>2, <2>4 DEF GoodStep
  <1>5. CASE k < SFS_NDIRECT
    <2>1. k \in 0..(SFS_NDIRECT - 1) /\ k < MaxBlocks
      BY <1>5, FsConstants DEF MaxBlocks
    <2>2. r = IF f.cache[i].din.direct[k] # None THEN Done(f)
              ELSE IF f.freemap = {} THEN Failed(f) ELSE Done(DirectAlloc(f, i, k))
      <3>1. ~(k >= SFS_NDIRECT + SFS_BLK_NENTRY) /\ ~(k >= SFS_NDIRECT)
        BY <1>5, FsConstants
      <3> QED
        BY <3>1, Zenon DEF sfs_bmap_get_nolock, DirectAlloc
    <2>3. CASE f.cache[i].din.direct[k] # None
      BY <1>2, <2>1, <2>2, <2>3 DEF Done, GoodStep
    <2>4. CASE f.cache[i].din.direct[k] = None /\ f.freemap = {}
      BY <1>2, <2>1, <2>2, <2>4 DEF Failed, GoodStep
    <2>5. CASE f.cache[i].din.direct[k] = None /\ f.freemap # {}
      <3>1. PICK g : g = DirectAlloc(f, i, k)
        OBVIOUS
      <3>2. /\ Good(g) /\ SameCounts(f, g)
            /\ g.cache[i].din.blocks = f.cache[i].din.blocks
        BY <2>1, <2>5, <3>1, DirectSet
      <3>3. GoodStep(f, g, i)
        BY <1>1, <3>2, KeptStep DEF GoodStep, SameSize
      <3>4. r = Done(g)
        BY <2>2, <2>5, <3>1
      <3> QED
        BY <2>1, <3>3, <3>4 DEF Done, GoodStep
    <2> QED
      BY <2>3, <2>4, <2>5
  <1> QED
    BY <1>3, <1>4, <1>5, FsConstants

(* What a call that changes the blocks of a file leaves.                   *)
Walking(f, r, i) ==
  /\ r.ok \in BOOLEAN /\ (r.ok => Quiet(r.fs))
  /\ Quiet(r.fs) => Good(r.fs) /\ SameCounts(f, r.fs) /\ Cached(r.fs, i)

LEMMA SameCountsTwice ==
  ASSUME NEW f, NEW g, NEW h, SameCounts(f, g), SameCounts(g, h)
  PROVE  SameCounts(f, h)
  BY DEF SameCounts

LEMMA Load ==
  ASSUME NEW f, Good(f), Quiet(f), NEW i \in Files, Cached(f, i),
         NEW r, r = sfs_bmap_load_nolock(f, i)
  PROVE  Walking(f, r, i)
  <1>1. f \in Mounts /\ i \in Inos /\ f.cache[i] \in Nodes
    BY FsConstants, CachedNode DEF Good
  <1>2. f.cache[i].din.blocks \in Nat
    <2>1. f.cache[i].din.blocks \in 0..MaxBlocks
      BY <1>1 DEF Nodes, Dins
    <2> QED
      BY <2>1, FsConstants
  <1>3. PICK q : q = sfs_bmap_get_nolock(f, i, f.cache[i].din.blocks)
    OBVIOUS
  <1>4. /\ q.ok \in BOOLEAN /\ (Quiet(q.fs) => GoodStep(f, q.fs, i))
        /\ q.ok => Quiet(q.fs) /\ f.cache[i].din.blocks < MaxBlocks
    BY <1>2, <1>3, Get
  <1>5. CASE ~q.ok
    <2>1. r = q
      BY <1>3, <1>5 DEF sfs_bmap_load_nolock
    <2> QED
      BY <1>4, <2>1 DEF Walking, GoodStep, SameSize
  <1>6. CASE q.ok
    <2>1. PICK h : h = q.fs
      OBVIOUS
    <2>2. /\ Good(h) /\ SameCounts(f, h) /\ Quiet(h) /\ Cached(h, i)
          /\ h.cache[i].din.blocks = f.cache[i].din.blocks
      BY <1>4, <1>6, <2>1 DEF GoodStep, SameSize
    <2>3. h \in Mounts /\ h.cache[i] \in Nodes
      BY <1>1, <2>2, CachedNode DEF Good
    <2>4. PICK d, n : d = [h.cache[i].din EXCEPT !.blocks = @ + 1]
                      /\ n = [h.cache[i] EXCEPT !.din = d]
      OBVIOUS
    <2>5. d \in Dins /\ SameBlocks(d, h.cache[i].din)
      <3>1. h.cache[i].din.blocks + 1 \in 0..MaxBlocks
        BY <1>2, <1>4, <1>6, <2>2, FsConstants
      <3> QED
        BY <2>3, <2>4, <3>1 DEF Nodes, Dins, SameBlocks
    <2>6. NodeFits(h, i, n) /\ n.din = d
      BY <1>1, <2>2, <2>3, <2>4, <2>5 DEF NodeFits, Nodes
    <2>7. PICK g : g = [h EXCEPT !.cache[i].din.blocks = @ + 1]
      OBVIOUS
    <2>8. g = WithNode(h, i, n)
      <3>1. Fields(h)
        BY <2>3 DEF Mounts, Fields
      <3> QED
        BY ONLY <2>4, <2>7, <3>1 DEF Fields, WithNode
    <2>9. Good(g) /\ SameCounts(h, g)
      BY SMTT(60), <2>5, <2>6, <2>8, NodeSet
    <2>10. r = Done(g)
      BY <1>3, <1>6, <2>1, <2>7 DEF sfs_bmap_load_nolock
    <2>11. SameCounts(f, g) /\ Quiet(g) /\ Cached(g, i)
      BY <1>1, <2>2, <2>9, SameCountsTwice, KeptStep
    <2> QED
      BY <2>9, <2>10, <2>11 DEF Walking, Done
  <1> QED
    BY <1>4, <1>5, <1>6

LEMMA Free1 ==
  ASSUME NEW f, Good(f), Quiet(f), NEW i \in Files, Cached(f, i), NEW k \in 0..(MaxBlocks - 1),
         NEW g, g = sfs_bmap_free_nolock(f, i, k)
  PROVE  GoodStep(f, g, i)
  <1>1. f \in Mounts /\ i \in Inos /\ k \in Nat
    BY FsConstants DEF Good
  <1>2. GoodStep(f, f, i)
    BY DEF GoodStep, SameSize, SameCounts
  <1>3. PICK d, j : d = f.cache[i].din /\ j = k - SFS_NDIRECT
    OBVIOUS
  <1>4. CASE k < SFS_NDIRECT /\ d.direct[k] # None
    <2>1. g = DirectFree(f, i, k)
      <3>1. ~(k >= SFS_NDIRECT)
        BY <1>1, <1>4, FsConstants
      <3> QED
        BY <1>3, <1>4, <3>1 DEF sfs_bmap_free_nolock, DirectFree
    <2>2. k \in 0..(SFS_NDIRECT - 1) /\ f.cache[i].din.direct[k] # None
      BY <1>1, <1>3, <1>4, FsConstants
    <2>3. Good(g) /\ SameCounts(f, g) /\ g.cache[i].din.blocks = f.cache[i].din.blocks
      BY <2>1, <2>2, DirectClear
    <2> QED
      BY SMTT(60), <1>1, <2>3, KeptStep DEF GoodStep, SameSize
  <1>5. CASE k >= SFS_NDIRECT /\ d.indirect # None /\ f.entries[d.indirect][j] # None
    <2>1. g = EntryFree(f, i, j)
      <3>1. ~(k < SFS_NDIRECT)
        BY <1>1, <1>5, FsConstants
      <3> QED
        BY <1>3, <1>5, <3>1, Zenon DEF sfs_bmap_free_nolock, EntryFree
    <2>2. j \in 0..(SFS_BLK_NENTRY - 1)
      BY <1>1, <1>3, <1>5, FsConstants DEF MaxBlocks
    <2>3. Good(g) /\ SameCounts(f, g) /\ g.cache[i].din.blocks = f.cache[i].din.blocks
      BY <1>3, <1>5, <2>1, <2>2, EntryClear
    <2> QED
      BY SMTT(60), <1>1, <2>3, KeptStep DEF GoodStep, SameSize
  <1>6. CASE /\ ~(k < SFS_NDIRECT /\ d.direct[k] # None)
             /\ ~(k >= SFS_NDIRECT /\ d.indirect # None /\ f.entries[d.indirect][j] # None)
    <2>1. g = f
      BY <1>3, <1>6 DEF sfs_bmap_free_nolock
    <2> QED
      BY SMTT(60), <1>2, <2>1
  <1> QED
    BY <1>4, <1>5, <1>6

LEMMA Truncate1 ==
  ASSUME NEW f, Good(f), Quiet(f), NEW i \in Files, Cached(f, i), f.cache[i].din.blocks > 0,
         NEW g, g = sfs_bmap_truncate_nolock(f, i)
  PROVE  Good(g) /\ SameCounts(f, g) /\ Quiet(g) /\ Cached(g, i)
  <1>1. f \in Mounts /\ i \in Inos /\ f.cache[i] \in Nodes
    BY FsConstants, CachedNode DEF Good
  <1>2. PICK k, h : k = f.cache[i].din.blocks - 1 /\ h = sfs_bmap_free_nolock(f, i, k)
    OBVIOUS
  <1>3. k \in 0..(MaxBlocks - 1) /\ f.cache[i].din.blocks \in 0..MaxBlocks
    <2>1. f.cache[i].din.blocks \in 0..MaxBlocks
      BY <1>1 DEF Nodes, Dins
    <2> QED
      BY SMTT(60), <1>2, <2>1, FsConstants
  <1>4. GoodStep(f, h, i)
    BY <1>2, <1>3, Free1
  <1>5. /\ Good(h) /\ SameCounts(f, h) /\ Quiet(h) /\ Cached(h, i)
        /\ h.cache[i].din.blocks = f.cache[i].din.blocks
    BY <1>4 DEF GoodStep, SameSize
  <1>6. h \in Mounts /\ h.cache[i] \in Nodes
    BY <1>1, <1>5, CachedNode DEF Good
  <1>7. PICK d, n : d = [h.cache[i].din EXCEPT !.blocks = @ - 1] /\ n = DirtyDin(h.cache[i], d)
    OBVIOUS
  <1>8. d \in Dins /\ SameBlocks(d, h.cache[i].din)
    <2>1. h.cache[i].din.blocks - 1 \in 0..MaxBlocks
      <3>1. h.cache[i].din.blocks - 1 = k
        BY <1>2, <1>5
      <3> QED
        BY <1>3, <3>1, FsConstants
    <2> QED
      BY <1>6, <1>7, <2>1 DEF Nodes, Dins, SameBlocks
  <1>9. NodeFits(h, i, n) /\ n.din = d
    <2>1. n \in Nodes /\ n.ref = h.cache[i].ref /\ n.open = h.cache[i].open /\ n.dirty /\ n.din = d
      BY <1>6, <1>7, <1>8, DirtyDinIs
    <2> QED
      BY <1>1, <1>5, <2>1 DEF NodeFits
  <1>10. g = WithNode(h, i, n)
    <2>1. Fields(h)
      BY <1>6 DEF Mounts, Fields
    <2>2. g = [h EXCEPT !.cache[i].din.blocks = @ - 1, !.cache[i].dirty = TRUE]
      BY <1>2 DEF sfs_bmap_truncate_nolock
    <2> QED
      BY ONLY <1>7, <2>1, <2>2 DEF Fields, WithNode, DirtyDin
  <1>11. Good(g) /\ SameCounts(h, g)
    BY <1>8, <1>9, <1>10, NodeSet
  <1> QED
    BY <1>1, <1>5, <1>11, SameCountsTwice, KeptStep

-----------------------------------------------------------------------------
(* The turns of the loops of sfs_truncfile, one after another.             *)
LEMMA ResizeIs ==
  ASSUME NEW f, NEW i, NEW n,
         NEW b, b = f.cache[i].din.blocks,
         NEW t \in Nat, t = IF b > n THEN b - n ELSE n - b
  PROVE  \E w : /\ Resize(f, i, n) = w[t] /\ w[0] = Done(f)
                /\ \A k \in 1..t : w[k] = Turn(w[k - 1], i, n)
  <1> DEFINE G(g, m) == [k \in 0..m |-> IF k = 0 THEN Done(f) ELSE Turn(g[k - 1], i, n)]
             T == {m \in 0..t : \E g : g = G(g, m)}
  <1>1. 0 \in T
    <2>1. PICK g : g = [k \in 0..0 |-> Done(f)]
      OBVIOUS
    <2>2. G(g, 0) = [k \in 0..0 |-> Done(f)]
      OBVIOUS
    <2>3. 0 \in 0..t /\ \E h : h = G(h, 0)
      BY <2>1, <2>2
    <2> QED
      BY <2>3
  <1>2. ASSUME NEW m \in 1..t, m - 1 \in T PROVE m \in T
    <2>1. PICK g : g = G(g, m - 1)
      BY <1>2
    <2> DEFINE h == [k \in 0..m |-> IF k = 0 THEN Done(f) ELSE Turn(g[k - 1], i, n)]
    <2>2. \A k \in 0..(m - 1) : h[k] = g[k]
      BY <2>1
    <2>3. \A k \in 0..m : k # 0 => k - 1 \in 0..(m - 1)
      OBVIOUS
    <2>4. h = G(h, m)
      BY <2>2, <2>3
    <2>5. m \in 0..t /\ \E a : a = G(a, m)
      <3> HIDE DEF G, h
      <3> QED
        BY <2>4
    <2> QED
      BY <2>5
  <1>3. t \in T
    <2> HIDE DEF T
    <2>1. \A k \in 0..t : k \in T
      BY <1>1, <1>2, UpTo
    <2> QED
      BY <2>1
  <1>4. PICK g : g = G(g, t)
    BY <1>3
  <1>5. Resize(f, i, n) = (CHOOSE a : a = G(a, t))[t]
    BY DEF Resize
  <1>6. PICK w : w = CHOOSE a : a = G(a, t)
    OBVIOUS
  <1>7. w = G(w, t)
    <2> HIDE DEF G, T
    <2> QED
      BY SMTT(60), <1>4, <1>6
  <1> HIDE <1>5, <1>6
  <1>8. w[0] = Done(f) /\ \A k \in 1..t : w[k] = Turn(w[k - 1], i, n)
    <2>1. \A k \in 0..t : w[k] = IF k = 0 THEN Done(f) ELSE Turn(w[k - 1], i, n)
      BY ONLY <1>7, Zenon
    <2>2. 0 \in 0..t /\ \A k \in 1..t : k \in 0..t /\ k # 0
      OBVIOUS
    <2> QED
      BY ONLY <2>1, <2>2, Zenon
  <1>9. Resize(f, i, n) = w[t]
    BY <1>5, <1>6
  <1> HIDE DEF G, T
  <1> QED
    BY <1>8, <1>9

LEMMA BlocksIs ==
  /\ \A len \in Nat : Blocks(len) \in Nat
  /\ Blocks(0) = 0
  <1>1. ASSUME NEW len \in Nat PROVE Blocks(len) \in Nat
    <2>1. PICK b, a : b = SFS_BLKSIZE /\ a = len + SFS_BLKSIZE - 1
      OBVIOUS
    <2>2. b \in Nat \ {0} /\ a \in Nat
      BY <2>1, FsConstants
    <2>3. a \div b \in Nat
      BY <2>2
    <2> QED
      BY <2>1, <2>3 DEF Blocks
  <1>2. Blocks(0) = 0
    <2>1. PICK b, a : b = SFS_BLKSIZE /\ a = SFS_BLKSIZE - 1
      OBVIOUS
    <2>2. b \in Nat \ {0} /\ a \in Nat /\ a < b
      BY <2>1, FsConstants
    <2>3. a \div b = 0
      BY <2>2
    <2>4. 0 + SFS_BLKSIZE - 1 = a
      BY <2>1, FsConstants
    <2> QED
      BY <2>1, <2>3, <2>4 DEF Blocks
  <1> QED
    BY <1>1, <1>2

LEMMA TurnWalks ==
  ASSUME NEW f, NEW i \in Files, NEW n \in Nat, NEW r, Walking(f, r, i),
         NEW s, s = Turn(r, i, n)
  PROVE  /\ Walking(f, s, i)
         /\ n = 0 /\ (r.ok \/ ~Quiet(r.fs)) => s.ok \/ ~Quiet(s.fs)
  <1>1. CASE ~r.ok \/ r.fs.cache[i].din.blocks = n
    <2>1. s = r
      BY <1>1 DEF Turn
    <2> QED
      BY <2>1
  <1> SUFFICES ASSUME r.ok, r.fs.cache[i].din.blocks # n
               PROVE  /\ Walking(f, s, i)
                      /\ n = 0 => s.ok
    BY <1>1 DEF Walking
  <1>2. PICK g : g = r.fs
    OBVIOUS
  <1>3. Quiet(g) /\ Good(g) /\ SameCounts(f, g) /\ Cached(g, i) /\ i \in Inos
    BY <1>2, FsConstants DEF Walking
  <1>4. PICK b \in Nat : b = g.cache[i].din.blocks
    BY SMTT(60), <1>3, CachedNode, FsConstants DEF Good, Nodes, Dins
  <1>5. CASE b > n
    <2>1. PICK h : h = sfs_bmap_truncate_nolock(g, i)
      OBVIOUS
    <2>2. s = Done(h)
      <3>1. r.fs.cache[i].din.blocks > n
        BY <1>2, <1>4, <1>5
      <3>2. s = Done(sfs_bmap_truncate_nolock(r.fs, i))
        BY <1>3, <3>1 DEF Turn
      <3> QED
        BY <1>2, <2>1, <3>2
    <2>3. Good(h) /\ SameCounts(g, h) /\ Quiet(h) /\ Cached(h, i)
      BY <1>3, <1>4, <1>5, <2>1, Truncate1
    <2> QED
      BY <1>3, <2>2, <2>3, SameCountsTwice DEF Walking, Done
  <1>6. CASE ~(b > n)
    <2>1. n # 0
      BY <1>2, <1>4, <1>6
    <2>2. s = sfs_bmap_load_nolock(g, i)
      <3>1. ~(r.fs.cache[i].din.blocks > n)
        BY <1>2, <1>4, <1>6
      <3>2. s = sfs_bmap_load_nolock(r.fs, i)
        BY <3>1 DEF Turn
      <3> QED
        BY <1>2, <3>2
    <2>3. Walking(g, s, i)
      BY <1>3, <2>2, Load
    <2> QED
      BY <1>3, <2>1, <2>3, SameCountsTwice DEF Walking
  <1> QED
    BY <1>5, <1>6

LEMMA ResizeWalks ==
  ASSUME NEW f, Good(f), Quiet(f), NEW i \in Files, Cached(f, i), NEW n \in Nat,
         NEW r, r = Resize(f, i, n)
  PROVE  Walking(f, r, i) /\ (n = 0 => r.ok \/ ~Quiet(r.fs))
  <1>1. i \in Inos
    BY FsConstants
  <1>2. PICK b \in Nat : b = f.cache[i].din.blocks
    BY SMTT(60), <1>1, CachedNode, FsConstants DEF Good, Nodes, Dins
  <1>3. PICK t \in Nat : t = IF b > n THEN b - n ELSE n - b
    BY <1>2
  <1>4. PICK w : /\ r = w[t] /\ w[0] = Done(f)
                 /\ \A k \in 1..t : w[k] = Turn(w[k - 1], i, n)
    BY <1>2, <1>3, ResizeIs
  <1> DEFINE Fine(k) == Walking(f, w[k], i) /\ (n = 0 => w[k].ok \/ ~Quiet(w[k].fs))
             T == {k \in 0..t : Fine(k)}
  <1>5. Fine(0)
    BY <1>4 DEF Walking, Done, SameCounts
  <1>6. ASSUME NEW k \in 1..t, Fine(k - 1) PROVE Fine(k)
    <2>1. PICK q, s : q = w[k - 1] /\ s = Turn(q, i, n) /\ s = w[k]
      BY <1>4
    <2>2. Walking(f, q, i) /\ (n = 0 => q.ok \/ ~Quiet(q.fs))
      BY <1>6, <2>1
    <2>3. Walking(f, s, i) /\ (n = 0 => s.ok \/ ~Quiet(s.fs))
      <3>1. Walking(f, q, i) /\ s = Turn(q, i, n)
        BY <2>1, <2>2
      <3>2. Walking(f, s, i) /\ (n = 0 /\ (q.ok \/ ~Quiet(q.fs)) => s.ok \/ ~Quiet(s.fs))
        BY <3>1, TurnWalks
      <3> QED
        BY <2>2, <3>2
    <2> QED
      BY <2>1, <2>3
  <1> HIDE DEF Fine
  <1>7. 0 \in T /\ \A k \in 1..t : k - 1 \in T => k \in T
    BY <1>5, <1>6
  <1> HIDE DEF T
  <1>8. \A k \in 0..t : k \in T
    BY <1>7, UpTo
  <1>9. Fine(t)
    BY <1>8 DEF T
  <1> QED
    BY <1>4, <1>9 DEF Fine

SizeSet(f, i, len) == [f EXCEPT !.cache[i].din.size = len, !.cache[i].dirty = TRUE]

LEMMA Sized ==
  ASSUME NEW f, Good(f), Quiet(f), NEW i \in Inos, Cached(f, i), NEW len \in Nat,
         NEW g, g = SizeSet(f, i, len)
  PROVE  Good(g) /\ SameCounts(f, g) /\ Quiet(g) /\ Cached(g, i)
  <1>1. f \in Mounts /\ f.cache[i] \in Nodes
    BY CachedNode DEF Good
  <1>2. PICK d, n : d = [f.cache[i].din EXCEPT !.size = len] /\ n = DirtyDin(f.cache[i], d)
    OBVIOUS
  <1>3. d \in Dins /\ SameBlocks(d, f.cache[i].din)
    BY <1>1, <1>2 DEF Nodes, Dins, SameBlocks
  <1>4. NodeFits(f, i, n) /\ n.din = d
    <2>1. n \in Nodes /\ n.ref = f.cache[i].ref /\ n.open = f.cache[i].open /\ n.dirty /\ n.din = d
      BY <1>1, <1>2, <1>3, DirtyDinIs
    <2> QED
      BY <2>1 DEF NodeFits
  <1>5. g = WithNode(f, i, n)
    <2>1. Fields(f)
      BY <1>1 DEF Mounts, Fields
    <2>2. g = [f EXCEPT !.cache[i].din.size = len, !.cache[i].dirty = TRUE]
      BY DEF SizeSet
    <2> QED
      BY ONLY <1>2, <2>1, <2>2 DEF Fields, WithNode, DirtyDin
  <1>6. Good(g) /\ SameCounts(f, g)
    BY <1>3, <1>4, <1>5, NodeSet
  <1> QED
    BY <1>6, KeptStep

LEMMA Truncated ==
  ASSUME NEW f, Good(f), Quiet(f), NEW i \in Files, Cached(f, i), NEW len \in Nat,
         NEW r, r = sfs_truncfile(f, i, len)
  PROVE  Walking(f, r, i) /\ (len = 0 => r.ok \/ ~Quiet(r.fs))
  <1>1. f \in Mounts /\ i \in Inos
    BY FsConstants DEF Good
  <1>2. PICK n \in Nat : n = Blocks(len)
    BY BlocksIs
  <1>3. CASE f.cache[i].din.size = len /\ f.cache[i].din.blocks = n
    <2>1. r = Done(f)
      BY <1>2, <1>3 DEF sfs_truncfile
    <2> QED
      BY <2>1 DEF Walking, Done, SameCounts
  <1>4. CASE f.cache[i].din.size = len /\ f.cache[i].din.blocks # n
    <2>1. PICK g : g = Panic(f, "tblks == din->blocks")
      OBVIOUS
    <2>2. ~Quiet(g)
      BY <1>1, <2>1, PanicIs
    <2>3. r = Failed(g)
      BY <1>2, <1>4, <2>1, Zenon DEF sfs_truncfile
    <2> HIDE <2>1
    <2> QED
      BY <2>2, <2>3 DEF Walking, Failed
  <1>5. CASE f.cache[i].din.size # len
    <2>1. PICK q : q = Resize(f, i, n)
      OBVIOUS
    <2>2. Walking(f, q, i) /\ (n = 0 => q.ok \/ ~Quiet(q.fs))
      BY <2>1, ResizeWalks
    <2>3. len = 0 => n = 0
      BY <1>2, BlocksIs
    <2>4. CASE ~q.ok
      <3>1. r = q
        BY <1>2, <1>5, <2>1, <2>4 DEF sfs_truncfile
      <3> QED
        BY <2>2, <2>3, <3>1
    <2>5. CASE q.ok
      <3>1. PICK h, g : h = q.fs /\ g = SizeSet(h, i, len)
        OBVIOUS
      <3>2. r = Done(g)
        BY <1>2, <1>5, <2>1, <2>5, <3>1 DEF sfs_truncfile, SizeSet
      <3>3. Good(h) /\ Quiet(h) /\ SameCounts(f, h) /\ Cached(h, i)
        BY <2>2, <2>5, <3>1 DEF Walking
      <3>4. Good(g) /\ SameCounts(h, g) /\ Quiet(g) /\ Cached(g, i)
        BY <1>1, <3>1, <3>3, Sized
      <3> QED
        BY <3>2, <3>3, <3>4, SameCountsTwice DEF Walking, Done
    <2> QED
      BY <2>4, <2>5
  <1> QED
    BY <1>3, <1>4, <1>5
-----------------------------------------------------------------------------
(* An inode changes in memory and on the disk, in all but its blocks.      *)
InodeFits(f, i, c, d) ==
  /\ Good(f) /\ i \in Inos /\ c \in Nodes \cup {NoNode} /\ d \in Dins
  /\ SameBlocks(IF c = NoNode THEN d ELSE c.din, Din(f, i))
  /\ c # NoNode /\ ~c.dirty => SameBlocks(c.din, d)
Wrote(f, i, c, d) == [f EXCEPT !.cache = [f.cache EXCEPT ![i] = c],
                               !.disk = [f.disk EXCEPT ![i] = d]]

LEMMA SameNumbers ==
  ASSUME NEW f, Good(f), NEW g, g \in Mounts, Clean(g),
         g.entries = f.entries, g.freemap = f.freemap, g.unused = f.unused,
         g.super_dirty = f.super_dirty, g.saved = f.saved,
         \A j \in Files : SameBlocks(Din(g, j), Din(f, j))
  PROVE  Good(g)
  <1>1. NumbersOf(g) = NumbersOf(f)
    <2>1. \A j \in Files, place \in PlaceSet :
             Number(g.entries, Din(g, j), place) = Number(f.entries, Din(f, j), place)
      BY DEF Number, SameBlocks
    <2> QED
      BY <2>1, FsConstants DEF NumbersOf, Numbers, DinsOf, Cells
  <1> QED
    BY <1>1 DEF Good

LEMMA InodeWrite ==
  ASSUME NEW f, NEW i, NEW c, NEW d, InodeFits(f, i, c, d), NEW g, g = Wrote(f, i, c, d)
  PROVE  /\ Good(g) /\ g.panic = f.panic /\ g.cache[i] = c
         /\ \A j \in Inos \ {i} : g.cache[j] = f.cache[j]
  <1>1. /\ Good(f) /\ i \in Inos /\ c \in Nodes \cup {NoNode} /\ d \in Dins
        /\ SameBlocks(IF c = NoNode THEN d ELSE c.din, Din(f, i))
        /\ c # NoNode /\ ~c.dirty => SameBlocks(c.din, d)
    BY DEF InodeFits
  <1>2. f \in Mounts /\ Clean(f)
    BY <1>1 DEF Good
  <1>3. /\ g.cache = [f.cache EXCEPT ![i] = c] /\ g.disk = [f.disk EXCEPT ![i] = d]
        /\ g.entries = f.entries /\ g.freemap = f.freemap /\ g.unused = f.unused
        /\ g.super_dirty = f.super_dirty /\ g.saved = f.saved /\ g.panic = f.panic
        /\ Fields(g)
    BY <1>2 DEF Wrote, Mounts, Fields
  <1>4. /\ f.cache \in [Inos -> Nodes \cup {NoNode}] /\ f.disk \in [Inos -> Dins]
        /\ f.saved \in [freemap : SUBSET Data, unused : Int]
        /\ f.panic \in Said /\ f.entries \in [Data -> [0..(SFS_BLK_NENTRY - 1) -> Nums]]
        /\ f.freemap \in SUBSET Data /\ f.unused \in Int /\ f.super_dirty \in BOOLEAN
    BY <1>2 DEF Mounts
  <1>5. /\ g.cache[i] = c /\ g.disk[i] = d
        /\ \A j \in Inos \ {i} : g.cache[j] = f.cache[j] /\ g.disk[j] = f.disk[j]
        /\ g.cache \in [Inos -> Nodes \cup {NoNode}] /\ g.disk \in [Inos -> Dins]
    BY <1>1, <1>3, <1>4
  <1>6. g \in Mounts
    <2> HIDE <1>5
    <2>1. g.cache \in [Inos -> Nodes \cup {NoNode}] /\ g.disk \in [Inos -> Dins]
      BY <1>5
    <2>2. /\ g.saved \in [freemap : SUBSET Data, unused : Int]
          /\ g.panic \in Said /\ g.entries \in [Data -> [0..(SFS_BLK_NENTRY - 1) -> Nums]]
          /\ g.freemap \in SUBSET Data /\ g.unused \in Int /\ g.super_dirty \in BOOLEAN
      BY <1>3, <1>4
    <2> QED
      BY <1>3, <2>1, <2>2, MountIs
  <1>7. \A j \in Inos \ {i} : Din(g, j) = Din(f, j) /\ (Cached(g, j) <=> Cached(f, j))
    BY <1>5 DEF Din, Cached
  <1>8. (Cached(g, i) <=> c # NoNode) /\ Din(g, i) = IF c = NoNode THEN d ELSE c.din
    BY <1>5 DEF Din, Cached
  <1>9. Clean(g)
    BY <1>1, <1>2, <1>5, <1>7, <1>8 DEF Clean
  <1>10. \A j \in Files : SameBlocks(Din(g, j), Din(f, j))
    <2>1. \A j \in Files : j \in Inos
      BY FsConstants
    <2> QED
      BY <1>1, <1>7, <1>8, <2>1 DEF SameBlocks
  <1>11. Good(g)
    BY <1>1, <1>3, <1>6, <1>9, <1>10, SameNumbers
  <1> QED
    BY <1>3, <1>5, <1>11

-----------------------------------------------------------------------------
(* A file system in order, with what is counted on its inodes.             *)
More(w, i) == [w EXCEPT ![i] = @ + 1]
Less(w, i) == [w EXCEPT ![i] = @ - 1]

LEMMA CountsAre ==
  ASSUME NEW w \in [Inos -> Nat], NEW i \in Inos
  PROVE  /\ More(w, i) \in [Inos -> Nat] /\ More(w, i)[i] = w[i] + 1
         /\ \A j \in Inos \ {i} : More(w, i)[j] = w[j] /\ Less(w, i)[j] = w[j]
         /\ Less(w, i)[i] = w[i] - 1
         /\ w[i] > 0 => Less(w, i) \in [Inos -> Nat]
         /\ Less(More(w, i), i) = w
  <1>1. PICK m : m = More(w, i)
    OBVIOUS
  <1>2. m \in [Inos -> Nat] /\ m[i] = w[i] + 1 /\ \A j \in Inos \ {i} : m[j] = w[j]
    BY <1>1 DEF More
  <1>3. Less(w, i)[i] = w[i] - 1 /\ \A j \in Inos \ {i} : Less(w, i)[j] = w[j]
    BY DEF Less
  <1>4. w[i] > 0 => Less(w, i) \in [Inos -> Nat]
    BY DEF Less
  <1>5. Less(m, i) = w
    <2>1. \A j \in Inos : Less(m, i)[j] = w[j]
      BY <1>2 DEF Less
    <2>2. Less(m, i) = [j \in Inos |-> Less(m, i)[j]]
      BY <1>2 DEF Less
    <2>3. w = [j \in Inos |-> w[j]]
      OBVIOUS
    <2> QED
      BY <2>1, <2>2, <2>3
  <1> QED
    BY <1>1, <1>2, <1>3, <1>4, <1>5

(* The inode becomes c, and the counts of it h1 and w1.                    *)
LEMMA SoundWrite ==
  ASSUME NEW f, NEW h, NEW w, Sound(f, h, w), NEW i, NEW c, NEW d, InodeFits(f, i, c, d),
         NEW g, g = Wrote(f, i, c, d),
         NEW h1 \in [Inos -> Nat], NEW w1 \in [Inos -> Nat],
         \A j \in Inos \ {i} : h1[j] = h[j] /\ w1[j] = w[j],
         IF c # NoNode THEN c.ref >= h1[i] + w1[i] /\ c.open = h1[i]
                       ELSE h1[i] = 0 /\ w1[i] = 0
  PROVE  Sound(g, h1, w1)
  <1>1. /\ Good(g) /\ g.panic = f.panic /\ g.cache[i] = c
        /\ \A j \in Inos \ {i} : g.cache[j] = f.cache[j]
    BY InodeWrite
  <1>2. Quiet(g)
    BY <1>1, Zenon DEF Sound, Quiet
  <1>3. Counted(g, h1, w1)
    <2>1. \A j \in Inos \ {i} : IF Cached(g, j)
                                THEN g.cache[j].ref >= h1[j] + w1[j] /\ g.cache[j].open = h1[j]
                                ELSE h1[j] = 0 /\ w1[j] = 0
      BY <1>1 DEF Sound, Counted, Cached
    <2>2. IF Cached(g, i) THEN g.cache[i].ref >= h1[i] + w1[i] /\ g.cache[i].open = h1[i]
                          ELSE h1[i] = 0 /\ w1[i] = 0
      BY <1>1 DEF Cached
    <2> QED
      BY <2>1, <2>2 DEF Counted
  <1> QED
    BY <1>1, <1>2, <1>3 DEF Sound

LEMMA CacheWrite ==
  ASSUME NEW f, f \in Mounts, NEW i \in Inos, NEW c, NEW g,
         g = [f EXCEPT !.cache = [f.cache EXCEPT ![i] = c]]
  PROVE  g = Wrote(f, i, c, f.disk[i])
  <1>1. [f.disk EXCEPT ![i] = f.disk[i]] = f.disk
    BY DEF Mounts
  <1> QED
    BY <1>1 DEF Wrote, Mounts

LEMMA SoundNode ==
  ASSUME NEW f, NEW h, NEW w, Sound(f, h, w), NEW i \in Inos
  PROVE  /\ f \in Mounts /\ Fields(f) /\ Good(f)
         /\ h \in [Inos -> Nat] /\ w \in [Inos -> Nat]
         /\ f.disk[i] \in Dins
         /\ Cached(f, i) => /\ f.cache[i] \in Nodes /\ f.cache[i] # NoNode
                            /\ Din(f, i) = f.cache[i].din
                            /\ f.cache[i].ref >= h[i] + w[i] /\ f.cache[i].open = h[i]
                            /\ ~f.cache[i].dirty => SameBlocks(f.cache[i].din, f.disk[i])
         /\ ~Cached(f, i) => Din(f, i) = f.disk[i] /\ h[i] = 0 /\ w[i] = 0
  <1>1. Good(f) /\ f \in Mounts /\ Clean(f) /\ Counted(f, h, w)
    BY DEF Sound, Good
  <1>2. Fields(f) /\ f.disk[i] \in Dins
    BY <1>1 DEF Mounts, Fields
  <1>3. h \in [Inos -> Nat] /\ w \in [Inos -> Nat]
    BY <1>1 DEF Counted
  <1>4. ASSUME Cached(f, i)
        PROVE  /\ f.cache[i] \in Nodes /\ f.cache[i] # NoNode /\ Din(f, i) = f.cache[i].din
               /\ f.cache[i].ref >= h[i] + w[i] /\ f.cache[i].open = h[i]
               /\ ~f.cache[i].dirty => SameBlocks(f.cache[i].din, f.disk[i])
    BY <1>1, <1>4, CachedNode DEF Clean, Counted
  <1>5. ASSUME ~Cached(f, i) PROVE Din(f, i) = f.disk[i] /\ h[i] = 0 /\ w[i] = 0
    BY <1>1, <1>5, CachedNode DEF Counted
  <1> QED
    BY <1>1, <1>2, <1>3, <1>4, <1>5

LEMMA RefInc ==
  ASSUME NEW f, NEW h, NEW w, Sound(f, h, w), NEW i \in Inos, Cached(f, i),
         NEW g, g = inode_ref_inc(f, i)
  PROVE  Sound(g, h, More(w, i)) /\ Cached(g, i)
  <1>1. PICK c, d, w1 : c = [f.cache[i] EXCEPT !.ref = @ + 1] /\ d = f.disk[i] /\ w1 = More(w, i)
    OBVIOUS
  <1>2. g = Wrote(f, i, c, d)
    <2>1. Fields(f) /\ f \in Mounts
      BY SoundNode
    <2>2. g = [f EXCEPT !.cache[i].ref = @ + 1]
      BY DEF inode_ref_inc
    <2>3. g = [f EXCEPT !.cache = [f.cache EXCEPT ![i] = c]]
      BY ONLY <1>1, <2>1, <2>2 DEF Fields
    <2> QED
      BY <1>1, <2>1, <2>3, CacheWrite
  <1>3. /\ c \in Nodes /\ c.ref = f.cache[i].ref + 1 /\ c.open = f.cache[i].open
        /\ c.dirty = f.cache[i].dirty /\ c.din = f.cache[i].din
    BY <1>1, SoundNode DEF Nodes
  <1>4. c # NoNode
    BY <1>3 DEF Nodes, NoNode
  <1>5. InodeFits(f, i, c, d)
    BY <1>1, <1>3, <1>4, SoundNode DEF InodeFits, SameBlocks
  <1>6. /\ w \in [Inos -> Nat] /\ h \in [Inos -> Nat]
        /\ f.cache[i].ref >= h[i] + w[i] /\ f.cache[i].open = h[i]
    BY SoundNode
  <1>7. /\ w1 \in [Inos -> Nat] /\ w1[i] = w[i] + 1
        /\ \A j \in Inos \ {i} : w1[j] = w[j]
    BY <1>1, <1>6, CountsAre
  <1>8. c.ref >= h[i] + w1[i] /\ c.open = h[i]
    <2>1. f.cache[i].ref \in Nat /\ h[i] \in Nat /\ w[i] \in Nat
      BY <1>6, SoundNode DEF Nodes
    <2> QED
      BY <1>3, <1>6, <1>7, <2>1
  <1>9. Sound(g, h, w1)
    BY <1>2, <1>4, <1>5, <1>6, <1>7, <1>8, SoundWrite
  <1>10. g.cache[i] = c
    BY <1>2, <1>5, InodeWrite
  <1> QED
    BY <1>1, <1>4, <1>9, <1>10 DEF Cached

LEMMA OpenInc ==
  ASSUME NEW f, NEW h, NEW w, Sound(f, h, w), NEW i \in Inos, w[i] > 0,
         NEW g, g = inode_open_inc(f, i)
  PROVE  Sound(g, More(h, i), Less(w, i)) /\ Cached(g, i)
  <1>0. /\ w \in [Inos -> Nat] /\ h \in [Inos -> Nat] /\ Cached(f, i)
        /\ f.cache[i].ref >= h[i] + w[i] /\ f.cache[i].open = h[i]
    BY SoundNode
  <1>1. PICK c, d, h1, w1 : c = [f.cache[i] EXCEPT !.open = @ + 1] /\ d = f.disk[i]
                            /\ h1 = More(h, i) /\ w1 = Less(w, i)
    OBVIOUS
  <1>2. g = Wrote(f, i, c, d)
    <2>1. Fields(f) /\ f \in Mounts
      BY SoundNode
    <2>2. g = [f EXCEPT !.cache[i].open = @ + 1]
      BY DEF inode_open_inc
    <2>3. g = [f EXCEPT !.cache = [f.cache EXCEPT ![i] = c]]
      BY ONLY <1>1, <2>1, <2>2 DEF Fields
    <2> QED
      BY <1>1, <2>1, <2>3, CacheWrite
  <1>3. /\ c \in Nodes /\ c.ref = f.cache[i].ref /\ c.open = f.cache[i].open + 1
        /\ c.dirty = f.cache[i].dirty /\ c.din = f.cache[i].din
    BY <1>0, <1>1, SoundNode DEF Nodes
  <1>4. c # NoNode
    BY <1>3 DEF Nodes, NoNode
  <1>5. InodeFits(f, i, c, d)
    BY <1>0, <1>1, <1>3, <1>4, SoundNode DEF InodeFits, SameBlocks
  <1>7. /\ w1 \in [Inos -> Nat] /\ w1[i] = w[i] - 1 /\ h1 \in [Inos -> Nat] /\ h1[i] = h[i] + 1
        /\ \A j \in Inos \ {i} : h1[j] = h[j] /\ w1[j] = w[j]
    BY <1>0, <1>1, CountsAre
  <1>8. c.ref >= h1[i] + w1[i] /\ c.open = h1[i]
    <2>1. f.cache[i].ref \in Nat /\ h[i] \in Nat /\ w[i] \in Nat
      BY <1>0, SoundNode DEF Nodes
    <2> QED
      BY <1>0, <1>3, <1>7, <2>1
  <1>9. Sound(g, h1, w1)
    BY <1>2, <1>4, <1>5, <1>7, <1>8, SoundWrite
  <1>10. g.cache[i] = c
    BY <1>2, <1>5, InodeWrite
  <1> QED
    BY <1>1, <1>4, <1>9, <1>10 DEF Cached

(* Reclaimed or not, an inode loses one reference.                         *)
LEMMA RefDec ==
  ASSUME NEW f, NEW h, NEW w, Sound(f, h, w), NEW i \in Inos, w[i] > 0,
         NEW g, g = inode_ref_dec(f, i)
  PROVE  Sound(g, h, Less(w, i))
  <1>0. /\ w \in [Inos -> Nat] /\ h \in [Inos -> Nat] /\ Cached(f, i)
        /\ f.cache[i].ref >= h[i] + w[i] /\ f.cache[i].open = h[i]
        /\ f \in Mounts /\ Fields(f) /\ f.cache[i] \in Nodes
    BY SoundNode
  <1>1. PICK n, w1 : n = [f.cache[i] EXCEPT !.ref = @ - 1] /\ w1 = Less(w, i)
    OBVIOUS
  <1>2. /\ w1 \in [Inos -> Nat] /\ w1[i] = w[i] - 1
        /\ \A j \in Inos \ {i} : w1[j] = w[j]
    BY <1>0, <1>1, CountsAre
  <1>3. /\ n.ref = f.cache[i].ref - 1 /\ n.open = f.cache[i].open
        /\ n.dirty = f.cache[i].dirty /\ n.din = f.cache[i].din
        /\ n = [ref |-> n.ref, open |-> n.open, dirty |-> n.dirty, din |-> n.din]
        /\ n.dirty \in BOOLEAN
    BY <1>0, <1>1 DEF Nodes
  <1>4. PICK q : q = [f EXCEPT !.cache[i].ref = @ - 1]
    OBVIOUS
  <1>5. q = [f EXCEPT !.cache = [f.cache EXCEPT ![i] = n]]
    BY ONLY <1>0, <1>1, <1>4 DEF Fields
  <1>6. /\ Fields(q) /\ q.cache = [f.cache EXCEPT ![i] = n] /\ q.disk = f.disk /\ q.cache[i] = n
    BY <1>0, <1>5 DEF Fields, Mounts
  <1>7. g = IF n.ref = 0 THEN sfs_reclaim(q, i) ELSE q
    BY <1>4, <1>6 DEF inode_ref_dec
  <1>8. f.cache[i].ref \in Nat \ {0} /\ h[i] \in Nat /\ w[i] \in Nat
    BY <1>0 DEF Nodes
  <1>9. CASE n.ref # 0
    <2>1. n \in Nodes /\ n # NoNode
      <3>1. n.ref \in Nat \ {0}
        BY <1>3, <1>8, <1>9
      <3>2. n \in Nodes
        BY <1>0, <1>3, <3>1 DEF Nodes
      <3> QED
        BY <3>2 DEF Nodes, NoNode
    <2>2. PICK d : d = f.disk[i]
      OBVIOUS
    <2>3. g = Wrote(f, i, n, d)
      BY <1>0, <1>5, <1>7, <1>9, <2>2, CacheWrite
    <2>4. InodeFits(f, i, n, d)
      BY <1>3, <2>1, <2>2, SoundNode DEF InodeFits, SameBlocks
    <2>5. n.ref >= h[i] + w1[i] /\ n.open = h[i]
      BY <1>0, <1>2, <1>3, <1>8
    <2>6. Sound(g, h, w1)
      BY <1>0, <1>2, <2>1, <2>3, <2>4, <2>5, SoundWrite
    <2> QED
      BY <1>1, <2>6
  <1>10. CASE n.ref = 0
    <2>1. PICK d, c : d = (IF n.dirty THEN n.din ELSE f.disk[i]) /\ c = NoNode
      OBVIOUS
    <2>2. g = Wrote(f, i, c, d)
      <3>1. PICK s : s = sfs_fsync(q, i)
        OBVIOUS
      <3>2. g = [s EXCEPT !.cache[i] = c]
        BY <1>7, <1>10, <2>1, <3>1 DEF sfs_reclaim
      <3>3. PICK o, nc : o = [f.cache EXCEPT ![i] = c] /\ nc = q.cache
        OBVIOUS
      <3>4. [nc EXCEPT ![i] = c] = o
        BY <1>0, <1>6, <3>3 DEF Mounts
      <3>5. CASE ~n.dirty
        <4>1. s = q
          BY <1>6, <3>1, <3>5 DEF sfs_fsync
        <4>2. g = [q EXCEPT !.cache = o]
          BY <1>6, <3>2, <3>3, <3>4, <4>1 DEF Fields
        <4>3. g = [f EXCEPT !.cache = o]
          BY ONLY <1>0, <1>5, <1>6, <4>2 DEF Fields
        <4> QED
          BY <1>0, <2>1, <3>3, <3>5, <4>3, CacheWrite
      <3>6. CASE n.dirty
        <4>1. PICK nd, m, mc : /\ nd = [f.disk EXCEPT ![i] = d] /\ m = [n EXCEPT !.dirty = FALSE]
                               /\ mc = [nc EXCEPT ![i] = m]
          OBVIOUS
        <4>2. s = [q EXCEPT !.disk[i] = n.din, !.cache[i].dirty = FALSE]
          BY <1>6, <3>1, <3>6 DEF sfs_fsync
        <4>3. s = [q EXCEPT !.disk = nd, !.cache = mc]
          BY <1>6, <2>1, <3>3, <3>6, <4>1, <4>2 DEF Fields
        <4>4. [mc EXCEPT ![i] = c] = o
          BY <1>0, <1>6, <3>3, <4>1 DEF Mounts
        <4>5. Fields(s) /\ s.cache = mc /\ s.disk = nd
          BY ONLY <1>6, <4>3 DEF Fields
        <4>6. g = [s EXCEPT !.cache = o]
          BY ONLY <3>2, <4>4, <4>5 DEF Fields
        <4>7. g = [f EXCEPT !.cache = o, !.disk = nd]
          BY ONLY <1>0, <1>5, <1>6, <4>3, <4>5, <4>6 DEF Fields
        <4> QED
          BY <3>3, <4>1, <4>7 DEF Wrote
      <3> QED
        BY <1>3, <3>5, <3>6
    <2>3. InodeFits(f, i, c, d)
      <3>1. d \in Dins /\ SameBlocks(d, Din(f, i))
        BY <1>0, <1>3, <2>1, SoundNode DEF Nodes, SameBlocks
      <3> QED
        BY <2>1, <3>1, SoundNode DEF InodeFits
    <2>4. h[i] = 0 /\ w1[i] = 0
      BY <1>0, <1>2, <1>3, <1>8, <1>10
    <2>5. IF c # NoNode THEN c.ref >= h[i] + w1[i] /\ c.open = h[i]
                        ELSE h[i] = 0 /\ w1[i] = 0
      BY <2>1, <2>4
    <2>6. \A j \in Inos \ {i} : h[j] = h[j] /\ w1[j] = w[j]
      BY <1>2
    <2>7. h \in [Inos -> Nat] /\ w1 \in [Inos -> Nat]
      BY <1>0, <1>2
    <2> HIDE <2>1
    <2>8. Sound(g, h, w1)
      BY <2>2, <2>3, <2>5, <2>6, <2>7, SoundWrite
    <2> QED
      BY <1>1, <2>8
  <1> QED
    BY <1>9, <1>10

(* sfs_fsync of an inode that has become n.                                *)
Synced(n) == IF n.dirty THEN [n EXCEPT !.dirty = FALSE] ELSE n
SyncedDisk(f, i, n) == IF n.dirty THEN n.din ELSE f.disk[i]
WithCache(f, i, n) == [f EXCEPT !.cache = [f.cache EXCEPT ![i] = n]]

LEMMA FsyncIs ==
  ASSUME NEW f \in Mounts, NEW i \in Inos, NEW n, n.dirty \in BOOLEAN,
         NEW q, q = WithCache(f, i, n), NEW g, g = sfs_fsync(q, i)
  PROVE  g = Wrote(f, i, Synced(n), SyncedDisk(f, i, n))
  <1>1. Fields(f)
    BY DEF Mounts, Fields
  <1>2. PICK nc : nc = [f.cache EXCEPT ![i] = n]
    OBVIOUS
  <1>3. q = [f EXCEPT !.cache = nc]
    BY <1>2 DEF WithCache
  <1>4. /\ Fields(q) /\ q.cache = nc /\ q.disk = f.disk /\ q.cache[i] = n
    BY <1>1, <1>2, <1>3 DEF Fields, Mounts
  <1>5. CASE ~n.dirty
    <2>1. g = q
      BY <1>4, <1>5 DEF sfs_fsync
    <2>2. g = Wrote(f, i, n, f.disk[i])
      BY <2>1, CacheWrite DEF WithCache
    <2> QED
      BY <1>5, <2>2 DEF Synced, SyncedDisk
  <1>6. CASE n.dirty
    <2>1. PICK m, mc, nd : m = [n EXCEPT !.dirty = FALSE] /\ mc = [f.cache EXCEPT ![i] = m]
                           /\ nd = [f.disk EXCEPT ![i] = n.din]
      OBVIOUS
    <2>2. g = [q EXCEPT !.disk[i] = n.din, !.cache[i].dirty = FALSE]
      BY <1>4, <1>6 DEF sfs_fsync
    <2>3. [nc EXCEPT ![i] = m] = mc
      BY <1>2, <2>1 DEF Mounts
    <2>4. g = [q EXCEPT !.disk = nd, !.cache = mc]
      BY <1>4, <2>1, <2>2, <2>3 DEF Fields
    <2>5. g = [f EXCEPT !.cache = mc, !.disk = nd]
      BY ONLY <1>1, <1>3, <1>4, <2>4 DEF Fields
    <2> QED
      BY <1>6, <2>1, <2>5 DEF Wrote, Synced, SyncedDisk
  <1> QED
    BY <1>5, <1>6

LEMMA SyncedFits ==
  ASSUME NEW f, NEW h, NEW w, Sound(f, h, w), NEW i \in Inos, Cached(f, i),
         NEW n \in Nodes, n.dirty = f.cache[i].dirty, n.din = f.cache[i].din
  PROVE  /\ InodeFits(f, i, Synced(n), SyncedDisk(f, i, n))
         /\ Synced(n) \in Nodes /\ Synced(n).ref = n.ref /\ Synced(n).open = n.open
         /\ Synced(n) # NoNode
  <1>1. PICK m, d : m = Synced(n) /\ d = SyncedDisk(f, i, n)
    OBVIOUS
  <1>2. m \in Nodes /\ m.ref = n.ref /\ m.open = n.open /\ m.din = n.din
        /\ (m.dirty => n.dirty) /\ (n.dirty => ~m.dirty)
    BY <1>1 DEF Synced, Nodes
  <1>3. m # NoNode
    BY <1>2 DEF Nodes, NoNode
  <1>4. d \in Dins /\ (n.dirty => d = n.din) /\ (~n.dirty => d = f.disk[i])
    BY <1>1, SoundNode DEF SyncedDisk, Nodes
  <1>5. InodeFits(f, i, m, d)
    BY <1>2, <1>3, <1>4, SoundNode DEF InodeFits, SameBlocks
  <1> QED
    BY <1>1, <1>2, <1>3, <1>5

LEMMA Fsync ==
  ASSUME NEW f, NEW h, NEW w, Sound(f, h, w), NEW i \in Inos, Cached(f, i),
         NEW g, g = sfs_fsync(f, i)
  PROVE  Sound(g, h, w)
  <1>1. /\ w \in [Inos -> Nat] /\ h \in [Inos -> Nat]
        /\ f.cache[i].ref >= h[i] + w[i] /\ f.cache[i].open = h[i]
        /\ f \in Mounts /\ Fields(f) /\ f.cache[i] \in Nodes
    BY SoundNode
  <1>2. PICK n : n = f.cache[i]
    OBVIOUS
  <1>3. f = WithCache(f, i, n)
    <2>1. [f.cache EXCEPT ![i] = n] = f.cache
      BY <1>1, <1>2 DEF Mounts
    <2> QED
      BY <1>1, <2>1 DEF Mounts, WithCache
  <1>4. PICK c, d : c = Synced(n) /\ d = SyncedDisk(f, i, n)
    OBVIOUS
  <1>5. g = Wrote(f, i, c, d)
    <2>1. n.dirty \in BOOLEAN
      BY <1>1, <1>2 DEF Nodes
    <2> QED
      BY <1>1, <1>3, <1>4, <2>1, FsyncIs
  <1>6. InodeFits(f, i, c, d) /\ c.ref = f.cache[i].ref /\ c.open = f.cache[i].open /\ c # NoNode
    BY <1>1, <1>2, <1>4, SyncedFits
  <1>7. /\ c.ref >= h[i] + w[i] /\ c.open = h[i]
    BY <1>1, <1>6
  <1> QED
    BY <1>1, <1>5, <1>6, <1>7, SoundWrite

(* The last close writes the inode.                                        *)
LEMMA OpenDec ==
  ASSUME NEW f, NEW h, NEW w, Sound(f, h, w), NEW i \in Inos, h[i] > 0,
         NEW g, g = inode_open_dec(f, i)
  PROVE  Sound(g, Less(h, i), More(w, i))
  <1>1. /\ w \in [Inos -> Nat] /\ h \in [Inos -> Nat] /\ Cached(f, i)
        /\ f.cache[i].ref >= h[i] + w[i] /\ f.cache[i].open = h[i]
        /\ f \in Mounts /\ Fields(f) /\ f.cache[i] \in Nodes
    BY SoundNode
  <1>2. PICK n, h1, w1 : n = [f.cache[i] EXCEPT !.open = @ - 1]
                         /\ h1 = Less(h, i) /\ w1 = More(w, i)
    OBVIOUS
  <1>3. /\ w1 \in [Inos -> Nat] /\ w1[i] = w[i] + 1 /\ h1 \in [Inos -> Nat] /\ h1[i] = h[i] - 1
        /\ \A j \in Inos \ {i} : h1[j] = h[j] /\ w1[j] = w[j]
    BY <1>1, <1>2, CountsAre
  <1>4. /\ n \in Nodes /\ n.ref = f.cache[i].ref /\ n.open = f.cache[i].open - 1
        /\ n.dirty = f.cache[i].dirty /\ n.din = f.cache[i].din
    BY <1>1, <1>2 DEF Nodes
  <1>5. PICK q : q = [f EXCEPT !.cache[i].open = @ - 1]
    OBVIOUS
  <1>6. q = WithCache(f, i, n)
    <2>1. q = [f EXCEPT !.cache = [f.cache EXCEPT ![i] = n]]
      BY ONLY <1>1, <1>2, <1>5 DEF Fields
    <2> QED
      BY <2>1 DEF WithCache
  <1>7. q.cache[i] = n
    BY <1>1, <1>6 DEF WithCache, Mounts
  <1>8. g = IF n.open = 0 THEN sfs_fsync(q, i) ELSE q
    BY <1>5, <1>7 DEF inode_open_dec
  <1>9. n.ref >= h1[i] + w1[i] /\ n.open = h1[i]
    <2>1. h[i] \in Nat /\ w[i] \in Nat /\ f.cache[i].ref \in Nat
      BY <1>1 DEF Nodes
    <2> QED
      BY <1>1, <1>3, <1>4, <2>1
  <1>10. CASE n.open # 0
    <2>1. PICK d : d = f.disk[i]
      OBVIOUS
    <2>2. g = Wrote(f, i, n, d)
      BY <1>1, <1>6, <1>8, <1>10, <2>1, CacheWrite DEF WithCache
    <2>3. n # NoNode
      BY <1>4 DEF Nodes, NoNode
    <2>4. InodeFits(f, i, n, d)
      BY <1>1, <1>4, <2>1, <2>3, SoundNode DEF InodeFits, SameBlocks
    <2>5. Sound(g, h1, w1)
      BY <1>1, <1>3, <1>9, <2>2, <2>3, <2>4, SoundWrite
    <2> QED
      BY <1>2, <2>5
  <1>11. CASE n.open = 0
    <2>1. PICK c, d : c = Synced(n) /\ d = SyncedDisk(f, i, n)
      OBVIOUS
    <2>2. g = Wrote(f, i, c, d)
      <3>1. g = sfs_fsync(q, i) /\ n.dirty \in BOOLEAN
        BY <1>4, <1>8, <1>11 DEF Nodes
      <3> QED
        BY <1>1, <1>6, <2>1, <3>1, FsyncIs
    <2>3. InodeFits(f, i, c, d) /\ c.ref = n.ref /\ c.open = n.open /\ c # NoNode
      BY <1>1, <1>4, <2>1, SyncedFits
    <2>4. c.ref >= h1[i] + w1[i] /\ c.open = h1[i]
      BY <1>9, <2>3
    <2>5. Sound(g, h1, w1)
      BY <1>1, <1>3, <2>2, <2>3, <2>4, SoundWrite
    <2> QED
      BY <1>2, <2>5
  <1> QED
    BY <1>10, <1>11

LEMMA Close ==
  ASSUME NEW f, NEW h, NEW w, Sound(f, h, w), NEW i \in Inos, h[i] > 0,
         NEW g, g = vfs_close(f, i)
  PROVE  Sound(g, Less(h, i), w)
  <1>1. PICK q, h1, w1 : q = inode_open_dec(f, i) /\ h1 = Less(h, i) /\ w1 = More(w, i)
    OBVIOUS
  <1>2. Sound(q, h1, w1)
    BY <1>1, OpenDec
  <1>3. w \in [Inos -> Nat]
    BY SoundNode
  <1>4. w1[i] = w[i] + 1 /\ Less(w1, i) = w
    BY <1>1, <1>3, CountsAre
  <1>5. w1[i] > 0 /\ g = inode_ref_dec(q, i)
    BY <1>1, <1>3, <1>4 DEF vfs_close
  <1>6. Sound(g, h1, Less(w1, i))
    BY <1>2, <1>5, RefDec
  <1> QED
    BY <1>1, <1>4, <1>6

LEMMA OneMore ==
  ASSUME NEW f, NEW h, NEW w, Sound(f, h, w), NEW i \in Inos, Cached(f, i),
         NEW g, g = DupInc(f, i)
  PROVE  Sound(g, More(h, i), w) /\ Cached(g, i)
  <1>1. PICK q, w1 : q = inode_ref_inc(f, i) /\ w1 = More(w, i)
    OBVIOUS
  <1>2. Sound(q, h, w1)
    BY <1>1, RefInc
  <1>3. w \in [Inos -> Nat]
    BY SoundNode
  <1>4. w1[i] = w[i] + 1 /\ Less(w1, i) = w
    BY <1>1, <1>3, CountsAre
  <1>5. w1[i] > 0 /\ g = inode_open_inc(q, i)
    BY <1>1, <1>3, <1>4 DEF DupInc
  <1>6. Sound(g, More(h, i), Less(w1, i)) /\ Cached(g, i)
    BY <1>2, <1>5, OpenInc
  <1> QED
    BY <1>4, <1>6

LEMMA LoadInode ==
  ASSUME NEW f, NEW h, NEW w, Sound(f, h, w), NEW i \in Inos,
         NEW g, g = sfs_load_inode(f, i)
  PROVE  Sound(g, h, More(w, i)) /\ Cached(g, i)
  <1>1. CASE Cached(f, i)
    <2>1. g = inode_ref_inc(f, i)
      BY <1>1 DEF sfs_load_inode
    <2> QED
      BY <1>1, <2>1, RefInc
  <1>2. CASE ~Cached(f, i)
    <2>1. PICK d, c, w1 : /\ d = f.disk[i] /\ w1 = More(w, i)
                          /\ c = [ref |-> 1, open |-> 0, dirty |-> FALSE, din |-> d]
      OBVIOUS
    <2>2. /\ w \in [Inos -> Nat] /\ h \in [Inos -> Nat] /\ f \in Mounts /\ Fields(f)
          /\ d \in Dins /\ Din(f, i) = d /\ h[i] = 0 /\ w[i] = 0
      BY <1>2, <2>1, SoundNode
    <2>3. g = Wrote(f, i, c, d)
      <3>1. g = [f EXCEPT !.cache[i] = c]
        BY <1>2, <2>1 DEF sfs_load_inode
      <3>2. g = [f EXCEPT !.cache = [f.cache EXCEPT ![i] = c]]
        BY ONLY <2>2, <3>1 DEF Fields
      <3>3. g = Wrote(f, i, c, f.disk[i])
        BY <2>2, <3>2, CacheWrite
      <3>4. d = f.disk[i]
        BY <2>1
      <3> QED
        BY <3>3, <3>4
    <2>4. c \in Nodes /\ c.ref = 1 /\ c.open = 0 /\ c.din = d
      BY <2>1, <2>2 DEF Nodes
    <2>5. c # NoNode
      BY <2>4 DEF Nodes, NoNode
    <2>6. InodeFits(f, i, c, d)
      BY <2>2, <2>4, <2>5, SoundNode DEF InodeFits, SameBlocks
    <2>7. /\ w1 \in [Inos -> Nat] /\ w1[i] = w[i] + 1
          /\ \A j \in Inos \ {i} : w1[j] = w[j]
      BY <2>1, <2>2, CountsAre
    <2>8. c.ref >= h[i] + w1[i] /\ c.open = h[i]
      BY <2>2, <2>4, <2>7
    <2>9. Sound(g, h, w1)
      BY <2>2, <2>3, <2>5, <2>6, <2>7, <2>8, SoundWrite
    <2>10. g.cache[i] = c
      BY <2>3, <2>6, InodeWrite
    <2> QED
      BY <2>1, <2>5, <2>9, <2>10 DEF Cached
  <1> QED
    BY <1>1, <1>2

(* A reference may be forgotten.                                           *)
LEMMA Forget ==
  ASSUME NEW f, NEW h, NEW w, Sound(f, h, w), NEW i \in Inos, w[i] > 0
  PROVE  Sound(f, h, Less(w, i))
  <1>1. PICK w1 : w1 = Less(w, i)
    OBVIOUS
  <1>2. /\ w \in [Inos -> Nat] /\ h \in [Inos -> Nat] /\ Cached(f, i)
        /\ f.cache[i].ref >= h[i] + w[i]  /\ f.cache[i] \in Nodes
    BY SoundNode
  <1>3. w1 \in [Inos -> Nat] /\ w1[i] = w[i] - 1 /\ \A j \in Inos \ {i} : w1[j] = w[j]
    BY <1>1, <1>2, CountsAre
  <1>4. f.cache[i].ref >= h[i] + w1[i]
    <2>1. h[i] \in Nat /\ w[i] \in Nat /\ f.cache[i].ref \in Nat
      BY <1>2 DEF Nodes
    <2> QED
      BY <1>2, <1>3, <2>1
  <1>5. Counted(f, h, w1)
    BY <1>2, <1>3, <1>4 DEF Sound, Counted
  <1> QED
    BY <1>1, <1>5 DEF Sound
-----------------------------------------------------------------------------
(* The tables.                                                             *)
LEMMA FdConstants ==
  /\ NFD \in Nat \ {0} /\ Fds = 0..(NFD - 1) /\ FirstFd \in Fds /\ Positions \subseteq Nat
  /\ IsFiniteSet(Procs) /\ IsFiniteSet(Fds) /\ IsFiniteSet(Procs \X Fds)
  /\ FD_NONE.node = None /\ None \notin Inos
  /\ \A e \in FdEntries : e # FD_NONE => e.node \in Inos /\ e.pos \in Nat /\ e.writable \in BOOLEAN
  /\ FD_NONE \in FdEntries /\ NoFiles \in [Fds -> FdEntries]
  <1>1. /\ NFD \in Nat \ {0} /\ Fds = 0..(NFD - 1) /\ FirstFd \in Fds /\ Positions \subseteq Nat
        /\ IsFiniteSet(Procs)
    BY FilesAssumption DEF Fds
  <1>2. IsFiniteSet(Fds) /\ IsFiniteSet(Procs \X Fds)
    <2>1. 0 \in Int /\ NFD - 1 \in Int
      BY <1>1
    <2>2. IsFiniteSet(Fds)
      BY <1>1, <2>1, FS_Interval
    <2> QED
      BY <1>1, <2>2, FS_Product
  <1>3. None \notin Inos
    BY FsConstants
  <1> QED
    BY <1>1, <1>2, <1>3 DEF FD_NONE, FdEntries, NoFiles

LEMMA HoldersAre ==
  ASSUME NEW t
  PROVE  HoldersOf(t) \in [Inos -> Nat]
         /\ \A i \in Inos : IsFiniteSet(HeldBy(t, i))
  <1>1. \A i \in Inos : IsFiniteSet(HeldBy(t, i)) /\ Cardinality(HeldBy(t, i)) \in Nat
    <2> TAKE i \in Inos
    <2>1. HeldBy(t, i) \subseteq Procs \X Fds
      BY DEF HeldBy
    <2> QED
      BY <2>1, FdConstants, FS_Subset, FS_CardinalityType
  <1> QED
    BY <1>1 DEF HoldersOf

FdSet(t, p, k, e) == [t EXCEPT ![p] = [t[p] EXCEPT ![k] = e]]

(* A descriptor is opened.                                                 *)
LEMMA HoldMore ==
  ASSUME NEW t \in Tables, NEW p \in Procs, NEW k \in Fds, t[p][k] = FD_NONE,
         NEW e \in FdEntries, NEW i \in Inos, e.node = i,
         NEW u, u = FdSet(t, p, k, e)
  PROVE  u \in Tables /\ HoldersOf(u) = More(HoldersOf(t), i)
  <1>1. /\ u \in Tables /\ u[p][k] = e
        /\ \A x \in Procs \X Fds : x # <<p, k>> => u[x[1]][x[2]] = t[x[1]][x[2]]
    BY DEF Tables, FdSet
  <1>2. HeldBy(u, i) = HeldBy(t, i) \cup {<<p, k>>} /\ <<p, k>> \notin HeldBy(t, i)
    BY <1>1, FdConstants DEF HeldBy
  <1>3. \A j \in Inos \ {i} : HeldBy(u, j) = HeldBy(t, j)
    <2> TAKE j \in Inos \ {i}
    <2>1. \A x \in Procs \X Fds : u[x[1]][x[2]].node = j <=> t[x[1]][x[2]].node = j
      BY <1>1, FdConstants
    <2> QED
      BY <2>1 DEF HeldBy
  <1>4. Cardinality(HeldBy(u, i)) = Cardinality(HeldBy(t, i)) + 1
    BY <1>2, HoldersAre, FS_AddElement
  <1>5. HoldersOf(u) = [HoldersOf(t) EXCEPT ![i] = @ + 1]
    BY <1>3, <1>4 DEF HoldersOf
  <1> QED
    BY <1>1, <1>5 DEF More

(* A descriptor is closed.                                                 *)
LEMMA HoldLess ==
  ASSUME NEW t \in Tables, NEW p \in Procs, NEW k \in Fds, NEW i \in Inos, t[p][k].node = i,
         NEW u, u = FdSet(t, p, k, FD_NONE)
  PROVE  u \in Tables /\ HoldersOf(u) = Less(HoldersOf(t), i) /\ HoldersOf(t)[i] > 0
  <1>1. u \in Tables /\ u[p][k] = FD_NONE
    BY FdConstants DEF Tables, FdSet
  <1>2. PICK e \in FdEntries : e = t[p][k]
    BY DEF Tables
  <1>3. t = FdSet(u, p, k, e)
    <2>1. u[p] = [t[p] EXCEPT ![k] = FD_NONE] /\ t[p] \in [Fds -> FdEntries]
      BY DEF Tables, FdSet
    <2>2. [u[p] EXCEPT ![k] = e] = t[p]
      BY <1>2, <2>1
    <2>3. [u EXCEPT ![p] = t[p]] = t
      BY <1>1 DEF Tables, FdSet
    <2> QED
      BY <2>2, <2>3 DEF FdSet
  <1>4. HoldersOf(t) = More(HoldersOf(u), i)
    <2>1. e.node = i
      BY <1>2
    <2> QED
      BY <1>1, <1>3, <2>1, HoldMore
  <1>5. PICK h : h = HoldersOf(u)
    OBVIOUS
  <1>6. h \in [Inos -> Nat]
    BY <1>5, HoldersAre
  <1>7. Less(More(h, i), i) = h /\ More(h, i)[i] > 0
    <2>1. h[i] \in Nat /\ More(h, i)[i] = h[i] + 1 /\ Less(More(h, i), i) = h
      BY <1>6, CountsAre
    <2> QED
      BY <2>1
  <1>8. HoldersOf(t) = More(h, i)
    BY <1>4, <1>5
  <1> QED
    BY <1>1, <1>5, <1>7, <1>8

LEMMA HoldSame ==
  ASSUME NEW t, NEW u, \A x \in Procs \X Fds : u[x[1]][x[2]].node = t[x[1]][x[2]].node
  PROVE  HoldersOf(u) = HoldersOf(t)
  <1>1. \A i \in Inos : HeldBy(u, i) = HeldBy(t, i)
    BY DEF HeldBy
  <1> QED
    BY <1>1 DEF HoldersOf

(* A process gets, or loses, a current directory.                          *)
CwdSet(t, p, i) == [t EXCEPT ![p] = i]
InDir(t, i) == {p \in Procs : t[p] = i}

LEMMA CwdsAre ==
  ASSUME NEW t
  PROVE  /\ CwdsOf(t) \in [Inos -> Nat]
         /\ \A i \in Inos : IsFiniteSet(InDir(t, i)) /\ Cardinality(InDir(t, i)) \in Nat
         /\ CwdsOf(t) = [i \in Inos |-> Cardinality(InDir(t, i)) + (IF i = Root THEN 1 ELSE 0)]
  <1>1. \A i \in Inos : IsFiniteSet(InDir(t, i)) /\ Cardinality(InDir(t, i)) \in Nat
    <2> TAKE i \in Inos
    <2>1. InDir(t, i) \subseteq Procs
      BY DEF InDir
    <2> QED
      BY <2>1, FdConstants, FS_Subset, FS_CardinalityType
  <1>2. CwdsOf(t) = [i \in Inos |-> Cardinality(InDir(t, i)) + (IF i = Root THEN 1 ELSE 0)]
    BY DEF CwdsOf, InDir
  <1> QED
    BY <1>1, <1>2

LEMMA CwdMore ==
  ASSUME NEW t \in Pwds, NEW p \in Procs, t[p] = None, NEW i \in Inos,
         NEW u, u = CwdSet(t, p, i)
  PROVE  u \in Pwds /\ CwdsOf(u) = More(CwdsOf(t), i)
  <1>1. u \in Pwds /\ u[p] = i /\ \A q \in Procs \ {p} : u[q] = t[q]
    BY DEF Pwds, CwdSet
  <1>2. InDir(u, i) = InDir(t, i) \cup {p} /\ p \notin InDir(t, i)
    BY <1>1, FdConstants DEF InDir
  <1>3. \A j \in Inos \ {i} : InDir(u, j) = InDir(t, j)
    BY <1>1, FdConstants DEF InDir
  <1>4. Cardinality(InDir(u, i)) = Cardinality(InDir(t, i)) + 1
    BY <1>2, CwdsAre, FS_AddElement
  <1>5. CwdsOf(u) = [CwdsOf(t) EXCEPT ![i] = @ + 1]
    <2>1. PICK c, d : c = CwdsOf(t) /\ d = CwdsOf(u)
      OBVIOUS
    <2>2. c \in [Inos -> Nat] /\ d \in [Inos -> Nat]
      BY <2>1, CwdsAre
    <2>3. d[i] = c[i] + 1
      BY <1>4, <2>1, CwdsAre
    <2>4. \A j \in Inos \ {i} : d[j] = c[j]
      <3> TAKE j \in Inos \ {i}
      <3>1. /\ CwdsOf(t)[j] = Cardinality(InDir(t, j)) + (IF j = Root THEN 1 ELSE 0)
            /\ CwdsOf(u)[j] = Cardinality(InDir(u, j)) + (IF j = Root THEN 1 ELSE 0)
        BY Zenon DEF CwdsOf, InDir
      <3>2. Cardinality(InDir(t, j)) = Cardinality(InDir(u, j))
        BY <1>3
      <3> QED
        BY <2>1, <3>1, <3>2, Zenon
    <2>5. d = [c EXCEPT ![i] = @ + 1]
      BY <2>2, <2>3, <2>4
    <2> QED
      BY <2>1, <2>5
  <1> QED
    BY <1>1, <1>5 DEF More

LEMMA CwdLess ==
  ASSUME NEW t \in Pwds, NEW p \in Procs, NEW i \in Inos, t[p] = i,
         NEW u, u = CwdSet(t, p, None)
  PROVE  u \in Pwds /\ CwdsOf(u) = Less(CwdsOf(t), i) /\ CwdsOf(t)[i] > 0
  <1>1. u \in Pwds /\ u[p] = None
    BY DEF Pwds, CwdSet
  <1>2. t = CwdSet(u, p, i)
    BY <1>1 DEF Pwds, CwdSet
  <1>3. CwdsOf(t) = More(CwdsOf(u), i)
    BY <1>1, <1>2, CwdMore
  <1>4. PICK h : h = CwdsOf(u)
    OBVIOUS
  <1>5. h \in [Inos -> Nat]
    BY <1>4, CwdsAre
  <1>6. Less(More(h, i), i) = h /\ More(h, i)[i] > 0
    <2>1. h[i] \in Nat /\ More(h, i)[i] = h[i] + 1 /\ Less(More(h, i), i) = h
      BY <1>5, CountsAre
    <2> QED
      BY <2>1
  <1>7. CwdsOf(t) = More(h, i)
    BY <1>3, <1>4
  <1> QED
    BY <1>1, <1>4, <1>6, <1>7
-----------------------------------------------------------------------------
(* The loops over the table of a process, entry by entry.                  *)
CloseOne(f, p, ks, k) == IF k - 1 \in ks THEN vfs_close(f, fd[p][k - 1].node) ELSE f

LEMMA CloseAllIs ==
  ASSUME NEW f, NEW p, NEW ks
  PROVE  \E w : /\ CloseAll(f, p, ks) = w[NFD] /\ w[0] = f
                \* the k-th entry of the table
                /\ \A k \in 1..NFD : w[k] = CloseOne(w[k - 1], p, ks, k)
  <1> DEFINE G(g, m) == [k \in 0..m |-> IF k = 0 THEN f ELSE CloseOne(g[k - 1], p, ks, k)]
             T == {m \in 0..NFD : \E g : g = G(g, m)}
  <1>0. NFD \in Nat
    BY FdConstants
  <1>1. 0 \in T
    <2>1. PICK g : g = [k \in 0..0 |-> f]
      OBVIOUS
    <2>2. G(g, 0) = [k \in 0..0 |-> f]
      OBVIOUS
    <2>3. 0 \in 0..NFD /\ \E h : h = G(h, 0)
      BY <1>0, <2>1, <2>2
    <2> QED
      BY <2>3
  <1>2. ASSUME NEW m \in 1..NFD, m - 1 \in T PROVE m \in T
    <2>1. PICK g : g = G(g, m - 1)
      BY <1>2
    <2> DEFINE h == [k \in 0..m |-> IF k = 0 THEN f ELSE CloseOne(g[k - 1], p, ks, k)]
    <2>2. \A k \in 0..(m - 1) : h[k] = g[k]
      BY <1>0, <2>1
    <2>3. \A k \in 0..m : k # 0 => k - 1 \in 0..(m - 1)
      BY <1>0
    <2>4. h = G(h, m)
      BY <2>2, <2>3
    <2>5. m \in 0..NFD /\ \E a : a = G(a, m)
      <3> HIDE DEF G, h
      <3> QED
        BY <1>0, <2>4
    <2> QED
      BY <2>5
  <1>3. NFD \in T
    <2> HIDE DEF T
    <2>1. \A k \in 0..NFD : k \in T
      BY <1>0, <1>1, <1>2, UpTo
    <2> QED
      BY <1>0, <2>1
  <1>4. PICK g : g = G(g, NFD)
    BY <1>3
  <1>5. CloseAll(f, p, ks) = (CHOOSE a : a = G(a, NFD))[NFD]
    BY DEF CloseAll, CloseOne
  <1>6. PICK w : w = CHOOSE a : a = G(a, NFD)
    OBVIOUS
  <1>7. w = G(w, NFD)
    <2> HIDE DEF G, T
    <2> QED
      BY <1>4, <1>6
  <1> HIDE <1>5, <1>6
  <1>8. w[0] = f /\ \A k \in 1..NFD : w[k] = CloseOne(w[k - 1], p, ks, k)
    BY <1>0, <1>7
  <1>9. CloseAll(f, p, ks) = w[NFD]
    BY <1>5, <1>6
  <1> HIDE DEF G, T
  <1> QED
    BY <1>8, <1>9

DupOne(f, p, ks, k) == IF k - 1 \in ks THEN DupInc(f, fd[p][k - 1].node) ELSE f

LEMMA DupAllIs ==
  ASSUME NEW f, NEW p, NEW ks
  PROVE  \E w : /\ DupAll(f, p, ks) = w[NFD] /\ w[0] = f
                \* the k-th entry of the table
                /\ \A k \in 1..NFD : w[k] = DupOne(w[k - 1], p, ks, k)
  <1> DEFINE G(g, m) == [k \in 0..m |-> IF k = 0 THEN f ELSE DupOne(g[k - 1], p, ks, k)]
             T == {m \in 0..NFD : \E g : g = G(g, m)}
  <1>0. NFD \in Nat
    BY FdConstants
  <1>1. 0 \in T
    <2>1. PICK g : g = [k \in 0..0 |-> f]
      OBVIOUS
    <2>2. G(g, 0) = [k \in 0..0 |-> f]
      OBVIOUS
    <2>3. 0 \in 0..NFD /\ \E h : h = G(h, 0)
      BY <1>0, <2>1, <2>2
    <2> QED
      BY <2>3
  <1>2. ASSUME NEW m \in 1..NFD, m - 1 \in T PROVE m \in T
    <2>1. PICK g : g = G(g, m - 1)
      BY <1>2
    <2> DEFINE h == [k \in 0..m |-> IF k = 0 THEN f ELSE DupOne(g[k - 1], p, ks, k)]
    <2>2. \A k \in 0..(m - 1) : h[k] = g[k]
      BY <1>0, <2>1
    <2>3. \A k \in 0..m : k # 0 => k - 1 \in 0..(m - 1)
      BY <1>0
    <2>4. h = G(h, m)
      BY <2>2, <2>3
    <2>5. m \in 0..NFD /\ \E a : a = G(a, m)
      <3> HIDE DEF G, h
      <3> QED
        BY <1>0, <2>4
    <2> QED
      BY <2>5
  <1>3. NFD \in T
    <2> HIDE DEF T
    <2>1. \A k \in 0..NFD : k \in T
      BY <1>0, <1>1, <1>2, UpTo
    <2> QED
      BY <1>0, <2>1
  <1>4. PICK g : g = G(g, NFD)
    BY <1>3
  <1>5. DupAll(f, p, ks) = (CHOOSE a : a = G(a, NFD))[NFD]
    BY DEF DupAll, DupOne
  <1>6. PICK w : w = CHOOSE a : a = G(a, NFD)
    OBVIOUS
  <1>7. w = G(w, NFD)
    <2> HIDE DEF G, T
    <2> QED
      BY <1>4, <1>6
  <1> HIDE <1>5, <1>6
  <1>8. w[0] = f /\ \A k \in 1..NFD : w[k] = DupOne(w[k - 1], p, ks, k)
    BY <1>0, <1>7
  <1>9. DupAll(f, p, ks) = w[NFD]
    BY <1>5, <1>6
  <1> HIDE DEF G, T
  <1> QED
    BY <1>8, <1>9

(* The table t with the entries ks below k of p closed.                    *)
ClosedTo(t, p, ks, k) ==
  [t EXCEPT ![p] = [m \in Fds |-> IF m \in ks /\ m < k THEN FD_NONE ELSE t[p][m]]]

LEMMA CloseTurn ==
  ASSUME fd \in Tables, NEW p \in Procs, NEW ks \in SUBSET Opened(p), NEW k \in 1..NFD,
         NEW f, NEW w, Sound(f, HoldersOf(ClosedTo(fd, p, ks, k - 1)), w),
         NEW g, g = CloseOne(f, p, ks, k)
  PROVE  Sound(g, HoldersOf(ClosedTo(fd, p, ks, k)), w)
  <1>1. PICK t, u : t = ClosedTo(fd, p, ks, k - 1) /\ u = ClosedTo(fd, p, ks, k)
    OBVIOUS
  <1>2. NFD \in Nat /\ Fds = 0..(NFD - 1) /\ k - 1 \in Fds /\ k \in Nat
    BY FdConstants
  <1>3. \A m \in Fds : m < k <=> m < k - 1 \/ m = k - 1
    BY <1>2
  <1>4. CASE k - 1 \notin ks
    <2>1. u = t
      BY <1>1, <1>3, <1>4 DEF ClosedTo
    <2>2. g = f
      BY <1>4 DEF CloseOne
    <2> QED
      BY <1>1, <2>1, <2>2
  <1>5. CASE k - 1 \in ks
    <2>1. PICK i : i = fd[p][k - 1].node
      OBVIOUS
    <2>2. i \in Inos
      <3>1. fd[p][k - 1] # FD_NONE
        BY <1>2, <1>5 DEF Opened
      <3>2. fd[p][k - 1] \in FdEntries
        BY <1>2 DEF Tables
      <3> QED
        BY <2>1, <3>1, <3>2, FdConstants
    <2>3. t \in Tables
      BY <1>1, FdConstants DEF Tables, ClosedTo
    <2>4. t[p][k - 1].node = i
      <3>1. ~(k - 1 < k - 1)
        BY <1>2
      <3>2. t[p] = [m \in Fds |-> IF m \in ks /\ m < k - 1 THEN FD_NONE ELSE fd[p][m]]
        BY <1>1 DEF Tables, ClosedTo
      <3> QED
        BY <1>2, <2>1, <3>1, <3>2
    <2>5. u = FdSet(t, p, k - 1, FD_NONE)
      <3>1. t[p] = [m \in Fds |-> IF m \in ks /\ m < k - 1 THEN FD_NONE ELSE fd[p][m]]
        BY <1>1 DEF Tables, ClosedTo
      <3>2. PICK a, b : /\ a = [m \in Fds |-> IF m \in ks /\ m < k THEN FD_NONE ELSE fd[p][m]]
                        /\ b = [t[p] EXCEPT ![k - 1] = FD_NONE]
        OBVIOUS
      <3>3. a = b
        BY <1>2, <1>3, <1>5, <3>1, <3>2
      <3>4. u = [fd EXCEPT ![p] = a]
        BY <1>1, <3>2 DEF ClosedTo
      <3>5. PICK c : c = [m \in Fds |-> IF m \in ks /\ m < k - 1 THEN FD_NONE ELSE fd[p][m]]
        OBVIOUS
      <3>6. t = [fd EXCEPT ![p] = c]
        BY <1>1, <3>5 DEF ClosedTo
      <3>7. FdSet(t, p, k - 1, FD_NONE) = [t EXCEPT ![p] = b]
        BY <3>2 DEF FdSet
      <3>8. [t EXCEPT ![p] = b] = [fd EXCEPT ![p] = b]
        BY <3>6
      <3> QED
        BY <3>3, <3>4, <3>7, <3>8
    <2>6. PICK h : h = HoldersOf(t)
      OBVIOUS
    <2>7. HoldersOf(u) = Less(h, i) /\ h[i] > 0
      BY <1>2, <2>2, <2>3, <2>4, <2>5, <2>6, HoldLess
    <2>8. Sound(f, h, w)
      BY <1>1, <2>6
    <2>9. g = vfs_close(f, i)
      BY <1>5, <2>1 DEF CloseOne
    <2>10. Sound(g, Less(h, i), w)
      BY <2>2, <2>7, <2>8, <2>9, Close
    <2> QED
      BY <1>1, <2>7, <2>10
  <1> QED
    BY <1>4, <1>5

LEMMA AllClosed ==
  ASSUME fd \in Tables, NEW p \in Procs, NEW ks \in SUBSET Opened(p),
         NEW f, NEW w, Sound(f, HoldersOf(fd), w),
         NEW g, g = CloseAll(f, p, ks)
  PROVE  Sound(g, HoldersOf(ClosedTo(fd, p, ks, NFD)), w)
  <1>1. NFD \in Nat
    BY FdConstants
  <1>2. PICK a : /\ g = a[NFD] /\ a[0] = f
                 /\ \A k \in 1..NFD : a[k] = CloseOne(a[k - 1], p, ks, k)
    BY CloseAllIs
  <1> DEFINE Fine(k) == Sound(a[k], HoldersOf(ClosedTo(fd, p, ks, k)), w)
             T == {k \in 0..NFD : Fine(k)}
  <1>3. Fine(0)
    <2>1. ClosedTo(fd, p, ks, 0) = fd
      <3>1. \A m \in Fds : ~(m < 0)
        BY FdConstants
      <3> QED
        BY <3>1 DEF ClosedTo, Tables
    <2> QED
      BY <1>2, <2>1
  <1>4. ASSUME NEW k \in 1..NFD, Fine(k - 1) PROVE Fine(k)
    <2>1. PICK q, s : q = a[k - 1] /\ s = CloseOne(q, p, ks, k) /\ s = a[k]
      BY <1>2
    <2>2. Sound(q, HoldersOf(ClosedTo(fd, p, ks, k - 1)), w)
      BY <1>4, <2>1
    <2>3. Sound(s, HoldersOf(ClosedTo(fd, p, ks, k)), w)
      BY <2>1, <2>2, CloseTurn
    <2> QED
      BY <2>1, <2>3
  <1> HIDE DEF Fine
  <1>5. 0 \in T /\ \A k \in 1..NFD : k - 1 \in T => k \in T
    BY <1>1, <1>3, <1>4
  <1> HIDE DEF T
  <1>6. \A k \in 0..NFD : k \in T
    BY <1>1, <1>5, UpTo
  <1>7. Fine(NFD)
    BY <1>1, <1>6 DEF T
  <1> QED
    BY <1>2, <1>7 DEF Fine

(* The table t with the entries below k of p in the table of c, too.       *)
DuppedTo(t, p, c, k) ==
  [t EXCEPT ![c] = [m \in Fds |-> IF m < k THEN t[p][m] ELSE FD_NONE]]

LEMMA DupTurn ==
  ASSUME fd \in Tables, NEW p \in Procs, NEW c \in Procs \ {p}, NEW k \in 1..NFD,
         NEW f, NEW w, Sound(f, HoldersOf(DuppedTo(fd, p, c, k - 1)), w),
         NEW g, g = DupOne(f, p, Opened(p), k)
  PROVE  Sound(g, HoldersOf(DuppedTo(fd, p, c, k)), w)
  <1>1. PICK t, u : t = DuppedTo(fd, p, c, k - 1) /\ u = DuppedTo(fd, p, c, k)
    OBVIOUS
  <1>2. NFD \in Nat /\ Fds = 0..(NFD - 1) /\ k - 1 \in Fds /\ k \in Nat
    BY FdConstants
  <1>3. \A m \in Fds : m < k <=> m < k - 1 \/ m = k - 1
    BY <1>2
  <1>4. /\ t \in Tables /\ t[p] = fd[p]
        /\ t[c] = [m \in Fds |-> IF m < k - 1 THEN fd[p][m] ELSE FD_NONE]
    BY <1>1, FdConstants DEF Tables, DuppedTo
  <1>5. PICK e \in FdEntries : e = fd[p][k - 1]
    BY <1>2 DEF Tables
  <1>6. u = FdSet(t, c, k - 1, e)
    <2>1. PICK a, b, d : /\ a = [m \in Fds |-> IF m < k THEN fd[p][m] ELSE FD_NONE]
                         /\ b = [t[c] EXCEPT ![k - 1] = e]
                         /\ d = [m \in Fds |-> IF m < k - 1 THEN fd[p][m] ELSE FD_NONE]
      OBVIOUS
    <2>2. a = b
      BY <1>2, <1>3, <1>4, <1>5, <2>1
    <2>3. u = [fd EXCEPT ![c] = a] /\ t = [fd EXCEPT ![c] = d]
      BY <1>1, <2>1 DEF DuppedTo
    <2>4. FdSet(t, c, k - 1, e) = [t EXCEPT ![c] = b]
      BY <2>1 DEF FdSet
    <2>5. [t EXCEPT ![c] = b] = [fd EXCEPT ![c] = b]
      BY <2>3
    <2> QED
      BY <2>2, <2>3, <2>4, <2>5
  <1>7. t[c][k - 1] = FD_NONE
    BY <1>2, <1>4
  <1>8. CASE e = FD_NONE
    <2>1. u = t
      <3>1. FdSet(t, c, k - 1, e) = t
        <4>1. [t[c] EXCEPT ![k - 1] = e] = t[c]
          BY <1>4, <1>7, <1>8
        <4> QED
          BY <1>4, <4>1 DEF FdSet, Tables
      <3> QED
        BY <1>6, <3>1
    <2>2. g = f
      BY <1>2, <1>5, <1>8 DEF DupOne, Opened
    <2> QED
      BY <1>1, <2>1, <2>2
  <1>9. CASE e # FD_NONE
    <2>1. PICK i : i = e.node
      OBVIOUS
    <2>2. i \in Inos
      BY <1>9, <2>1, FdConstants
    <2>3. PICK h : h = HoldersOf(t)
      OBVIOUS
    <2>4. HoldersOf(u) = More(h, i)
      BY <1>2, <1>4, <1>6, <1>7, <2>1, <2>2, <2>3, HoldMore
    <2>5. h[i] > 0
      <3>1. PICK v : v = FdSet(t, p, k - 1, FD_NONE)
        OBVIOUS
      <3>2. t[p][k - 1].node = i
        BY <1>4, <1>5, <2>1
      <3> QED
        BY <1>2, <1>4, <2>2, <2>3, <3>1, <3>2, HoldLess
    <2>6. Sound(f, h, w)
      BY <1>1, <2>3
    <2>7. Cached(f, i)
      <3>1. h[i] # 0
        BY <2>5
      <3> QED
        BY <2>2, <2>6, <3>1, SoundNode
    <2>8. g = DupInc(f, i)
      BY <1>2, <1>5, <1>9, <2>1 DEF DupOne, Opened
    <2>9. Sound(g, More(h, i), w)
      BY <2>2, <2>6, <2>7, <2>8, OneMore
    <2> QED
      BY <1>1, <2>4, <2>9
  <1> QED
    BY <1>8, <1>9

LEMMA AllDupped ==
  ASSUME fd \in Tables, NEW p \in Procs, NEW c \in Procs \ {p}, fd[c] = NoFiles,
         NEW f, NEW w, Sound(f, HoldersOf(fd), w),
         NEW g, g = DupAll(f, p, Opened(p))
  PROVE  Sound(g, HoldersOf(DuppedTo(fd, p, c, NFD)), w)
  <1>1. NFD \in Nat
    BY FdConstants
  <1>2. PICK a : /\ g = a[NFD] /\ a[0] = f
                 /\ \A k \in 1..NFD : a[k] = DupOne(a[k - 1], p, Opened(p), k)
    BY DupAllIs
  <1> DEFINE Fine(k) == Sound(a[k], HoldersOf(DuppedTo(fd, p, c, k)), w)
             T == {k \in 0..NFD : Fine(k)}
  <1>3. Fine(0)
    <2>1. DuppedTo(fd, p, c, 0) = fd
      <3>1. \A m \in Fds : ~(m < 0)
        BY FdConstants
      <3>2. [m \in Fds |-> IF m < 0 THEN fd[p][m] ELSE FD_NONE] = fd[c]
        BY <3>1 DEF NoFiles
      <3> QED
        BY <3>2 DEF DuppedTo, Tables
    <2> QED
      BY <1>2, <2>1
  <1>4. ASSUME NEW k \in 1..NFD, Fine(k - 1) PROVE Fine(k)
    <2>1. PICK q, s : q = a[k - 1] /\ s = DupOne(q, p, Opened(p), k) /\ s = a[k]
      BY <1>2
    <2>2. Sound(q, HoldersOf(DuppedTo(fd, p, c, k - 1)), w)
      BY <1>4, <2>1
    <2>3. Sound(s, HoldersOf(DuppedTo(fd, p, c, k)), w)
      BY <2>1, <2>2, DupTurn
    <2> QED
      BY <2>1, <2>3
  <1> HIDE DEF Fine
  <1>5. 0 \in T /\ \A k \in 1..NFD : k - 1 \in T => k \in T
    BY <1>1, <1>3, <1>4
  <1> HIDE DEF T
  <1>6. \A k \in 0..NFD : k \in T
    BY <1>1, <1>5, UpTo
  <1>7. Fine(NFD)
    BY <1>1, <1>6 DEF T
  <1> QED
    BY <1>2, <1>7 DEF Fine
-----------------------------------------------------------------------------
(* vfs_open has the reference of the lookup: it becomes the open file's,   *)
(* or is put, or (with O_EXCL) is lost.                                    *)
LEMMA Opens ==
  ASSUME NEW f, NEW h, NEW w, Sound(f, h, w), NEW i \in Inos, w[i] > 0,
         NEW cw, NEW tr, NEW cr, NEW ex, NEW ap,
         NEW r, r = vfs_open(f, i, cw, tr, cr, ex, ap)
  PROVE  /\ r.ok \in BOOLEAN
         /\ Quiet(r.fs) /\ r.ok => Sound(r.fs, More(h, i), Less(w, i)) /\ Cached(r.fs, i)
         /\ Quiet(r.fs) /\ ~r.ok => Sound(r.fs, h, Less(w, i))
  <1>1. PICK g, h1, w1 : g = inode_open_inc(f, i) /\ h1 = More(h, i) /\ w1 = Less(w, i)
    OBVIOUS
  <1>2. Sound(g, h1, w1) /\ Cached(g, i)
    BY <1>1, OpenInc
  <1>3. CASE ex /\ cr
    <2>1. r = Failed(f)
      BY <1>3, Zenon DEF vfs_open
    <2>2. Sound(f, h, w1)
      BY <1>1, Forget
    <2> QED
      BY <1>1, <2>1, <2>2 DEF Failed
  <1>4. CASE ~(ex /\ cr) /\ i \in Dirs /\ (cw \/ ap)
    <2>1. PICK q : q = inode_ref_dec(f, i)
      OBVIOUS
    <2>2. r = Failed(q)
      BY <1>4, <2>1, Zenon DEF vfs_open
    <2>3. Sound(q, h, w1)
      BY <1>1, <2>1, RefDec
    <2> QED
      BY <1>1, <2>2, <2>3 DEF Failed
  <1>5. CASE ~(ex /\ cr) /\ ~(i \in Dirs /\ (cw \/ ap)) /\ ~(tr \/ cr)
    <2>1. r = Done(g)
      BY <1>1, <1>5, Zenon DEF vfs_open
    <2> QED
      BY <1>1, <1>2, <2>1 DEF Done
  <1>6. CASE ~(ex /\ cr) /\ ~(i \in Dirs /\ (cw \/ ap)) /\ (tr \/ cr) /\ i \in Dirs
    <2>1. PICK q : q = Panic(g, "vop_truncate")
      OBVIOUS
    <2>2. g \in Mounts
      BY <1>2, SoundNode
    <2>3. ~Quiet(q)
      BY <2>1, <2>2, PanicIs
    <2>4. r = Failed(q)
      BY <1>1, <1>6, <2>1, Zenon DEF vfs_open
    <2> HIDE <2>1
    <2> QED
      BY <2>3, <2>4 DEF Failed
  <1>7. CASE ~(ex /\ cr) /\ ~(i \in Dirs /\ (cw \/ ap)) /\ (tr \/ cr) /\ i \notin Dirs
    <2>1. r = sfs_truncfile(g, i, 0)
      BY <1>1, <1>7, Zenon DEF vfs_open
    <2>2. i \in Files /\ Good(g) /\ Quiet(g) /\ Counted(g, h1, w1)
      BY <1>2, <1>7 DEF Inos, Sound
    <2>3. Walking(g, r, i) /\ (r.ok \/ ~Quiet(r.fs))
      BY <1>2, <2>1, <2>2, Truncated
    <2>4. ASSUME Quiet(r.fs) PROVE r.ok /\ Sound(r.fs, h1, w1) /\ Cached(r.fs, i)
      <3>1. Good(r.fs) /\ SameCounts(g, r.fs) /\ Cached(r.fs, i) /\ r.ok
        BY <2>3, <2>4 DEF Walking
      <3>2. Counted(r.fs, h1, w1)
        BY <2>2, <3>1, CountedSame
      <3> QED
        BY <2>4, <3>1, <3>2 DEF Sound
    <2> QED
      BY <1>1, <2>3, <2>4 DEF Walking
  <1> QED
    BY <1>3, <1>4, <1>5, <1>6, <1>7

(* sfs_sync.                                                               *)
SyncedCache(f) == [i \in Inos |-> IF Cached(f, i) THEN [f.cache[i] EXCEPT !.dirty = FALSE]
                                                  ELSE f.cache[i]]
SyncedDins(f) == [i \in Inos |-> IF Cached(f, i) /\ f.cache[i].dirty
                                 THEN f.cache[i].din ELSE f.disk[i]]
SavedMap(f) == IF f.super_dirty THEN [freemap |-> f.freemap, unused |-> f.unused] ELSE f.saved

LEMMA SyncIs ==
  ASSUME NEW f \in Mounts, NEW g, g = sfs_sync(f)
  PROVE  /\ g.cache = SyncedCache(f) /\ g.disk = SyncedDins(f) /\ g.saved = SavedMap(f)
         /\ g.entries = f.entries /\ g.freemap = f.freemap /\ g.unused = f.unused
         /\ g.super_dirty = FALSE /\ g.panic = f.panic /\ Fields(g)
  <1>1. PICK c, d, s : c = SyncedCache(f) /\ d = SyncedDins(f)
                       /\ s = [freemap |-> f.freemap, unused |-> f.unused]
    OBVIOUS
  <1>2. PICK q : q = [f EXCEPT
                        !.disk = [i \in Inos |-> IF Cached(f, i) /\ f.cache[i].dirty
                                                 THEN f.cache[i].din ELSE @[i]],
                        !.cache = [i \in Inos |-> IF Cached(f, i)
                                                  THEN [@[i] EXCEPT !.dirty = FALSE] ELSE @[i]]]
    OBVIOUS
  <1>3. q = [f EXCEPT !.disk = d, !.cache = c]
    <2>1. Fields(f)
      BY DEF Mounts, Fields
    <2> QED
      BY ONLY <1>1, <1>2, <2>1 DEF Fields, SyncedCache, SyncedDins
  <1>4. g = IF f.super_dirty THEN [q EXCEPT !.super_dirty = FALSE, !.saved = s] ELSE q
    BY <1>1, <1>2 DEF sfs_sync
  <1>5. Fields(f) /\ f.super_dirty \in BOOLEAN
    BY DEF Mounts, Fields
  <1>6. s = [freemap |-> f.freemap, unused |-> f.unused]
    BY <1>1
  <1>7. CASE f.super_dirty
    <2>1. g = [f EXCEPT !.disk = d, !.cache = c, !.super_dirty = FALSE, !.saved = s]
      BY ONLY <1>3, <1>4, <1>5, <1>7 DEF Fields
    <2>2. /\ g.cache = c /\ g.disk = d /\ g.saved = s
          /\ g.entries = f.entries /\ g.freemap = f.freemap /\ g.unused = f.unused
          /\ g.super_dirty = FALSE /\ g.panic = f.panic /\ Fields(g)
      BY ONLY <1>5, <2>1 DEF Fields
    <2>3. SavedMap(f) = s
      BY <1>6, <1>7 DEF SavedMap
    <2> QED
      BY <1>1, <2>2, <2>3
  <1>8. CASE ~f.super_dirty
    <2>1. /\ g.cache = c /\ g.disk = d /\ g.saved = f.saved
          /\ g.entries = f.entries /\ g.freemap = f.freemap /\ g.unused = f.unused
          /\ g.super_dirty = f.super_dirty /\ g.panic = f.panic /\ Fields(g)
      BY ONLY <1>3, <1>4, <1>5, <1>8 DEF Fields
    <2>2. SavedMap(f) = f.saved /\ f.super_dirty = FALSE
      BY <1>5, <1>8 DEF SavedMap
    <2> QED
      BY <1>1, <2>1, <2>2
  <1> QED
    BY <1>5, <1>7, <1>8

LEMMA SyncKeeps ==
  ASSUME NEW f, Good(f), NEW g, g = sfs_sync(f)
  PROVE  /\ Good(g) /\ g.panic = f.panic /\ ~g.super_dirty
         /\ \A i \in Inos : /\ Cached(g, i) <=> Cached(f, i)
                            /\ Cached(f, i) => /\ g.cache[i].ref = f.cache[i].ref
                                               /\ g.cache[i].open = f.cache[i].open
         /\ g.disk \in [Inos -> Dins] /\ g.saved.freemap \in SUBSET Data
         /\ Own(Numbers(g.entries, g.disk), g.saved.freemap)
         /\ g.saved.unused = Cardinality(g.saved.freemap)
  <1>1. f \in Mounts /\ Clean(f)
    BY DEF Good
  <1>2. PICK c, d : c = SyncedCache(f) /\ d = SyncedDins(f)
    OBVIOUS
  <1>3. /\ g.cache = c /\ g.disk = d /\ g.saved = SavedMap(f)
        /\ g.entries = f.entries /\ g.freemap = f.freemap /\ g.unused = f.unused
        /\ g.super_dirty = FALSE /\ g.panic = f.panic /\ Fields(g)
    BY <1>1, <1>2, SyncIs
  <1>4. /\ f.disk \in [Inos -> Dins]
        /\ f.saved \in [freemap : SUBSET Data, unused : Int]
        /\ f.panic \in Said /\ f.entries \in [Data -> [0..(SFS_BLK_NENTRY - 1) -> Nums]]
        /\ f.freemap \in SUBSET Data /\ f.unused \in Int /\ f.super_dirty \in BOOLEAN
    BY <1>1 DEF Mounts
  <1>5. ASSUME NEW i \in Inos
        PROVE  /\ Cached(f, i) => /\ c[i] \in Nodes /\ ~c[i].dirty /\ c[i].din = f.cache[i].din
                                  /\ c[i].ref = f.cache[i].ref /\ c[i].open = f.cache[i].open
               /\ ~Cached(f, i) => c[i] = NoNode
               /\ d[i] \in Dins /\ SameBlocks(d[i], Din(f, i))
    <2>1. CASE Cached(f, i)
      <3>1. f.cache[i] \in Nodes /\ Din(f, i) = f.cache[i].din
        BY <1>1, <2>1, CachedNode
      <3>2. c[i] = [f.cache[i] EXCEPT !.dirty = FALSE]
        BY <1>2, <2>1 DEF SyncedCache
      <3>3. d[i] = IF f.cache[i].dirty THEN f.cache[i].din ELSE f.disk[i]
        BY <1>2, <2>1 DEF SyncedDins
      <3>4. d[i] \in Dins /\ SameBlocks(d[i], Din(f, i))
        BY <1>1, <1>4, <2>1, <3>1, <3>3 DEF Clean, SameBlocks, Nodes
      <3> QED
        BY <2>1, <3>1, <3>2, <3>4 DEF Nodes
    <2>2. CASE ~Cached(f, i)
      <3>1. f.cache[i] = NoNode /\ Din(f, i) = f.disk[i]
        BY <1>1, <2>2, CachedNode
      <3>2. c[i] = f.cache[i] /\ d[i] = f.disk[i]
        BY <1>2, <2>2 DEF SyncedCache, SyncedDins
      <3> QED
        BY <1>4, <2>2, <3>1, <3>2 DEF SameBlocks
    <2> QED
      BY <2>1, <2>2
  <1>6. \A i \in Inos : c[i] \in Nodes => c[i] # NoNode
    BY DEF Nodes, NoNode
  <1>7. c = [i \in Inos |-> c[i]] /\ d = [i \in Inos |-> d[i]]
    BY <1>2 DEF SyncedCache, SyncedDins
  <1>8. c \in [Inos -> Nodes \cup {NoNode}] /\ d \in [Inos -> Dins]
    BY <1>5, <1>7
  <1>9. g.saved = [freemap |-> f.freemap, unused |-> f.unused]
    BY <1>3 DEF Good, SavedMap
  <1>10. g \in Mounts
    <2>1. g.saved \in [freemap : SUBSET Data, unused : Int]
      BY <1>4, <1>9
    <2>2. /\ g.cache \in [Inos -> Nodes \cup {NoNode}] /\ g.disk \in [Inos -> Dins]
          /\ g.panic \in Said /\ g.entries \in [Data -> [0..(SFS_BLK_NENTRY - 1) -> Nums]]
          /\ g.freemap \in SUBSET Data /\ g.unused \in Int /\ g.super_dirty \in BOOLEAN
      BY <1>3, <1>4, <1>8
    <2> QED
      BY <1>3, <2>1, <2>2, MountIs
  <1>11. ASSUME NEW i \in Inos
         PROVE  /\ Cached(g, i) <=> Cached(f, i)
                /\ Cached(f, i) => /\ g.cache[i].ref = f.cache[i].ref
                                   /\ g.cache[i].open = f.cache[i].open /\ ~g.cache[i].dirty
                /\ SameBlocks(Din(g, i), Din(f, i)) /\ SameBlocks(d[i], Din(f, i))
                /\ Cached(g, i) => SameBlocks(g.cache[i].din, g.disk[i])
    <2>1. CASE Cached(f, i)
      <3>1. c[i] # NoNode
        BY <1>5, <1>6, <2>1
      <3>2. Cached(g, i) /\ Din(g, i) = c[i].din
        BY <1>3, <3>1 DEF Cached, Din
      <3>3. Din(f, i) = f.cache[i].din
        BY <1>1, <2>1, CachedNode
      <3> QED
        BY <1>3, <1>5, <2>1, <3>2, <3>3 DEF SameBlocks
    <2>2. CASE ~Cached(f, i)
      <3>1. c[i] = NoNode
        BY <1>5, <2>2
      <3>2. ~Cached(g, i) /\ Din(g, i) = d[i]
        BY <1>3, <3>1 DEF Cached, Din
      <3> QED
        BY <1>5, <2>2, <3>2
    <2> QED
      BY <2>1, <2>2
  <1>12. NumbersOf(g) = NumbersOf(f) /\ Numbers(g.entries, g.disk) = NumbersOf(f)
    <2>1. \A j \in Files : j \in Inos
      BY FsConstants
    <2>2. \A j \in Files, place \in PlaceSet :
             /\ Number(g.entries, Din(g, j), place) = Number(f.entries, Din(f, j), place)
             /\ Number(g.entries, d[j], place) = Number(f.entries, Din(f, j), place)
      BY <1>3, <1>11, <2>1 DEF Number, SameBlocks
    <2> QED
      BY <1>3, <2>1, <2>2 DEF NumbersOf, Numbers, DinsOf, Cells
  <1>13. Clean(g)
    BY <1>11 DEF Clean
  <1>14. Own(NumbersOf(f), f.freemap) /\ f.unused = Cardinality(f.freemap)
    BY DEF Good
  <1>15. Good(g)
    BY <1>3, <1>9, <1>10, <1>12, <1>13, <1>14 DEF Good
  <1>16. g.saved.freemap = f.freemap /\ g.saved.unused = f.unused
    BY <1>9
  <1> QED
    BY <1>3, <1>4, <1>8, <1>11, <1>12, <1>14, <1>15, <1>16
-----------------------------------------------------------------------------
(* The invariant holds at first: a mount of which nothing is used yet ...  *)
LEMMA Mounted ==
  Sound(sfs_do_mount, [i \in Inos |-> 0], [i \in Inos |-> 0])
  <1>1. PICK f : f = sfs_do_mount
    OBVIOUS
  <1>2. EmptyDin \in Dins /\ EmptyDin.indirect = None
        /\ \A k \in 0..(SFS_NDIRECT - 1) : EmptyDin.direct[k] = None
    BY FsConstants DEF EmptyDin, Dins, Nums
  <1>3. ZeroBlock \in [0..(SFS_BLK_NENTRY - 1) -> Nums]
    BY DEF ZeroBlock, Nums
  <1>4. /\ f.cache = [i \in Inos |-> NoNode] /\ f.disk = [i \in Inos |-> EmptyDin]
        /\ f.entries = [b \in Data |-> ZeroBlock] /\ f.freemap = Data /\ f.unused = NData
        /\ f.super_dirty = FALSE /\ f.saved = [freemap |-> Data, unused |-> NData]
        /\ Fields(f)
    BY <1>1 DEF sfs_do_mount, Fields
  <1>5. Quiet(f) /\ f.panic \in Said
    <2>1. f.panic = ""
      BY <1>1, Zenon DEF sfs_do_mount
    <2>2. "" \in Said
      BY Zenon DEF Said
    <2>3. Quiet(f)
      BY <2>1, Zenon DEF Quiet
    <2>4. f.panic \in Said
      BY <2>1, <2>2, Zenon
    <2> QED
      BY <2>3, <2>4, Zenon
  <1>6. f \in Mounts
    <2>1. NData \in Int
      BY FsConstants
    <2>2. /\ f.cache \in [Inos -> Nodes \cup {NoNode}] /\ f.disk \in [Inos -> Dins]
          /\ f.entries \in [Data -> [0..(SFS_BLK_NENTRY - 1) -> Nums]]
          /\ f.freemap \in SUBSET Data /\ f.unused \in Int /\ f.super_dirty \in BOOLEAN
          /\ f.saved \in [freemap : SUBSET Data, unused : Int]
      <3>1. PICK e, d, c : e = ZeroBlock /\ d = EmptyDin /\ c = NoNode
        OBVIOUS
      <3>2. f.cache \in [Inos -> Nodes \cup {NoNode}]
        BY <1>4
      <3>3. f.disk \in [Inos -> Dins]
        BY <1>2, <1>4, <3>1
      <3>4. f.entries \in [Data -> [0..(SFS_BLK_NENTRY - 1) -> Nums]]
        BY <1>3, <1>4, <3>1
      <3>5. f.freemap \in SUBSET Data /\ f.unused \in Int /\ f.super_dirty \in BOOLEAN
        BY <1>4, <2>1
      <3>6. f.saved \in [freemap : SUBSET Data, unused : Int]
        BY <1>4, <2>1
      <3> QED
        BY <3>2, <3>3, <3>4, <3>5, <3>6
    <2> QED
      BY <1>4, <1>5, <2>2, MountIs
  <1>7. \A i \in Inos : ~Cached(f, i) /\ Din(f, i) = EmptyDin
    BY <1>4 DEF Cached, Din
  <1>8. Own(NumbersOf(f), f.freemap)
    <2>1. \A x \in Cells : NumbersOf(f)[x] = None
      <3>1. \A i \in Files : Din(f, i) = EmptyDin
        BY <1>7, FsConstants
      <3>2. \A i \in Files, k \in 0..(SFS_NDIRECT - 1) : NumbersOf(f)[Direct(i, k)] = None
        BY <1>2, <3>1, NumberAt
      <3>3. \A i \in Files : NumbersOf(f)[Indirect(i)] = None
        BY <1>2, <3>1, NumberAt
      <3>4. \A i \in Files, k \in 0..(SFS_BLK_NENTRY - 1) : NumbersOf(f)[Entry(i, k)] = None
        BY <1>2, <3>1, NumberAt
      <3> QED
        BY <3>2, <3>3, <3>4, CellsAre
    <2>2. NumbersOf(f) \in [Cells -> Nums]
      <3>1. NumbersOf(f) = [x \in Cells |-> NumbersOf(f)[x]]
        BY DEF NumbersOf, Numbers
      <3> QED
        BY <2>1, <3>1 DEF Nums
    <2>3. \A b \in Data : b # None
      BY FsConstants
    <2> QED
      BY <1>4, <2>1, <2>2, <2>3 DEF Own
  <1>9. Cardinality(Data) = NData
    <2>1. 1 \in Int /\ NData \in Int /\ NData \in Nat
      BY FsConstants
    <2>2. Cardinality(1..NData) = IF 1 > NData THEN 0 ELSE NData - 1 + 1
      BY <2>1, FS_Interval
    <2> QED
      BY <2>1, <2>2 DEF Data
  <1>10. Good(f)
    BY <1>4, <1>6, <1>7, <1>8, <1>9 DEF Good, Clean
  <1>11. Counted(f, [i \in Inos |-> 0], [i \in Inos |-> 0])
    BY <1>7 DEF Counted
  <1> QED
    BY <1>1, <1>5, <1>10, <1>11 DEF Sound

LEMMA RootIn == Root \in Inos
  <1>1. Dirs \in SUBSET Nat /\ Dirs # {}
    BY FsConstants, FilesAssumption
  <1>2. Min(Dirs) \in Dirs
    BY <1>1, MinIn
  <1> QED
    BY <1>2, FsConstants DEF Root

(* ... and the root, that the VFS and the first process name.              *)
LEMMA InitOrdered ==
  ASSUME FilesInit
  PROVE  Ordered
  <1>1. PICK first \in Procs : /\ fs = inode_ref_inc(sfs_load_inode(sfs_do_mount, Root), Root)
                               /\ pwd = [p \in Procs |-> IF p = first THEN Root ELSE None]
                               /\ fd = [p \in Procs |-> NoFiles]
                               /\ alive = {first}
    BY FilesAssumption DEF FilesInit
  <1>2. PICK z, f, g, m : /\ z = [i \in Inos |-> 0] /\ m = sfs_do_mount
                          /\ f = sfs_load_inode(m, Root) /\ g = inode_ref_inc(f, Root)
    OBVIOUS
  <1>3. fs = g
    BY <1>1, <1>2
  <1>4. Sound(m, z, z)
    BY <1>2, Mounted
  <1>5. PICK w1, w2 : w1 = More(z, Root) /\ w2 = More(w1, Root)
    OBVIOUS
  <1>6. Sound(f, z, w1) /\ Cached(f, Root)
    BY <1>2, <1>4, <1>5, LoadInode, RootIn
  <1>7. Sound(g, z, w2)
    BY <1>2, <1>5, <1>6, RefInc, RootIn
  <1>8. PICK a, b, t : /\ a = [p \in Procs |-> None] /\ b = CwdSet(a, first, Root)
                       /\ t = [p \in Procs |-> NoFiles]
    OBVIOUS
  <1>9. pwd = b /\ fd = t
    <2>1. [a EXCEPT ![first] = Root] = [p \in Procs |-> IF p = first THEN Root ELSE None]
      BY <1>8
    <2> QED
      BY <1>1, <1>8, <2>1 DEF CwdSet
  <1>10. a \in Pwds /\ a[first] = None
    BY <1>8 DEF Pwds
  <1>11. b \in Pwds /\ CwdsOf(b) = More(CwdsOf(a), Root)
    BY <1>8, <1>10, CwdMore, RootIn
  <1>12. CwdsOf(a) = w1
    <2>1. \A i \in Inos : InDir(a, i) = {}
      BY <1>8, FdConstants DEF InDir
    <2>2. \A i \in Inos : Cardinality(InDir(a, i)) = 0
      BY <2>1, FS_EmptySet
    <2>3. CwdsOf(a) = [i \in Inos |-> IF i = Root THEN 1 ELSE 0]
      <3>1. CwdsOf(a) = [i \in Inos |-> Cardinality(InDir(a, i)) + (IF i = Root THEN 1 ELSE 0)]
        BY CwdsAre
      <3> QED
        BY <2>2, <3>1
    <2>4. w1 = [i \in Inos |-> IF i = Root THEN 1 ELSE 0]
      BY <1>2, <1>5, RootIn DEF More
    <2> QED
      BY <2>3, <2>4
  <1>13. HoldersOf(t) = z
    <2>1. \A i \in Inos : HeldBy(t, i) = {}
      BY <1>8, FdConstants DEF HeldBy, NoFiles
    <2>2. \A i \in Inos : Cardinality(HeldBy(t, i)) = 0
      BY <2>1, FS_EmptySet
    <2> QED
      BY <1>2, <2>2 DEF HoldersOf
  <1>14. t \in Tables
    BY <1>8, FdConstants DEF Tables
  <1>15. \A p \in Procs : pwd[p] = None => fd[p] = NoFiles /\ p \notin alive
    BY <1>1, FsConstants, RootIn
  <1>16. Sound(fs, HoldersOf(fd), CwdsOf(pwd))
    BY <1>3, <1>5, <1>7, <1>9, <1>11, <1>12, <1>13
  <1> QED
    BY <1>9, <1>11, <1>14, <1>15, <1>16 DEF Ordered

(* The invariant of one step: a process that runs has a directory.         *)
LEMMA RunningIs ==
  ASSUME FilesInv, NEW p \in Procs, Running(p)
  PROVE  /\ Ordered /\ Quiet(fs) /\ p \in alive /\ pwd[p] \in Inos
         /\ Sound(fs, HoldersOf(fd), CwdsOf(pwd)) /\ fd \in Tables /\ pwd \in Pwds
         /\ \A q \in Procs : pwd[q] = None => fd[q] = NoFiles /\ q \notin alive
  <1>1. Quiet(fs) /\ p \in alive
    BY Zenon DEF Running, Quiet
  <1>2. Ordered
    BY <1>1 DEF FilesInv
  <1>3. pwd \in Pwds /\ pwd[p] # None
    BY <1>1, <1>2 DEF Ordered
  <1>4. pwd[p] \in Inos
    BY <1>3 DEF Pwds
  <1> QED
    BY <1>1, <1>2, <1>4 DEF Ordered

(* What an open descriptor names.                                          *)
LEMMA OpenedIs ==
  ASSUME FilesInv, NEW p \in Procs, Running(p), NEW k \in Opened(p)
  PROVE  /\ k \in Fds /\ fd[p][k] \in FdEntries /\ fd[p][k] # FD_NONE
         /\ fd[p][k].node \in Inos /\ fd[p][k].pos \in Nat /\ fd[p][k].writable \in BOOLEAN
         /\ HoldersOf(fd)[fd[p][k].node] > 0 /\ Cached(fs, fd[p][k].node)
  <1>1. k \in Fds /\ fd[p][k] # FD_NONE
    BY DEF Opened
  <1>2. fd \in Tables /\ Sound(fs, HoldersOf(fd), CwdsOf(pwd))
    BY RunningIs
  <1>3. fd[p][k] \in FdEntries
    BY <1>1, <1>2 DEF Tables
  <1>4. fd[p][k].node \in Inos /\ fd[p][k].pos \in Nat /\ fd[p][k].writable \in BOOLEAN
    BY <1>1, <1>3, FdConstants
  <1>5. PICK i, t, u, f, w : /\ i = fd[p][k].node /\ t = fd /\ u = FdSet(t, p, k, FD_NONE)
                             /\ f = fs /\ w = CwdsOf(pwd)
    OBVIOUS
  <1>6. HoldersOf(t)[i] > 0
    BY <1>1, <1>2, <1>4, <1>5, HoldLess
  <1>7. Cached(f, i)
    <2>1. PICK h : h = HoldersOf(t)
      OBVIOUS
    <2>2. h[i] # 0 /\ Sound(f, h, w)
      BY <1>2, <1>5, <1>6, <2>1
    <2> QED
      BY <1>4, <1>5, <2>2, SoundNode
  <1> QED
    BY <1>1, <1>3, <1>4, <1>5, <1>6, <1>7

LEMMA OpenKeeps ==
  ASSUME FilesInv, NEW p \in Procs, NEW i \in Inos,
         NEW cw, cw \in BOOLEAN, NEW tr, NEW cr, NEW ex, NEW ap,
         file_open(p, i, cw, tr, cr, ex, ap), Quiet(fs')
  PROVE  Ordered'
  <1>1. Running(p) /\ Free(p) # {} /\ pwd' = pwd /\ alive' = alive
    BY DEF file_open
  <1>2. LET r == vfs_open(sfs_load_inode(fs, i), i, cw, tr, cr, ex, ap)
            pos == IF ap THEN r.fs.cache[i].din.size ELSE 0
        IN  /\ fs' = r.fs
            /\ fd' = IF r.ok
                     THEN [fd EXCEPT ![p][Min(Free(p))] = File(i, pos, cw)]
                     ELSE fd
    BY DEF file_open
  <1>3. PICK f, t, h, w, g, r, u :
          /\ f = fs /\ t = fd /\ h = HoldersOf(t) /\ w = CwdsOf(pwd)
          /\ g = sfs_load_inode(f, i) /\ r = vfs_open(g, i, cw, tr, cr, ex, ap) /\ u = fd'
    OBVIOUS
  <1>4. PICK k, pos : k = Min(Free(p)) /\ pos = IF ap THEN r.fs.cache[i].din.size ELSE 0
    OBVIOUS
  <1>5. fs' = r.fs /\ u = IF r.ok THEN [t EXCEPT ![p][k] = File(i, pos, cw)] ELSE t
    BY <1>2, <1>3, <1>4
  <1>6. /\ Sound(f, h, w) /\ t \in Tables /\ pwd \in Pwds
        /\ \A q \in Procs : pwd[q] = None => t[q] = NoFiles /\ q \notin alive
        /\ p \in alive
    BY <1>1, <1>3, RunningIs
  <1>7. w \in [Inos -> Nat] /\ h \in [Inos -> Nat]
    BY <1>6, SoundNode
  <1>8. PICK w1 : w1 = More(w, i)
    OBVIOUS
  <1>9. Sound(g, h, w1) /\ w1[i] > 0 /\ Less(w1, i) = w
    <2>1. w1[i] = w[i] + 1 /\ w[i] \in Nat /\ Less(w1, i) = w
      BY <1>7, <1>8, CountsAre
    <2> QED
      BY <1>3, <1>6, <1>8, <2>1, LoadInode
  <1>10. /\ r.ok \in BOOLEAN
         /\ r.ok => Sound(r.fs, More(h, i), w) /\ Cached(r.fs, i)
         /\ ~r.ok => Sound(r.fs, h, w)
    <2>1. Quiet(r.fs)
      BY <1>5
    <2>2. /\ r.ok \in BOOLEAN
          /\ Quiet(r.fs) /\ r.ok => Sound(r.fs, More(h, i), Less(w1, i)) /\ Cached(r.fs, i)
          /\ Quiet(r.fs) /\ ~r.ok => Sound(r.fs, h, Less(w1, i))
      BY <1>3, <1>9, Opens
    <2> QED
      BY <1>9, <2>1, <2>2
  <1>11. CASE ~r.ok
    <2>1. u = t
      BY <1>5, <1>11
    <2>2. Sound(fs', HoldersOf(fd'), CwdsOf(pwd'))
      BY <1>1, <1>3, <1>5, <1>10, <1>11, <2>1
    <2> QED
      BY <1>1, <1>3, <1>6, <2>1, <2>2 DEF Ordered
  <1>12. CASE r.ok
    <2>1. k \in Fds /\ t[p][k] = FD_NONE
      <3>1. Free(p) \in SUBSET Nat
        BY FdConstants DEF Free
      <3>2. k \in Free(p)
        BY <1>1, <1>4, <3>1, MinIn
      <3> QED
        BY <1>3, <3>2 DEF Free, Opened
    <2>2. PICK e : e = File(i, pos, cw)
      OBVIOUS
    <2>3. pos \in Nat
      <3>1. r.fs.cache[i] \in Nodes
        BY <1>10, <1>12, SoundNode
      <3>2. r.fs.cache[i].din.size \in Nat
        BY <3>1 DEF Nodes, Dins
      <3> QED
        BY <1>4, <3>2
    <2>4. e \in FdEntries /\ e.node = i
      BY <2>2, <2>3 DEF File, FdEntries
    <2>5. u = FdSet(t, p, k, e)
      BY <1>5, <1>12, <2>2 DEF FdSet
    <2>6. u \in Tables /\ HoldersOf(u) = More(h, i)
      BY <1>3, <1>6, <2>1, <2>4, <2>5, HoldMore
    <2>7. Sound(fs', HoldersOf(fd'), CwdsOf(pwd'))
      BY <1>1, <1>3, <1>5, <1>10, <1>12, <2>6
    <2>8. \A q \in Procs : pwd[q] = None => u[q] = NoFiles /\ q \notin alive
      <3>1. \A q \in Procs \ {p} : u[q] = t[q]
        BY <1>6, <2>5 DEF FdSet, Tables
      <3> QED
        BY <1>6, <3>1
    <2> QED
      BY <1>1, <1>3, <1>6, <2>6, <2>7, <2>8 DEF Ordered
  <1> QED
    BY <1>10, <1>11, <1>12

LEMMA OpenMissingKeeps ==
  ASSUME FilesInv, NEW p \in Procs, OpenMissing(p), Quiet(fs')
  PROVE  Ordered'
  <1>1. Running(p)
    BY DEF OpenMissing
  <1>2. PICK g : g = Panic(fs, "vop_create")
    OBVIOUS
  <1>3. fs' = g
    BY <1>2, Zenon DEF OpenMissing
  <1>4. fs \in Mounts
    BY <1>1, RunningIs DEF Sound, Good
  <1>5. ~Quiet(g)
    BY <1>2, <1>4, PanicIs
  <1> HIDE <1>2
  <1> QED
    BY <1>3, <1>5

LEMMA CloseKeeps ==
  ASSUME FilesInv, NEW p \in Procs, NEW k \in Fds, file_close(p, k)
  PROVE  Ordered'
  <1>1. Running(p) /\ k \in Opened(p) /\ pwd' = pwd /\ alive' = alive
        /\ fs' = vfs_close(fs, fd[p][k].node) /\ fd' = [fd EXCEPT ![p][k] = FD_NONE]
    BY DEF file_close
  <1>2. PICK f, t, h, w, i, g, u :
          /\ f = fs /\ t = fd /\ h = HoldersOf(t) /\ w = CwdsOf(pwd)
          /\ i = t[p][k].node /\ g = vfs_close(f, i) /\ u = FdSet(t, p, k, FD_NONE)
    OBVIOUS
  <1>3. fs' = g /\ fd' = u
    BY <1>1, <1>2 DEF FdSet
  <1>4. /\ Sound(f, h, w) /\ t \in Tables /\ pwd \in Pwds
        /\ \A q \in Procs : pwd[q] = None => t[q] = NoFiles /\ q \notin alive
        /\ p \in alive
    BY <1>1, <1>2, RunningIs
  <1>5. i \in Inos /\ h[i] > 0
    BY <1>1, <1>2, OpenedIs
  <1>6. Sound(g, Less(h, i), w)
    BY <1>2, <1>4, <1>5, Close
  <1>7. u \in Tables /\ HoldersOf(u) = Less(h, i)
    BY <1>2, <1>4, <1>5, HoldLess
  <1>8. Sound(fs', HoldersOf(fd'), CwdsOf(pwd'))
    BY <1>1, <1>2, <1>3, <1>6, <1>7
  <1>9. \A q \in Procs : pwd[q] = None => u[q] = NoFiles /\ q \notin alive
    <2>1. \A q \in Procs \ {p} : u[q] = t[q]
      BY <1>2, <1>4 DEF FdSet, Tables
    <2> QED
      BY <1>4, <2>1
  <1> QED
    BY <1>1, <1>3, <1>4, <1>7, <1>8, <1>9 DEF Ordered

(* The tables stay, and what is counted.                                   *)
LEMMA TablesKept ==
  ASSUME FilesInv, NEW p \in Procs, Running(p), pwd' = pwd, fd' = fd, alive' = alive,
         Sound(fs', HoldersOf(fd), CwdsOf(pwd))
  PROVE  Ordered'
  <1>1. /\ fd \in Tables /\ pwd \in Pwds
        /\ \A q \in Procs : pwd[q] = None => fd[q] = NoFiles /\ q \notin alive
    BY RunningIs
  <1>2. Sound(fs', HoldersOf(fd'), CwdsOf(pwd'))
    OBVIOUS
  <1> QED
    BY <1>1, <1>2 DEF Ordered

LEMMA FsyncKeeps ==
  ASSUME FilesInv, NEW p \in Procs, NEW k \in Fds, file_fsync(p, k)
  PROVE  Ordered'
  <1>1. Running(p) /\ k \in Opened(p) /\ pwd' = pwd /\ fd' = fd /\ alive' = alive
        /\ fs' = sfs_fsync(fs, fd[p][k].node)
    BY DEF file_fsync, tables
  <1>2. PICK f, h, w, i, g :
          /\ f = fs /\ h = HoldersOf(fd) /\ w = CwdsOf(pwd) /\ i = fd[p][k].node
          /\ g = sfs_fsync(f, i)
    OBVIOUS
  <1>3. Sound(f, h, w) /\ i \in Inos /\ Cached(f, i)
    BY <1>1, <1>2, RunningIs, OpenedIs
  <1>4. Sound(g, h, w)
    BY <1>2, <1>3, Fsync
  <1> QED
    BY <1>1, <1>2, <1>4, TablesKept

LEMMA ReadKeeps ==
  ASSUME FilesInv, NEW p \in Procs, NEW k \in Fds, file_read(p, k), Quiet(fs')
  PROVE  Ordered'
  <1>1. Running(p) /\ pwd' = pwd /\ fd' = fd /\ alive' = alive
    BY DEF file_read, tables
  <1>2. PICK f, g : f = fs /\ g = Panic(f, "vop_read")
    OBVIOUS
  <1>3. fs' = g \/ fs' = f
    BY <1>2, Zenon DEF file_read
  <1>4. Sound(f, HoldersOf(fd), CwdsOf(pwd))
    BY <1>1, <1>2, RunningIs
  <1>5. ~Quiet(g)
    BY <1>2, <1>4, SoundNode, PanicIs DEF Sound, Good
  <1>6. Sound(fs', HoldersOf(fd), CwdsOf(pwd))
    BY <1>3, <1>4, <1>5
  <1> QED
    BY <1>1, <1>6, TablesKept

LEMMA WriteKeeps ==
  ASSUME FilesInv, NEW p \in Procs, NEW k \in Fds, file_write(p, k)
  PROVE  Ordered'
  <1>1. Running(p) /\ k \in Opened(p) /\ pwd' = pwd /\ fd' = fd /\ alive' = alive
    BY DEF file_write, tables
  <1>2. PICK f, h, w, i, pos, g :
          /\ f = fs /\ h = HoldersOf(fd) /\ w = CwdsOf(pwd) /\ i = fd[p][k].node
          /\ pos = fd[p][k].pos /\ g = SizeSet(f, i, pos)
    BY Zenon
  <1>3. fs' = g \/ fs' = f
    BY <1>2 DEF file_write, SizeSet
  <1>4. Sound(f, h, w) /\ i \in Inos /\ Cached(f, i) /\ pos \in Nat
    BY <1>1, <1>2, RunningIs, OpenedIs
  <1>5. Sound(g, h, w)
    <2>1. Good(f) /\ Quiet(f) /\ Counted(f, h, w)
      BY <1>4 DEF Sound
    <2>2. Good(g) /\ SameCounts(f, g) /\ Quiet(g)
      BY <1>2, <1>4, <2>1, Sized
    <2> QED
      BY <2>1, <2>2, CountedSame DEF Sound
  <1>6. Sound(fs', h, w)
    BY <1>3, <1>4, <1>5
  <1> QED
    BY <1>1, <1>2, <1>6, TablesKept

LEMMA SeekKeeps ==
  ASSUME FilesInv, NEW p \in Procs, NEW k \in Fds, NEW pos \in Positions, file_seek(p, k, pos),
         Quiet(fs')
  PROVE  Ordered'
  <1>1. Running(p) /\ k \in Opened(p) /\ pwd' = pwd /\ alive' = alive
    BY DEF file_seek
  <1>2. PICK f, t, h, w, i, u :
          /\ f = fs /\ t = fd /\ h = HoldersOf(t) /\ w = CwdsOf(pwd)
          /\ i = t[p][k].node /\ u = fd'
    OBVIOUS
  <1>3. PICK r : r = IF i \in Dirs THEN Failed(Panic(f, "vop_tryseek"))
                     ELSE IF pos > f.cache[i].din.size THEN sfs_truncfile(f, i, pos)
                     ELSE Done(f)
    OBVIOUS
  <1>4. fs' = r.fs /\ u = IF r.ok THEN [t EXCEPT ![p][k].pos = pos] ELSE t
    BY <1>2, <1>3, Zenon DEF file_seek
  <1>5. /\ Sound(f, h, w) /\ t \in Tables /\ pwd \in Pwds
        /\ \A q \in Procs : pwd[q] = None => t[q] = NoFiles /\ q \notin alive
        /\ p \in alive
    BY <1>1, <1>2, RunningIs
  <1>6. i \in Inos /\ Cached(f, i) /\ k \in Fds /\ t[p][k] \in FdEntries /\ t[p][k] # FD_NONE
    BY <1>1, <1>2, OpenedIs
  <1>7. pos \in Nat
    BY FdConstants
  <1>8. Sound(r.fs, h, w)
    <2>1. CASE i \in Dirs
      <3>1. PICK g : g = Panic(f, "vop_tryseek")
        OBVIOUS
      <3>2. r = Failed(g)
        BY <1>3, <2>1, <3>1, Zenon
      <3>3. ~Quiet(g)
        BY <1>5, <3>1, SoundNode, PanicIs DEF Sound, Good
      <3> HIDE <3>1, <1>3
      <3> QED
        BY <1>4, <3>2, <3>3 DEF Failed
    <2>2. CASE i \notin Dirs /\ pos > f.cache[i].din.size
      <3>1. r = sfs_truncfile(f, i, pos)
        BY <1>3, <2>2, Zenon
      <3>2. i \in Files /\ Good(f) /\ Quiet(f) /\ Counted(f, h, w)
        BY <1>5, <1>6, <2>2 DEF Inos, Sound
      <3>3. Walking(f, r, i)
        BY <1>6, <1>7, <3>1, <3>2, Truncated
      <3>4. Quiet(r.fs)
        BY <1>4
      <3>5. Good(r.fs) /\ SameCounts(f, r.fs)
        BY <3>3, <3>4 DEF Walking
      <3> QED
        BY <3>2, <3>4, <3>5, CountedSame DEF Sound
    <2>3. CASE i \notin Dirs /\ ~(pos > f.cache[i].din.size)
      <3>1. r = Done(f)
        BY <1>3, <2>3, Zenon
      <3> QED
        BY <1>5, <3>1 DEF Done
    <2> QED
      BY <2>1, <2>2, <2>3
  <1>9. /\ u \in Tables /\ HoldersOf(u) = h
        /\ \A q \in Procs \ {p} : u[q] = t[q]
    <2>1. CASE u = t
      BY <1>2, <1>5, <2>1
    <2>2. CASE u # t
      <3>1. PICK e : e = [t[p][k] EXCEPT !.pos = pos]
        OBVIOUS
      <3>2. e \in FdEntries /\ e.node = i
        BY <1>2, <1>6, <1>7, <3>1 DEF FdEntries
      <3>3. u = FdSet(t, p, k, e)
        BY <1>4, <2>2, <3>1 DEF FdSet
      <3>4. u \in Tables /\ \A q \in Procs \ {p} : u[q] = t[q]
        BY <1>5, <1>6, <3>2, <3>3 DEF FdSet, Tables
      <3>5. \A x \in Procs \X Fds : u[x[1]][x[2]].node = t[x[1]][x[2]].node
        BY <1>2, <1>5, <1>6, <3>2, <3>3 DEF FdSet, Tables
      <3> QED
        BY <1>2, <3>4, <3>5, HoldSame
    <2> QED
      BY <2>1, <2>2
  <1>10. Sound(fs', HoldersOf(fd'), CwdsOf(pwd'))
    BY <1>1, <1>2, <1>4, <1>8, <1>9
  <1>11. \A q \in Procs : pwd[q] = None => u[q] = NoFiles /\ q \notin alive
    BY <1>5, <1>9
  <1> QED
    BY SMTT(60), <1>1, <1>2, <1>5, <1>9, <1>10, <1>11 DEF Ordered

LEMMA DupKeeps ==
  ASSUME FilesInv, NEW p \in Procs, NEW k \in Fds, NEW to \in Fds, file_dup(p, k, to)
  PROVE  Ordered'
  <1>1. /\ Running(p) /\ k \in Opened(p) /\ to \in Free(p) /\ pwd' = pwd /\ alive' = alive
        /\ fs' = DupInc(fs, fd[p][k].node) /\ fd' = [fd EXCEPT ![p][to] = fd[p][k]]
    BY DEF file_dup
  <1>2. PICK f, t, h, w, e, i, g, u :
          /\ f = fs /\ t = fd /\ h = HoldersOf(t) /\ w = CwdsOf(pwd) /\ e = t[p][k]
          /\ i = e.node /\ g = DupInc(f, i) /\ u = FdSet(t, p, to, e)
    OBVIOUS
  <1>3. fs' = g /\ fd' = u
    BY <1>1, <1>2 DEF FdSet
  <1>4. /\ Sound(f, h, w) /\ t \in Tables /\ pwd \in Pwds
        /\ \A q \in Procs : pwd[q] = None => t[q] = NoFiles /\ q \notin alive
        /\ p \in alive
    BY <1>1, <1>2, RunningIs
  <1>5. i \in Inos /\ Cached(f, i) /\ e \in FdEntries /\ t[p][to] = FD_NONE
    BY <1>1, <1>2, OpenedIs DEF Free, Opened
  <1>6. Sound(g, More(h, i), w)
    BY <1>2, <1>4, <1>5, OneMore
  <1>7. u \in Tables /\ HoldersOf(u) = More(h, i)
    BY <1>2, <1>4, <1>5, HoldMore
  <1>8. Sound(fs', HoldersOf(fd'), CwdsOf(pwd'))
    BY <1>1, <1>2, <1>3, <1>6, <1>7
  <1>9. \A q \in Procs : pwd[q] = None => u[q] = NoFiles /\ q \notin alive
    <2>1. \A q \in Procs \ {p} : u[q] = t[q]
      BY <1>2, <1>4 DEF FdSet, Tables
    <2> QED
      BY <1>4, <2>1
  <1> QED
    BY <1>1, <1>3, <1>4, <1>7, <1>8, <1>9 DEF Ordered

LEMMA ChdirKeeps ==
  ASSUME FilesInv, NEW p \in Procs, NEW i \in Inos, vfs_chdir(p, i)
  PROVE  Ordered'
  <1>1. Running(p) /\ fd' = fd /\ alive' = alive
    BY DEF vfs_chdir
  <1>2. PICK f, t, c, h, w, j :
          /\ f = fs /\ t = fd /\ c = pwd /\ h = HoldersOf(t) /\ w = CwdsOf(c) /\ j = c[p]
    OBVIOUS
  <1>3. PICK found, more, set : /\ found = sfs_load_inode(f, i) /\ more = inode_ref_inc(found, i)
                                /\ set = inode_ref_dec(more, j)
    OBVIOUS
  <1>4. /\ Sound(f, h, w) /\ t \in Tables /\ c \in Pwds
        /\ \A q \in Procs : c[q] = None => t[q] = NoFiles /\ q \notin alive
        /\ p \in alive /\ j \in Inos
    BY <1>1, <1>2, RunningIs
  <1>5. w \in [Inos -> Nat]
    BY <1>4, SoundNode
  <1>6. PICK w1 : w1 = More(w, i)
    OBVIOUS
  <1>7. Sound(found, h, w1) /\ Cached(found, i)
    BY <1>3, <1>4, <1>6, LoadInode
  <1>8. w1 \in [Inos -> Nat] /\ w1[i] = w[i] + 1 /\ Less(w1, i) = w /\ w1[i] > 0
    <2>1. w1 \in [Inos -> Nat] /\ w1[i] = w[i] + 1 /\ Less(w1, i) = w
      BY <1>5, <1>6, CountsAre
    <2> QED
      BY <1>5, <2>1
  <1>9. CASE ~(i \in Dirs /\ i # j)
    <2>1. fs' = inode_ref_dec(found, i) /\ pwd' = c
      BY <1>2, <1>3, <1>9 DEF vfs_chdir
    <2>2. PICK g : g = inode_ref_dec(found, i)
      OBVIOUS
    <2>3. Sound(g, h, w)
      <3>1. Sound(g, h, Less(w1, i))
        BY <1>7, <1>8, <2>2, RefDec
      <3> QED
        BY <1>8, <3>1
    <2> QED
      BY <1>1, <1>2, <2>1, <2>2, <2>3, TablesKept
  <1>10. CASE i \in Dirs /\ i # j
    <2>1. fs' = inode_ref_dec(set, i) /\ pwd' = [c EXCEPT ![p] = i]
      BY <1>2, <1>3, <1>10 DEF vfs_chdir
    <2>2. PICK w2, w3, w4, g : /\ w2 = More(w1, i) /\ w3 = Less(w2, j) /\ w4 = Less(w3, i)
                               /\ g = inode_ref_dec(set, i)
      OBVIOUS
    <2>3. Sound(more, h, w2)
      BY <1>3, <1>7, <2>2, RefInc
    <2>4. PICK a, b : a = CwdSet(c, p, None) /\ b = CwdSet(a, p, i)
      OBVIOUS
    <2>5. a \in Pwds /\ CwdsOf(a) = Less(w, j) /\ w[j] > 0
      BY <1>2, <1>4, <2>4, CwdLess
    <2>6. b \in Pwds /\ CwdsOf(b) = More(Less(w, j), i)
      <3>1. a[p] = None
        BY <1>4, <2>4 DEF CwdSet, Pwds
      <3> QED
        BY <2>4, <2>5, <3>1, CwdMore
    <2>7. pwd' = b
      <3>1. [a EXCEPT ![p] = i] = [c EXCEPT ![p] = i]
        BY <1>4, <2>4 DEF CwdSet, Pwds
      <3> QED
        BY <2>1, <2>4, <3>1 DEF CwdSet
    <2>8. w2 \in [Inos -> Nat] /\ w2[i] = w[i] + 2 /\ w2[j] = w[j]
          /\ \A l \in Inos \ {i} : w2[l] = w[l]
      <3>1. w2 \in [Inos -> Nat] /\ w2[i] = w1[i] + 1 /\ \A l \in Inos \ {i} : w2[l] = w1[l]
        BY <1>8, <2>2, CountsAre
      <3>2. \A l \in Inos \ {i} : w1[l] = w[l]
        BY <1>5, <1>6, CountsAre
      <3> QED
        BY <1>4, <1>5, <1>8, <1>10, <3>1, <3>2
    <2>9. Sound(set, h, w3)
      BY <1>3, <1>4, <2>2, <2>3, <2>5, <2>8, RefDec
    <2>10. w3[i] = w[i] + 2
      BY <1>10, <2>2, <2>8 DEF Less
    <2>11. w3[i] > 0
      BY <1>5, <2>10
    <2>12. Sound(g, h, w4)
      BY <2>2, <2>9, <2>11, RefDec
    <2>13. w4 = More(Less(w, j), i)
      <3>1. PICK v : v = More(Less(w, j), i)
        OBVIOUS
      <3>2. v = [l \in Inos |-> v[l]] /\ w4 = [l \in Inos |-> w4[l]]
        BY <1>5, <2>2, <2>8, <3>1 DEF More, Less
      <3>3. ASSUME NEW l \in Inos PROVE v[l] = w4[l]
        <4>1. CASE l = i
          <5>1. v[i] = w[i] + 1
            BY <1>4, <1>5, <1>10, <3>1 DEF More, Less
          <5>2. w4[i] = w3[i] - 1
            <6>1. i \in DOMAIN w3
              BY <2>2, <2>8 DEF Less
            <6> QED
              BY <2>2, <6>1 DEF Less
          <5> QED
            BY <1>5, <2>10, <4>1, <5>1, <5>2
        <4>2. CASE l # i
          <5>1. v[l] = Less(w, j)[l]
            BY <3>1, <4>2, <1>5 DEF More, Less
          <5>2. w4[l] = w3[l]
            BY <2>2, <2>8, <4>2 DEF Less
          <5>3. w3[l] = Less(w, j)[l]
            BY <1>5, <2>2, <2>8, <4>2 DEF Less
          <5> QED
            BY <5>1, <5>2, <5>3
        <4> QED
          BY <4>1, <4>2
      <3> QED
        BY <3>1, <3>2, <3>3
    <2>14. Sound(fs', HoldersOf(fd'), CwdsOf(pwd'))
      BY <1>1, <1>2, <2>1, <2>2, <2>6, <2>7, <2>12, <2>13
    <2>15. \A q \in Procs : b[q] = None => t[q] = NoFiles /\ q \notin alive
      <3>1. b[p] = i /\ \A q \in Procs \ {p} : b[q] = c[q]
        BY <1>4, <2>4, <2>5 DEF CwdSet, Pwds
      <3> QED
        BY <1>4, <3>1, FdConstants
    <2> QED
      BY <1>1, <1>2, <1>4, <2>6, <2>7, <2>14, <2>15 DEF Ordered
  <1> QED
    BY <1>9, <1>10

LEMMA ForkKeeps ==
  ASSUME FilesInv, NEW p \in Procs, NEW child \in Procs, copy_files(p, child)
  PROVE  Ordered'
  <1>1. /\ Running(p) /\ pwd[child] = None /\ alive' = alive \cup {child}
        /\ fs' = DupAll(inode_ref_inc(fs, pwd[p]), p, Opened(p))
        /\ pwd' = [pwd EXCEPT ![child] = pwd[p]] /\ fd' = [fd EXCEPT ![child] = fd[p]]
    BY DEF copy_files
  <1>2. PICK f, c, h, w, i, g, q :
          /\ f = fs /\ c = pwd /\ h = HoldersOf(fd) /\ w = CwdsOf(c) /\ i = c[p]
          /\ q = inode_ref_inc(f, i) /\ g = DupAll(q, p, Opened(p))
    OBVIOUS
  <1>3. /\ Sound(f, h, w) /\ fd \in Tables /\ c \in Pwds /\ p \in alive /\ i \in Inos
        /\ \A x \in Procs : c[x] = None => fd[x] = NoFiles /\ x \notin alive
    BY <1>1, <1>2, RunningIs
  <1>4. child # p /\ fd[child] = NoFiles /\ c[child] = None
    BY <1>1, <1>2, <1>3
  <1>5. Cached(f, i)
    <2>1. PICK a : a = CwdSet(c, p, None)
      OBVIOUS
    <2>2. w[i] > 0
      BY <1>2, <1>3, <2>1, CwdLess
    <2>3. w[i] # 0
      BY <2>2
    <2> QED
      BY <1>3, <2>3, SoundNode
  <1>6. PICK w1 : w1 = More(w, i)
    OBVIOUS
  <1>7. Sound(q, h, w1)
    BY <1>2, <1>3, <1>5, <1>6, RefInc
  <1>8. PICK u, t : u = DuppedTo(fd, p, child, NFD) /\ t = HoldersOf(u)
    OBVIOUS
  <1>9. Sound(g, t, w1)
    <2>1. Sound(q, HoldersOf(fd), w1) /\ child \in Procs \ {p}
      BY <1>2, <1>4, <1>7
    <2>2. Sound(g, HoldersOf(DuppedTo(fd, p, child, NFD)), w1)
      BY <1>2, <1>3, <1>4, <2>1, AllDupped
    <2> QED
      BY <1>8, <2>2
  <1>10. u = [fd EXCEPT ![child] = fd[p]]
    <2>1. \A m \in Fds : m < NFD
      BY FdConstants
    <2>2. [m \in Fds |-> IF m < NFD THEN fd[p][m] ELSE FD_NONE] = fd[p]
      BY <1>3, <2>1 DEF Tables
    <2> QED
      BY <1>8, <2>2 DEF DuppedTo
  <1>11. PICK d : d = CwdSet(c, child, i)
    OBVIOUS
  <1>12. d \in Pwds /\ CwdsOf(d) = w1 /\ pwd' = d
    <2>1. d \in Pwds /\ CwdsOf(d) = More(CwdsOf(c), i)
      BY <1>3, <1>4, <1>11, CwdMore
    <2> QED
      BY <1>1, <1>2, <1>6, <1>11, <2>1 DEF CwdSet
  <1>13. fd' = u /\ u \in Tables
    BY <1>1, <1>3, <1>10 DEF Tables
  <1>14. Sound(fs', HoldersOf(fd'), CwdsOf(pwd'))
    BY <1>1, <1>2, <1>8, <1>9, <1>12, <1>13
  <1>15. \A x \in Procs : d[x] = None => u[x] = NoFiles /\ x \notin alive \cup {child}
    <2>1. d[child] = i /\ \A x \in Procs \ {child} : d[x] = c[x] /\ u[x] = fd[x]
      BY <1>3, <1>10, <1>11 DEF CwdSet, Pwds, Tables
    <2> QED
      BY <1>3, <2>1, FdConstants
  <1> QED
    BY <1>1, <1>12, <1>13, <1>14, <1>15 DEF Ordered

LEMMA ExitKeeps ==
  ASSUME FilesInv, NEW p \in Procs, put_files(p)
  PROVE  Ordered'
  <1>1. /\ Running(p) /\ alive' = alive \ {p}
        /\ fs' = CloseAll(inode_ref_dec(fs, pwd[p]), p, Opened(p))
        /\ pwd' = [pwd EXCEPT ![p] = None] /\ fd' = [fd EXCEPT ![p] = NoFiles]
    BY DEF put_files
  <1>2. PICK f, c, h, w, i, g, q :
          /\ f = fs /\ c = pwd /\ h = HoldersOf(fd) /\ w = CwdsOf(c) /\ i = c[p]
          /\ q = inode_ref_dec(f, i) /\ g = CloseAll(q, p, Opened(p))
    OBVIOUS
  <1>3. /\ Sound(f, h, w) /\ fd \in Tables /\ c \in Pwds /\ p \in alive /\ i \in Inos
        /\ \A x \in Procs : c[x] = None => fd[x] = NoFiles /\ x \notin alive
    BY <1>1, <1>2, RunningIs
  <1>4. PICK d, w1 : d = CwdSet(c, p, None) /\ w1 = Less(w, i)
    OBVIOUS
  <1>5. d \in Pwds /\ CwdsOf(d) = w1 /\ w[i] > 0 /\ pwd' = d
    <2>1. d \in Pwds /\ CwdsOf(d) = Less(CwdsOf(c), i) /\ CwdsOf(c)[i] > 0
      BY <1>2, <1>3, <1>4, CwdLess
    <2> QED
      BY <1>1, <1>2, <1>4, <2>1 DEF CwdSet
  <1>6. Sound(q, h, w1)
    BY <1>2, <1>3, <1>4, <1>5, RefDec
  <1>7. PICK u, t : u = ClosedTo(fd, p, Opened(p), NFD) /\ t = HoldersOf(u)
    OBVIOUS
  <1>8. Sound(g, t, w1)
    <2>1. Sound(q, HoldersOf(fd), w1)
      BY <1>2, <1>6
    <2>2. Sound(g, HoldersOf(ClosedTo(fd, p, Opened(p), NFD)), w1)
      BY <1>2, <1>3, <2>1, AllClosed
    <2> QED
      BY <1>7, <2>2
  <1>9. u = [fd EXCEPT ![p] = NoFiles]
    <2>1. \A m \in Fds : m < NFD
      BY FdConstants
    <2>2. [m \in Fds |-> IF m \in Opened(p) /\ m < NFD THEN FD_NONE ELSE fd[p][m]] = NoFiles
      BY <2>1 DEF Opened, NoFiles
    <2> QED
      BY <1>7, <2>2 DEF ClosedTo
  <1>10. fd' = u /\ u \in Tables
    BY <1>1, <1>3, <1>9, FdConstants DEF Tables
  <1>11. Sound(fs', HoldersOf(fd'), CwdsOf(pwd'))
    BY <1>1, <1>2, <1>5, <1>7, <1>8, <1>10
  <1>12. \A x \in Procs : d[x] = None => u[x] = NoFiles /\ x \notin alive \ {p}
    <2>1. u[p] = NoFiles /\ \A x \in Procs \ {p} : d[x] = c[x] /\ u[x] = fd[x]
      BY <1>3, <1>4, <1>9 DEF CwdSet, Pwds, Tables
    <2> QED
      BY <1>3, <2>1
  <1> QED
    BY <1>1, <1>5, <1>10, <1>11, <1>12 DEF Ordered

LEMMA ExecKeeps ==
  ASSUME FilesInv, NEW p \in Procs, NEW i \in Inos, do_execve(p, i)
  PROVE  Ordered'
  <1>1. PICK closing : closing = {k \in Opened(p) : k >= FirstFd}
    OBVIOUS
  <1>2. PICK closed, room, left : /\ closed = CloseAll(fs, p, closing)
                                  /\ room = Free(p) \cup closing
                                  /\ left = [k \in Fds |-> IF k \in closing THEN FD_NONE ELSE fd[p][k]]
    OBVIOUS
  <1>3. PICK k, e : k = Min(room) /\ e = File(i, 0, FALSE)
    OBVIOUS
  <1>4. /\ Running(p) /\ room # {} /\ pwd' = pwd
        /\ fs' = vfs_open(sfs_load_inode(closed, i), i, FALSE, FALSE, FALSE, FALSE, FALSE).fs
        /\ fd' = [fd EXCEPT ![p] = [left EXCEPT ![k] = e]]
    BY <1>1, <1>2, <1>3, Zenon DEF do_execve
  <1>5. alive' = alive \/ alive' = alive \ {p}
    BY Zenon DEF do_execve
  <1>6. PICK h, w, w1, f : h = HoldersOf(fd) /\ w = CwdsOf(pwd) /\ w1 = More(w, i) /\ f = fs
    OBVIOUS
  <1>7. /\ Sound(f, h, w) /\ fd \in Tables /\ pwd \in Pwds /\ pwd[p] \in Inos
        /\ \A x \in Procs : pwd[x] = None => fd[x] = NoFiles /\ x \notin alive
    BY <1>4, <1>6, RunningIs
  <1>8. PICK u, t : u = ClosedTo(fd, p, closing, NFD) /\ t = HoldersOf(u)
    OBVIOUS
  <1>9. Sound(closed, t, w)
    <2>1. Sound(f, HoldersOf(fd), w) /\ closed = CloseAll(f, p, closing)
          /\ closing \in SUBSET Opened(p)
      BY <1>1, <1>2, <1>6, <1>7
    <2>2. Sound(closed, HoldersOf(ClosedTo(fd, p, closing, NFD)), w)
      BY <1>7, <2>1, AllClosed
    <2> QED
      BY <1>8, <2>2
  <1>10. u = [fd EXCEPT ![p] = left] /\ left \in [Fds -> FdEntries] /\ u \in Tables
    <2>1. \A m \in Fds : m < NFD
      BY FdConstants
    <2>2. [m \in Fds |-> IF m \in closing /\ m < NFD THEN FD_NONE ELSE fd[p][m]] = left
      BY <1>2, <2>1
    <2>3. u = [fd EXCEPT ![p] = left]
      BY <1>8, <2>2 DEF ClosedTo
    <2>4. left \in [Fds -> FdEntries]
      BY <1>2, <1>7, FdConstants DEF Tables
    <2> QED
      BY <1>7, <2>3, <2>4 DEF Tables
  <1>11. k \in Fds /\ left[k] = FD_NONE
    <2>1. room \subseteq Fds /\ Fds \subseteq Nat
      BY <1>1, <1>2, FdConstants DEF Free, Opened
    <2>2. k \in room
      BY <1>3, <1>4, <2>1, MinIn
    <2>3. k \in Fds
      BY <2>1, <2>2
    <2> QED
      BY <1>2, <2>2, <2>3 DEF Free, Opened
  <1>12. PICK q, g : q = sfs_load_inode(closed, i) /\ g = inode_open_inc(q, i)
    OBVIOUS
  <1>13. fs' = g
    <2>1. vfs_open(q, i, FALSE, FALSE, FALSE, FALSE, FALSE) = Done(inode_open_inc(q, i))
      BY Zenon DEF vfs_open
    <2>2. fs' = Done(g).fs
      BY <1>4, <1>12, <2>1, Zenon
    <2> QED
      BY <2>2 DEF Done
  <1>14. Sound(q, t, w1)
    BY <1>6, <1>9, <1>12, LoadInode
  <1>15. w1[i] > 0 /\ Less(w1, i) = w
    <2>1. w \in [Inos -> Nat]
      BY <1>7, SoundNode
    <2>2. w1[i] = w[i] + 1 /\ Less(w1, i) = w
      BY <1>6, <2>1, CountsAre
    <2> QED
      BY <2>1, <2>2
  <1>16. Sound(g, More(t, i), w)
    <2>1. Sound(g, More(t, i), Less(w1, i))
      BY <1>12, <1>14, <1>15, OpenInc
    <2> QED
      BY <1>15, <2>1
  <1>17. PICK v : v = FdSet(u, p, k, e)
    OBVIOUS
  <1>18. fd' = v
    <2>1. u[p] = left
      BY <1>7, <1>10 DEF Tables
    <2>2. PICK n : n = [left EXCEPT ![k] = e]
      OBVIOUS
    <2>3. [u EXCEPT ![p] = n] = [fd EXCEPT ![p] = n]
      BY <1>7, <1>10 DEF Tables
    <2> QED
      BY <1>4, <1>17, <2>1, <2>2, <2>3 DEF FdSet
  <1>19. v \in Tables /\ HoldersOf(v) = More(t, i)
    <2>1. e \in FdEntries /\ e.node = i
      BY <1>3 DEF File, FdEntries
    <2>2. u[p][k] = FD_NONE
      BY <1>7, <1>10, <1>11 DEF Tables
    <2>3. u \in Tables /\ k \in Fds
      BY <1>10, <1>11
    <2>4. v \in Tables /\ HoldersOf(v) = More(HoldersOf(u), i)
      BY <1>17, <2>1, <2>2, <2>3, HoldMore
    <2> QED
      BY <1>8, <2>4
  <1>20. Sound(fs', HoldersOf(fd'), CwdsOf(pwd'))
    BY <1>4, <1>6, <1>13, <1>16, <1>18, <1>19
  <1>21. \A x \in Procs : pwd[x] = None => v[x] = NoFiles /\ x \notin alive'
    <2>1. \A x \in Procs \ {p} : v[x] = fd[x]
      BY <1>7, <1>10, <1>17 DEF FdSet, Tables
    <2> QED
      BY <1>5, <1>7, <2>1, FdConstants
  <1> QED
    BY <1>4, <1>7, <1>18, <1>19, <1>20, <1>21 DEF Ordered

LEMMA CleanupKeeps ==
  ASSUME FilesInv, fs_cleanup
  PROVE  Ordered'
  <1>1. Quiet(fs)
    BY Zenon DEF fs_cleanup, Quiet
  <1>2. fs' = sfs_sync(fs) /\ pwd' = pwd /\ fd' = fd /\ alive' = alive
    BY Zenon DEF fs_cleanup, tables
  <1>3. Ordered
    BY <1>1 DEF FilesInv
  <1>4. PICK f, h, w, g : /\ f = fs /\ h = HoldersOf(fd) /\ w = CwdsOf(pwd) /\ g = sfs_sync(f)
    OBVIOUS
  <1>5. Good(f) /\ Quiet(f) /\ Counted(f, h, w)
    BY <1>3, <1>4 DEF Ordered, Sound
  <1>6. /\ Good(g) /\ g.panic = f.panic
        /\ \A i \in Inos : /\ Cached(g, i) <=> Cached(f, i)
                           /\ Cached(f, i) => /\ g.cache[i].ref = f.cache[i].ref
                                              /\ g.cache[i].open = f.cache[i].open
    BY <1>4, <1>5, SyncKeeps
  <1>7. Quiet(g)
    BY <1>5, <1>6, Zenon DEF Quiet
  <1>8. Counted(g, h, w)
    BY <1>5, <1>6 DEF Counted
  <1>9. Sound(fs', HoldersOf(fd'), CwdsOf(pwd'))
    BY <1>2, <1>4, <1>6, <1>7, <1>8 DEF Sound
  <1> QED
    BY <1>2, <1>3, <1>9 DEF Ordered
-----------------------------------------------------------------------------
(* Every step keeps the invariant; one that fails an assertion is the last.*)
LEMMA FilesStep == FilesInv /\ [FilesNext]_files_vars => FilesInv'
  <1> SUFFICES ASSUME FilesInv, [FilesNext]_files_vars, Quiet(fs') PROVE Ordered'
    BY DEF FilesInv
  <1>1. CASE UNCHANGED files_vars
    <2>1. fs' = fs /\ pwd' = pwd /\ fd' = fd /\ alive' = alive
      BY <1>1 DEF files_vars
    <2>2. Quiet(fs)
      BY <2>1
    <2>3. Ordered
      BY <2>2 DEF FilesInv
    <2> QED
      BY <2>1, <2>3 DEF Ordered
  <1>2. CASE fs_cleanup
    BY <1>2, CleanupKeeps
  <1>3. ASSUME NEW p \in Procs, NEW i \in Inos, Open(p, i) \/ vfs_chdir(p, i) \/ do_execve(p, i)
        PROVE  Ordered'
    <2>1. CASE Open(p, i)
      <3>1. PICK cw, tr, cr, ex, ap \in BOOLEAN : file_open(p, i, cw, tr, cr, ex, ap)
        BY <2>1, Zenon DEF Open
      <3> QED
        BY <3>1, OpenKeeps, Zenon
    <2>2. CASE vfs_chdir(p, i)
      BY <2>2, ChdirKeeps
    <2>3. CASE do_execve(p, i)
      BY <2>3, ExecKeeps
    <2> QED
      BY <1>3, <2>1, <2>2, <2>3
  <1>4. ASSUME NEW p \in Procs, OpenMissing(p) PROVE Ordered'
    BY <1>4, OpenMissingKeeps
  <1>5. ASSUME NEW p \in Procs, NEW k \in Fds,
               file_close(p, k) \/ file_read(p, k) \/ file_write(p, k) \/ file_fsync(p, k)
        PROVE  Ordered'
    BY <1>5, CloseKeeps, ReadKeeps, WriteKeeps, FsyncKeeps
  <1>6. ASSUME NEW p \in Procs, NEW k \in Fds, NEW pos \in Positions, file_seek(p, k, pos)
        PROVE  Ordered'
    BY <1>6, SeekKeeps
  <1>7. ASSUME NEW p \in Procs, NEW k \in Fds, NEW to \in Fds, file_dup(p, k, to)
        PROVE  Ordered'
    BY <1>7, DupKeeps
  <1>8. ASSUME NEW p \in Procs, NEW child \in Procs, copy_files(p, child) PROVE Ordered'
    BY <1>8, ForkKeeps
  <1>9. ASSUME NEW p \in Procs, put_files(p) PROVE Ordered'
    BY <1>9, ExitKeeps
  <1> QED
    BY <1>1, <1>2, <1>3, <1>4, <1>5, <1>6, <1>7, <1>8, <1>9, Zenon DEF FilesNext

(* As long as no assertion has failed, the file system is in order: every  *)
(* block is free or stands at one place of one file, an inode that is not  *)
(* dirty names the blocks that its disk inode names, the superblock on the *)
(* disk is right unless it is marked, and the references and the opens of  *)
(* every inode cover the tables of the processes.                          *)
THEOREM FilesInvariant == FilesSpec => []FilesInv
  <1>1. FilesInit => FilesInv
    BY InitOrdered DEF FilesInv
  <1> QED
    BY <1>1, FilesStep, PTL DEF FilesSpec

(* The counts of inode.h cover all uses of an inode: none is reclaimed     *)
(* while an open file or a current directory points to it (inode_ref_dec,  *)
(* sfs_reclaim), with any number of processes, files and descriptors.      *)
THEOREM FilesRefsCovered == FilesSpec => []RefsCovered
  <1>1. FilesInv => RefsCovered
    <2> SUFFICES ASSUME FilesInv, Quiet(fs), NEW i \in Inos
                 PROVE  IF Cached(fs, i)
                        THEN /\ fs.cache[i].ref > 0
                             /\ fs.cache[i].ref >= References(i)
                             /\ fs.cache[i].open = Cardinality(Holders(i))
                        ELSE References(i) = 0
      BY Zenon DEF RefsCovered, Quiet
    <2>1. PICK f, h, w : f = fs /\ h = HoldersOf(fd) /\ w = CwdsOf(pwd)
      OBVIOUS
    <2>2. Sound(f, h, w)
      BY <2>1 DEF FilesInv, Ordered
    <2>3. h[i] = Cardinality(Holders(i))
      BY <2>1 DEF HoldersOf, HeldBy, Holders
    <2>4. w[i] = Cardinality(Cwds(i)) + (IF i = Root THEN 1 ELSE 0)
      BY <2>1 DEF CwdsOf, Cwds
    <2>5. References(i) = h[i] + w[i]
      <3>1. h[i] \in Nat /\ Cardinality(Cwds(i)) \in Nat
        <4>1. h[i] \in Nat
          BY <2>2, SoundNode
        <4>2. Cwds(i) = InDir(pwd, i)
          BY DEF Cwds, InDir
        <4> QED
          BY <4>1, <4>2, CwdsAre
      <3> QED
        BY <2>3, <2>4, <3>1 DEF References
    <2>6. CASE Cached(f, i)
      <3>1. f.cache[i] \in Nodes /\ f.cache[i].ref >= h[i] + w[i] /\ f.cache[i].open = h[i]
        BY <2>2, <2>6, SoundNode
      <3>2. f.cache[i].ref > 0
        BY <3>1 DEF Nodes
      <3> QED
        BY <2>1, <2>3, <2>5, <2>6, <3>1, <3>2
    <2>7. CASE ~Cached(f, i)
      <3>1. h[i] = 0 /\ w[i] = 0
        BY <2>2, <2>7, SoundNode
      <3> QED
        BY <2>1, <2>5, <2>7, <3>1
    <2> QED
      BY <2>6, <2>7
  <1> QED
    BY <1>1, FilesInvariant, PTL

(* Each block is at one place of one file or is free, through every        *)
(* allocation, extension that runs out of blocks half way, truncation and  *)
(* unmount (sfs_bmap_get_nolock, sfs_bmap_truncate_nolock, sfs_truncfile), *)
(* and both counts of free blocks agree.                                   *)
THEOREM FilesBlocksOwnedOnce == FilesSpec => []BlocksOwnedOnce
  <1>1. FilesInv => BlocksOwnedOnce
    <2> SUFFICES ASSUME FilesInv, Quiet(fs)
                 PROVE  OwnedOnce(fs, [i \in Inos |-> Din(fs, i)], fs.freemap, fs.unused)
      BY Zenon DEF BlocksOwnedOnce, Quiet
    <2>1. PICK f, d, fr : f = fs /\ d = DinsOf(f) /\ fr = f.freemap
      OBVIOUS
    <2>2. Good(f)
      BY <2>1 DEF FilesInv, Ordered, Sound
    <2>3. f \in Mounts /\ fr \in SUBSET Data /\ f.unused = Cardinality(fr)
          /\ Own(Numbers(f.entries, d), fr)
      BY <2>1, <2>2 DEF Good, Mounts, NumbersOf
    <2>4. d \in [Inos -> Dins]
      BY <2>1, <2>3, CachedNode DEF DinsOf
    <2>5. OwnedOnce(f, d, fr, Cardinality(fr))
      BY <2>3, <2>4, OwnedFromOwn
    <2> QED
      BY <2>1, <2>3, <2>5 DEF DinsOf
  <1> QED
    BY <1>1, FilesInvariant, PTL

(* Whenever sfs_sync runs, it leaves a disk on which every block has one   *)
(* owner and the free map and its count are right.                         *)
THEOREM FilesSyncSaves == FilesSpec => []SyncSaves
  <1>1. FilesInv => SyncSaves
    <2> SUFFICES ASSUME FilesInv, Quiet(fs)
                 PROVE  LET f == sfs_sync(fs)
                        IN  ~f.super_dirty /\ OwnedOnce(f, f.disk, f.saved.freemap, f.saved.unused)
      BY Zenon DEF SyncSaves, Quiet
    <2>1. PICK f, g : f = fs /\ g = sfs_sync(f)
      OBVIOUS
    <2>2. Good(f)
      BY <2>1 DEF FilesInv, Ordered, Sound
    <2>3. PICK d, fr : d = g.disk /\ fr = g.saved.freemap
      OBVIOUS
    <2>4. /\ Good(g) /\ ~g.super_dirty /\ d \in [Inos -> Dins] /\ fr \in SUBSET Data
          /\ Own(Numbers(g.entries, d), fr) /\ g.saved.unused = Cardinality(fr)
      BY <2>1, <2>2, <2>3, SyncKeeps
    <2>5. g \in Mounts
      BY <2>4 DEF Good
    <2>6. OwnedOnce(g, d, fr, Cardinality(fr))
      BY <2>4, <2>5, OwnedFromOwn
    <2> QED
      BY <2>1, <2>3, <2>4, <2>6
  <1> QED
    BY <1>1, FilesInvariant, PTL
===============================================================================
