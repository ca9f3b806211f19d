--------------------------- MODULE FreeListProofs ---------------------------
(***************************************************************************)
(* For memories of every size: while the callers leave the last page free, *)
(* the list of first fit and of best fit is whole and in order, its blocks *)
(* are the pages that nobody has and do not touch, alloc_pages returns     *)
(* what first fit or best fit promises, and nobody gets a page twice.      *)
(* In the second half: the SLOB heap over such pages is whole as well, for *)
(* every sequence of kmalloc and kfree.                                    *)
(***************************************************************************)
EXTENDS FreeList, Slob, WellFoundedInduction, FiniteSetTheorems, TLAPS

Entries == Pages \cup {free_list}
Lengths == [Pages -> 0..NPAGE]
Links == [next : [Entries -> Entries], prev : [Entries -> Entries]]

(* No entry of S lies between p and q, which follows p in the ring. *)
NoneBetween(S, p, q) ==
  \/ q = free_list /\ \A r \in S : r <= p
  \/ q # free_list /\ p < q /\ \A r \in S : r <= p \/ q <= r

(* The list with the links l consists of S, in the order of the addresses. *)
Linked(l, S) ==
  \A p \in S \cup {free_list} :
    /\ l.next[p] \in S \cup {free_list} /\ l.prev[l.next[p]] = p
    /\ l.prev[p] \in S \cup {free_list} /\ l.next[l.prev[p]] = p
    /\ NoneBetween(S, p, l.next[p])

(* The blocks that begin at S and are f long do not overlap, and hold just *)
(* the pages outside T.                                                    *)
Within(S, f, x) == \E p \in S : p <= x /\ x < p + f[p]
Covers(S, f, T) ==
  /\ \A p \in S : f[p] > 0 /\ p + f[p] <= NPAGE
  /\ \A p, q \in S : p < q => p + f[p] <= q
  /\ \A x \in Pages : x \notin T <=> Within(S, f, x)

(* The list l holds L; the blocks that begin at S hold the pages outside   *)
(* T, which are c pages, the last page of memory among them.               *)
Whole(l, L, S, f, T, c) ==
  /\ l \in Links /\ L \in SUBSET Pages /\ Linked(l, L)
  /\ S \in SUBSET Pages /\ f \in Lengths /\ T \in SUBSET Pages /\ Covers(S, f, T)
  /\ c = Cardinality(Pages \ T)
  /\ NPAGE - 1 \notin T

(* Page p is the one that the loop of alloc_pages has to choose in S, if   *)
(* there is one at all.                                                    *)
Better(m, f, p, q) ==
  IF m = "best_fit" THEN f[p] < f[q] \/ (f[p] = f[q] /\ p <= q) ELSE p <= q
Best(m, f, k, S, p) ==
  \/ p = NULL /\ \A q \in S : f[q] < k
  \/ p \in S /\ f[p] >= k /\ \A q \in S : f[q] >= k => Better(m, f, p, q)

(* What is in the list, and the pages that are in use: those that          *)
(* alloc_pages is about to return are in neither of the model's two sets.  *)
Listed == IF pc = "insert" THEN PG_property \ {base} ELSE PG_property
Taken == IF pc = "alloc_ret" /\ page # NULL THEN used \cup Block(page, n) ELSE used

(* Only the block that free_pages is working on may touch another one. *)
Merged ==
  \A p, q \in PG_property : p + property[p] = q =>
    \/ pc \in {"insert", "merge_prev"} /\ base \in {p, q}
    \/ pc = "merge_next" /\ base = p

Allocating ==
  /\ pc \in {"alloc_scan", "alloc_take", "alloc_ret"} => n \in 1..MAX_N /\ Acceptable(n)
  /\ pc = "alloc_scan" =>
       /\ le \in PG_property \cup {free_list}
       /\ Best(pmm_manager, property, n, {p \in PG_property : p <= le}, page)
       /\ pmm_manager = "default" => page = NULL
  /\ pc = "alloc_take" => page # NULL /\ Best(pmm_manager, property, n, PG_property, page)
  /\ pc = "alloc_ret" => /\ page = Fit(n)
                         /\ page # NULL => Block(page, n) \subseteq Pages \ used

Freeing ==
  /\ pc \in {"insert", "merge_prev", "merge_next"} => base \in PG_property
  /\ pc = "insert" =>
       /\ le \in Listed \cup {free_list} /\ le < base
       /\ \E z \in Listed : base < z

IInv ==
  /\ TypeOK
  /\ pc # "panic"
  /\ Whole(link, Listed, PG_property, property, Taken, nr_free)
  /\ Merged /\ Allocating /\ Freeing
-----------------------------------------------------------------------------
(* What list_add and list_del do to the list. *)
LEMMA LinkTypes ==
  ASSUME NEW l \in Links
  PROVE  /\ l.next \in [Entries -> Entries] /\ l.prev \in [Entries -> Entries]
         /\ \A p \in Entries : l.next[p] \in Entries /\ l.prev[p] \in Entries
  BY DEF Links

(* What pages and list entries are. *)
LEMMA PageTypes ==
  /\ Pages \subseteq Nat /\ free_list \notin Pages /\ free_list \in Entries
  /\ NULL \notin Pages /\ (\A p \in Pages : free_list < p) /\ NULL # free_list
  /\ free_list \in Int /\ IsFiniteSet(Pages) /\ Entries \subseteq Int
  BY FreeListAssumption, FS_Interval DEF Pages, free_list, Entries, NULL

(* How the gaps between the entries change with them. *)
LEMMA GapSplit ==
  ASSUME NEW S \in SUBSET Nat, NEW p \in S \cup {free_list}, NEW q \in Int, NEW x \in Nat,
         p < x, q = free_list \/ x < q, NoneBetween(S, p, q)
  PROVE  /\ NoneBetween(S \cup {x}, p, x) /\ NoneBetween(S \cup {x}, x, q)
         /\ \A e \in S \cup {free_list}, d \in Int :
              e # p /\ NoneBetween(S, e, d) => NoneBetween(S \cup {x}, e, d)
  <1>1. S \cup {free_list} \subseteq Int /\ free_list = -1
    BY DEF free_list
  <1>2. NoneBetween(S \cup {x}, p, x) /\ NoneBetween(S \cup {x}, x, q)
    BY <1>1 DEF NoneBetween
  <1>3. ASSUME NEW e \in S \cup {free_list}, NEW d \in Int, e # p, NoneBetween(S, e, d)
        PROVE  NoneBetween(S \cup {x}, e, d)
    <2>1. e \in Int /\ p \in Int /\ -1 <= e /\ -1 <= p
      BY <1>1
    <2>2. CASE e < p
      <3>1. p \in S
        BY <1>1, <2>1, <2>2
      <3>2. d # free_list /\ d <= p
        BY <1>3, <2>1, <2>2, <3>1 DEF NoneBetween
      <3> QED
        BY <1>1, <1>3, <2>1, <3>2 DEF NoneBetween
    <2>3. CASE p < e
      <3>1. e \in S
        BY <1>1, <2>1, <2>3
      <3>2. x <= e
        BY <1>1, <2>1, <2>3, <3>1 DEF NoneBetween
      <3> QED
        BY <1>1, <1>3, <2>1, <3>2 DEF NoneBetween
    <2> QED
      BY <1>3, <2>1, <2>2, <2>3
  <1> QED
    BY <1>2, <1>3

(* The gaps before and behind x become one when x leaves. *)
LEMMA GapJoin ==
  ASSUME NEW S \in SUBSET Nat, NEW p \in Int, NEW x \in S, NEW q \in Int,
         NoneBetween(S, p, x), NoneBetween(S, x, q)
  PROVE  NoneBetween(S \ {x}, p, q)
  BY DEF NoneBetween, free_list

(* list_add_between puts x where its address belongs. *)
LEMMA AddLinked ==
  ASSUME NEW l \in Links, NEW S \in SUBSET Pages, Linked(l, S),
         NEW p \in S \cup {free_list}, NEW x \in Pages \ S, p < x,
         l.next[p] = free_list \/ x < l.next[p]
  PROVE  /\ list_add_between(l, x, p, l.next[p]) \in Links
         /\ Linked(list_add_between(l, x, p, l.next[p]), S \cup {x})
  <1> DEFINE q == l.next[p]
             m == list_add_between(l, x, p, q)
             T == S \cup {x}
  <1>0. S \cup {free_list} \subseteq Entries /\ x \in Entries /\ x \notin S \cup {free_list}
    BY PageTypes DEF Entries
  <1>1. /\ q \in S \cup {free_list} /\ l.prev[q] = p /\ p # x /\ q # x
        /\ NoneBetween(S, p, q) /\ p \in Entries /\ q \in Entries /\ x \in Entries
    BY <1>0 DEF Linked
  <1>2. /\ m \in Links
        /\ \A e \in Entries : m.next[e] = IF e = x THEN q ELSE IF e = p THEN x ELSE l.next[e]
        /\ \A e \in Entries : m.prev[e] = IF e = x THEN p ELSE IF e = q THEN x ELSE l.prev[e]
    BY <1>1, LinkTypes DEF list_add_between, Links
  <1> HIDE DEF m, q
  <1>3. ASSUME NEW e \in T \cup {free_list}
        PROVE  /\ m.next[e] \in T \cup {free_list} /\ m.prev[m.next[e]] = e
               /\ m.prev[e] \in T \cup {free_list} /\ m.next[m.prev[e]] = e
    <2>1. CASE e = x
      BY <1>1, <1>2, <2>1
    <2>2. CASE e # x
      <3>1. /\ e \in S \cup {free_list} /\ e \in Entries
            /\ l.next[e] \in S \cup {free_list} /\ l.prev[l.next[e]] = e
            /\ l.prev[e] \in S \cup {free_list} /\ l.next[l.prev[e]] = e
        BY <2>2, PageTypes DEF Linked, Entries
      <3>2. l.next[e] \in Entries /\ l.next[e] # x /\ l.prev[e] \in Entries /\ l.prev[e] # x
        BY <3>1, PageTypes DEF Entries
      <3>3. m.next[e] \in T \cup {free_list} /\ m.prev[m.next[e]] = e
        BY <1>1, <1>2, <2>2, <3>1, <3>2 DEF q
      <3>4. m.prev[e] \in T \cup {free_list} /\ m.next[m.prev[e]] = e
        BY <1>1, <1>2, <2>2, <3>1, <3>2 DEF q
      <3> QED
        BY <3>3, <3>4
    <2> QED
      BY <2>1, <2>2
  <1>4. ASSUME NEW e \in T \cup {free_list}
        PROVE  NoneBetween(T, e, m.next[e])
    <2>1. /\ S \in SUBSET Nat /\ q \in Int /\ x \in Nat /\ (q = free_list \/ x < q)
          /\ NoneBetween(S, p, q)
      BY <1>1, PageTypes DEF q
    <2>2. NoneBetween(T, p, x) /\ NoneBetween(T, x, q)
      BY <2>1, GapSplit
    <2>3. CASE e # x /\ e # p
      <3>1. /\ e \in S \cup {free_list} /\ e \in Entries /\ NoneBetween(S, e, l.next[e])
            /\ l.next[e] \in Entries /\ m.next[e] = l.next[e]
        BY <1>0, <1>2, <2>3, LinkTypes DEF Linked
      <3>2. l.next[e] \in Int
        BY <3>1, PageTypes
      <3> QED
        BY <2>1, <2>3, <3>1, <3>2, GapSplit
    <2> QED
      BY <1>1, <1>2, <2>2, <2>3
  <1> QED
    BY <1>2, <1>3, <1>4 DEF Linked, q, m

(* list_del takes x out and leaves the order of the others. *)
LEMMA DelLinked ==
  ASSUME NEW l \in Links, NEW S \in SUBSET Pages, Linked(l, S), NEW x \in S
  PROVE  /\ list_del(l, x) \in Links
         /\ Linked(list_del(l, x), S \ {x})
         /\ l.prev[x] \in (S \ {x}) \cup {free_list}
         /\ list_del(l, x).next[l.prev[x]] = l.next[x]
         /\ l.next[x] # x
  <1> DEFINE p == l.prev[x]
             q == l.next[x]
             m == list_del(l, x)
             T == S \ {x}
  <1>1. /\ x \in Entries /\ p \in S \cup {free_list} /\ q \in S \cup {free_list}
        /\ p \in Entries /\ q \in Entries /\ l.next[p] = x /\ l.prev[q] = x
        /\ NoneBetween(S, p, x) /\ NoneBetween(S, x, q)
    BY PageTypes DEF Linked, Entries
  <1>2. p < x /\ p # x /\ q # x
    BY <1>1, PageTypes DEF NoneBetween
  <1>3. /\ m \in Links
        /\ \A e \in Entries : m.next[e] = IF e = p THEN q ELSE l.next[e]
        /\ \A e \in Entries : m.prev[e] = IF e = q THEN p ELSE l.prev[e]
    BY <1>1, LinkTypes DEF list_del, Links
  <1> HIDE DEF m, q, p
  <1>4. ASSUME NEW e \in T \cup {free_list}
        PROVE  /\ m.next[e] \in T \cup {free_list} /\ m.prev[m.next[e]] = e
               /\ m.prev[e] \in T \cup {free_list} /\ m.next[m.prev[e]] = e
    <2>1. /\ e \in S \cup {free_list} /\ e \in Entries /\ e # x
          /\ l.next[e] \in S \cup {free_list} /\ l.prev[l.next[e]] = e
          /\ l.prev[e] \in S \cup {free_list} /\ l.next[l.prev[e]] = e
      BY PageTypes DEF Linked, Entries
    <2>2. l.next[e] \in Entries /\ l.prev[e] \in Entries
      BY <2>1, PageTypes DEF Entries
    <2>3. m.next[e] \in T \cup {free_list} /\ m.prev[m.next[e]] = e
      BY <1>1, <1>2, <1>3, <2>1, <2>2 DEF p, q
    <2>4. m.prev[e] \in T \cup {free_list} /\ m.next[m.prev[e]] = e
      BY <1>1, <1>2, <1>3, <2>1, <2>2 DEF p, q
    <2> QED
      BY <2>3, <2>4
  <1>5. ASSUME NEW e \in T \cup {free_list}
        PROVE  NoneBetween(T, e, m.next[e])
    <2>1. /\ e \in Entries /\ NoneBetween(S, e, l.next[e])
      BY PageTypes DEF Linked, Entries
    <2>2. CASE e = p
      <3>1. S \in SUBSET Nat /\ p \in Int /\ q \in Int
        BY <1>1, PageTypes
      <3> QED
        BY <1>1, <1>3, <2>2, <3>1, GapJoin
    <2>3. CASE e # p
      BY <1>3, <2>1, <2>3 DEF NoneBetween
    <2> QED
      BY <2>2, <2>3
  <1> QED
    BY <1>1, <1>2, <1>3, <1>4, <1>5 DEF Linked, p, q, m
-----------------------------------------------------------------------------
(* What splitting, freeing and merging do to the blocks. *)
LEMMA BlockPages ==
  ASSUME NEW p \in Int, NEW k \in Nat
  PROVE  /\ \A x : x \in Block(p, k) <=> x \in Int /\ p <= x /\ x < p + k
         /\ IsFiniteSet(Block(p, k)) /\ Cardinality(Block(p, k)) = k
  <1>1. p + k - 1 \in Int /\ Block(p, k) = p..(p + k - 1)
    BY DEF Block
  <1> QED
    BY <1>1, FS_Interval

(* Pages as an interval. *)
LEMMA InPages == \A x : x \in Pages <=> x \in Int /\ 0 <= x /\ x < NPAGE
  BY FreeListAssumption DEF Pages

(* The free pages are counted when a block of them is taken ... *)
LEMMA CountTaken ==
  ASSUME NEW T \in SUBSET Pages, NEW p \in Pages, NEW k \in Nat, Block(p, k) \subseteq Pages \ T
  PROVE  /\ k <= Cardinality(Pages \ T)
         /\ Cardinality(Pages \ (T \cup Block(p, k))) = Cardinality(Pages \ T) - k
  <1> DEFINE F == Pages \ T
             B == Block(p, k)
  <1>1. IsFiniteSet(F) /\ B \in SUBSET F /\ Pages \ (T \cup B) = F \ B /\ F \cap B = B
    BY PageTypes, FS_Subset
  <1>2. Cardinality(B) = k
    BY BlockPages, PageTypes
  <1>3. Cardinality(B) <= Cardinality(F)
    BY <1>1, FS_Subset
  <1>4. Cardinality(F \ B) = Cardinality(F) - Cardinality(F \cap B)
    BY <1>1, FS_Difference
  <1> QED
    BY <1>1, <1>2, <1>3, <1>4

(* ... and given back. *)
LEMMA CountFreed ==
  ASSUME NEW T \in SUBSET Pages, NEW p \in Pages, NEW k \in Nat, Block(p, k) \subseteq T
  PROVE  Cardinality(Pages \ (T \ Block(p, k))) = Cardinality(Pages \ T) + k
  <1> DEFINE U == T \ Block(p, k)
  <1>1. U \in SUBSET Pages /\ Block(p, k) \subseteq Pages \ U /\ U \cup Block(p, k) = T
    OBVIOUS
  <1> HIDE DEF U
  <1>2. Cardinality(Pages \ (U \cup Block(p, k))) = Cardinality(Pages \ U) - k
    BY <1>1, CountTaken
  <1>3. Cardinality(Pages \ U) \in Nat
    BY PageTypes, FS_Subset, FS_CardinalityType
  <1> QED
    BY <1>1, <1>2, <1>3 DEF U

(* A block that is handed out whole. *)
LEMMA CoverDrop ==
  ASSUME NEW S \in SUBSET Pages, NEW f \in Lengths, NEW T \in SUBSET Pages, Covers(S, f, T),
         NEW p \in S
  PROVE  /\ Covers(S \ {p}, f, T \cup Block(p, f[p]))
         /\ Block(p, f[p]) \subseteq Pages \ T
  <1>1. p \in Pages /\ f[p] \in Nat /\ \A q \in S : q \in Int /\ f[q] \in Int
    BY InPages, FreeListAssumption DEF Lengths
  <1>2. \A x : x \in Block(p, f[p]) <=> x \in Int /\ p <= x /\ x < p + f[p]
    BY <1>1, BlockPages, PageTypes
  <1>3. Block(p, f[p]) \subseteq Pages \ T
    <2> SUFFICES ASSUME NEW x \in Block(p, f[p]) PROVE x \in Pages \ T
      OBVIOUS
    <2>1. x \in Pages
      BY <1>1, <1>2, InPages, FreeListAssumption DEF Covers
    <2> QED
      BY <1>2, <2>1 DEF Covers, Within
  <1>4. ASSUME NEW x \in Pages
        PROVE  x \notin T \cup Block(p, f[p]) <=> Within(S \ {p}, f, x)
    <2>1. x \in Int /\ (x \notin T <=> Within(S, f, x))
      BY InPages DEF Covers
    <2>2. Within(S \ {p}, f, x) => Within(S, f, x) /\ x \notin Block(p, f[p])
      BY <1>1, <1>2, <2>1 DEF Within, Covers
    <2>3. Within(S, f, x) /\ x \notin Block(p, f[p]) => Within(S \ {p}, f, x)
      BY <1>2, <2>1 DEF Within
    <2> QED
      BY <2>1, <2>2, <2>3
  <1> QED
    BY <1>3, <1>4 DEF Covers

(* A block that is given back, all of whose pages were in use. *)
LEMMA CoverAdd ==
  ASSUME NEW S \in SUBSET Pages, NEW f \in Lengths, NEW T \in SUBSET Pages, Covers(S, f, T),
         NEW b \in Pages, NEW k \in Nat \ {0}, Block(b, k) \subseteq T
  PROVE  /\ Covers(S \cup {b}, [f EXCEPT ![b] = k], T \ Block(b, k))
         /\ [f EXCEPT ![b] = k] \in Lengths
         /\ Block(b, k) \cap S = {}
  <1>1. b \in Int /\ \A q \in S : q \in Int /\ f[q] \in Nat
    BY InPages, FreeListAssumption DEF Lengths
  <1>2. \A x : x \in Block(b, k) <=> x \in Int /\ b <= x /\ x < b + k
    BY <1>1, BlockPages
  <1>3. b + k <= NPAGE /\ k \in 0..NPAGE
    <2>1. b + k - 1 \in Pages
      BY <1>1, <1>2
    <2> QED
      BY <1>1, <2>1, InPages, FreeListAssumption
  <1>4. \A q \in S : q \in Pages \ T
    BY <1>1 DEF Covers, Within
  <1>5. PICK g : g = [f EXCEPT ![b] = k]
    OBVIOUS
  <1>6. g \in Lengths /\ g[b] = k /\ (\A q \in S : q # b /\ g[q] = f[q])
    BY <1>1, <1>2, <1>3, <1>4, <1>5 DEF Lengths
  <1>7. ASSUME NEW q \in S
        PROVE  (q < b => q + f[q] <= b) /\ (b < q => b + k <= q)
    <2>1. q < b => q + f[q] <= b
      <3>1. b \in T
        BY <1>1, <1>2
      <3>2. ~Within(S, f, b)
        BY <3>1 DEF Covers
      <3> QED
        BY <1>1, <3>2 DEF Within
    <2> QED
      BY <1>1, <1>2, <1>4, <2>1
  <1>8. ASSUME NEW x \in Pages
        PROVE  x \notin T \ Block(b, k) <=> Within(S \cup {b}, g, x)
    <2>1. x \in Int /\ (x \notin T <=> Within(S, f, x))
      BY InPages DEF Covers
    <2>2. Within(S \cup {b}, g, x) <=> Within(S, f, x) \/ x \in Block(b, k)
      BY <1>2, <1>6, <2>1 DEF Within
    <2> QED
      BY <2>1, <2>2
  <1>9. \A p \in S \cup {b} : g[p] > 0 /\ p + g[p] <= NPAGE
    BY <1>3, <1>6 DEF Covers
  <1>10. \A p, q \in S \cup {b} : p < q => p + g[p] <= q
    BY <1>1, <1>6, <1>7 DEF Covers
  <1> QED
    BY <1>2, <1>4, <1>5, <1>6, <1>8, <1>9, <1>10 DEF Covers

(* A block that takes in the one behind it. *)
LEMMA CoverMerge ==
  ASSUME NEW S \in SUBSET Pages, NEW f \in Lengths, NEW T \in SUBSET Pages, Covers(S, f, T),
         NEW p \in S, NEW q \in S, p + f[p] = q
  PROVE  /\ Covers(S \ {q}, [f EXCEPT ![p] = f[p] + f[q]], T)
         /\ [f EXCEPT ![p] = f[p] + f[q]] \in Lengths
         /\ p # q
  <1>1. \A r \in S : r \in Int /\ f[r] \in Nat /\ 0 <= r
    BY InPages, FreeListAssumption DEF Lengths
  <1>2. p # q /\ p < q /\ f[p] + f[q] \in 0..NPAGE /\ p + (f[p] + f[q]) = q + f[q]
    BY <1>1, FreeListAssumption DEF Covers
  <1>3. PICK g : g = [f EXCEPT ![p] = f[p] + f[q]]
    OBVIOUS
  <1>4. g \in Lengths /\ g[p] = f[p] + f[q] /\ (\A r \in S \ {p} : g[r] = f[r])
    BY <1>2, <1>3 DEF Lengths
  <1>5. \A r \in S \ {q} : g[r] > 0 /\ r + g[r] <= NPAGE
    BY <1>1, <1>2, <1>4 DEF Covers
  <1>6. ASSUME NEW r \in S \ {q}, NEW s \in S \ {q}, r < s
        PROVE  r + g[r] <= s
    <2>1. r + f[r] <= s
      BY <1>6 DEF Covers
    <2>2. CASE r = p
      <3>1. q < s
        BY <1>1, <2>1, <2>2
      <3>2. q + f[q] <= s
        BY <3>1 DEF Covers
      <3> QED
        BY <1>2, <1>4, <2>2, <3>2
    <2> QED
      BY <1>4, <2>1, <2>2
  <1>7. ASSUME NEW x \in Pages
        PROVE  x \notin T <=> Within(S \ {q}, g, x)
    <2>1. x \in Int /\ (x \notin T <=> Within(S, f, x))
      BY InPages DEF Covers
    <2>2. Within(S, f, x) => Within(S \ {q}, g, x)
      <3> SUFFICES ASSUME NEW r \in S, r <= x, x < r + f[r]
                   PROVE  Within(S \ {q}, g, x)
        BY DEF Within
      <3>1. CASE r = p \/ r = q
        <4>1. p <= x /\ x < p + g[p]
          BY <1>1, <1>2, <1>4, <2>1, <3>1
        <4> QED
          BY <1>2, <4>1 DEF Within
      <3>2. CASE r # p /\ r # q
        BY <1>4, <3>2 DEF Within
      <3> QED
        BY <3>1, <3>2
    <2>3. Within(S \ {q}, g, x) => Within(S, f, x)
      <3> SUFFICES ASSUME NEW r \in S \ {q}, r <= x, x < r + g[r]
                   PROVE  Within(S, f, x)
        BY DEF Within
      <3>1. CASE r = p
        <4>1. x < q + f[q] /\ (q <= x \/ x < p + f[p])
          BY <1>1, <1>2, <1>4, <2>1, <3>1
        <4> QED
          BY <3>1, <4>1 DEF Within
      <3>2. CASE r # p
        BY <1>4, <3>2 DEF Within
      <3> QED
        BY <3>1, <3>2
    <2> QED
      BY <2>1, <2>2, <2>3
  <1> QED
    BY <1>2, <1>3, <1>4, <1>5, <1>6, <1>7 DEF Covers

(* A block whose first k pages are handed out. *)
LEMMA CoverSplit ==
  ASSUME NEW S \in SUBSET Pages, NEW f \in Lengths, NEW T \in SUBSET Pages, Covers(S, f, T),
         NEW p \in S, NEW k \in Nat \ {0}, k < f[p]
  PROVE  /\ p + k \in Pages \ S /\ p < p + k /\ f[p] - k \in 0..NPAGE
         /\ Block(p, k) \subseteq Pages \ T
         /\ [f EXCEPT ![p + k] = f[p] - k] \in Lengths
         /\ Covers((S \cup {p + k}) \ {p}, [f EXCEPT ![p + k] = f[p] - k], T \cup Block(p, k))
  <1>1. \A r \in S : r \in Int /\ f[r] \in Nat /\ 0 <= r
    BY InPages, FreeListAssumption DEF Lengths
  <1>2. PICK b : b = p + k
    OBVIOUS
  <1>3. b \in Pages /\ b \in Int /\ p < b /\ b < p + f[p] /\ f[p] - k \in 1..NPAGE /\ b # p
    BY <1>1, <1>2, InPages, FreeListAssumption DEF Covers
  <1>4. b \notin S
    BY <1>1, <1>3 DEF Covers
  <1>5. PICK g : g = [f EXCEPT ![b] = f[p] - k]
    OBVIOUS
  <1>6. g \in Lengths /\ g[b] = f[p] - k /\ (\A r \in S : g[r] = f[r])
    BY <1>3, <1>4, <1>5 DEF Lengths
  <1>7. \A x : x \in Block(p, k) <=> x \in Int /\ p <= x /\ x < b
    BY <1>1, <1>2, BlockPages
  <1>8. b + g[b] = p + f[p]
    BY <1>1, <1>2, <1>6
  <1> DEFINE U == (S \cup {b}) \ {p}
  <1>9. ASSUME NEW r \in U, NEW s \in U, r < s
        PROVE  r + g[r] <= s
    <2>1. CASE r = b
      <3>1. s \in S /\ p < s
        BY <1>1, <1>3, <1>9, <2>1
      <3> QED
        BY <1>8, <2>1, <3>1 DEF Covers
    <2>2. CASE r # b
      <3>1. r \in S /\ g[r] = f[r] /\ r # p
        BY <1>6, <2>2
      <3>2. CASE s = b
        <4>1. r < p
          BY <1>1, <1>3, <1>9, <3>1, <3>2 DEF Covers
        <4>2. r + f[r] <= p
          BY <3>1, <4>1 DEF Covers
        <4> QED
          BY <1>1, <1>3, <3>1, <3>2, <4>2
      <3>3. CASE s # b
        BY <1>9, <3>1, <3>3 DEF Covers
      <3> QED
        BY <3>2, <3>3
    <2> QED
      BY <2>1, <2>2
  <1>10. \A r \in U : g[r] > 0 /\ r + g[r] <= NPAGE
    BY <1>1, <1>3, <1>6, <1>8 DEF Covers
  <1>11. \A x \in Pages : x \in Block(p, k) => Within(S, f, x)
    BY <1>1, <1>3, <1>7 DEF Within
  <1>12. Block(p, k) \subseteq Pages \ T
    <2>1. Block(p, k) \subseteq Pages
      BY <1>1, <1>3, <1>7, InPages, FreeListAssumption
    <2> QED
      BY <1>11, <2>1 DEF Covers
  <1>13. ASSUME NEW x \in Pages
         PROVE  x \notin T \cup Block(p, k) <=> Within(U, g, x)
    <2>1. x \in Int /\ (x \notin T <=> Within(S, f, x))
      BY InPages DEF Covers
    <2>2. ASSUME Within(S, f, x), x \notin Block(p, k) PROVE Within(U, g, x)
      <3>1. PICK r \in S : r <= x /\ x < r + f[r]
        BY <2>2 DEF Within
      <3>2. CASE r = p
        <4>1. b <= x /\ x < b + g[b]
          BY <1>1, <1>3, <1>7, <1>8, <2>1, <2>2, <3>1, <3>2
        <4> QED
          BY <1>3, <4>1 DEF Within
      <3>3. CASE r # p
        BY <1>6, <3>1, <3>3 DEF Within
      <3> QED
        BY <3>2, <3>3
    <2>3. ASSUME Within(U, g, x) PROVE Within(S, f, x) /\ x \notin Block(p, k)
      <3>1. PICK r \in U : r <= x /\ x < r + g[r]
        BY <2>3 DEF Within
      <3>2. CASE r = b
        <4>1. p <= x /\ x < p + f[p] /\ ~(x < b)
          BY <1>1, <1>3, <1>8, <2>1, <3>1, <3>2
        <4> QED
          BY <1>7, <4>1 DEF Within
      <3>3. CASE r # b
        <4>1. r \in S /\ r # p /\ g[r] = f[r]
          BY <1>6, <3>3
        <4>2. r + f[r] <= p \/ b <= r
          BY <1>1, <1>3, <4>1 DEF Covers
        <4>3. x \notin Block(p, k)
          BY <1>1, <1>3, <1>7, <2>1, <3>1, <4>1, <4>2
        <4> QED
          BY <3>1, <4>1, <4>3 DEF Within
      <3> QED
        BY <3>2, <3>3
    <2> QED
      BY <2>1, <2>2, <2>3
  <1>14. Covers(U, g, T \cup Block(p, k))
    BY <1>9, <1>10, <1>13 DEF Covers
  <1>15. U = (S \cup {p + k}) \ {p} /\ g = [f EXCEPT ![p + k] = f[p] - k]
    BY <1>2, <1>5
  <1>16. p + k \in Pages \ S /\ p < p + k /\ f[p] - k \in 0..NPAGE
    BY <1>2, <1>3, <1>4
  <1> QED
    BY <1>6, <1>12, <1>14, <1>15, <1>16
-----------------------------------------------------------------------------
(* What the loops of alloc_pages look for. *)
LEMMA MaxIs ==
  ASSUME NEW S \in SUBSET Int, NEW m \in S, \A x \in S : x <= m
  PROVE  Max(S) = m
  <1>1. \A x \in S : m >= x
    OBVIOUS
  <1>2. \A x \in S : (\A y \in S : x >= y) => x = m
    OBVIOUS
  <1> QED
    BY <1>1, <1>2 DEF Max

(* Min is the least element of a set that has one. *)
LEMMA MinIs ==
  ASSUME NEW S \in SUBSET Int, NEW m \in S, \A x \in S : m <= x
  PROVE  Min(S) = m
  <1>1. \A x \in S : (\A y \in S : x <= y) => x = m
    OBVIOUS
  <1> QED
    BY <1>1 DEF Min

(* No block of the list touches another one. *)
Apart(S, f) == \A p, q \in S : p + f[p] # q

(* Where the runs of free pages begin, and how long they are. *)
LEMMA RunsAre ==
  ASSUME NEW S \in SUBSET Pages, NEW f \in Lengths, used \in SUBSET Pages, Covers(S, f, used),
         Apart(S, f)
  PROVE  /\ \A k \in Nat \ {0} : RunStarts(k) = {p \in S : f[p] >= k}
         /\ \A p \in S : RunLength(p) = f[p]
  <1>1. \A r \in S : r \in Int /\ f[r] \in Nat /\ 0 <= r /\ f[r] \in 0..NPAGE /\ r \in Pages
    BY InPages, FreeListAssumption DEF Lengths
  <1>2. ASSUME NEW p \in S, NEW k \in Nat, k <= f[p] PROVE p \in Runs(k)
    <2>1. \A x \in Block(p, k) : x \in Int /\ p <= x /\ x < p + f[p] /\ x < NPAGE
      BY <1>1, <1>2, BlockPages, FreeListAssumption DEF Covers
    <2>2. \A x \in Block(p, k) : x \in Pages /\ x \notin used
      BY <1>1, <2>1, InPages DEF Covers, Within
    <2> QED
      BY <1>1, <2>2 DEF Runs
  <1>3. ASSUME NEW p \in S, NEW k \in Nat, f[p] < k PROVE p \notin Runs(k)
    <2> SUFFICES ASSUME p \in Runs(k) PROVE FALSE
      OBVIOUS
    <2>1. PICK x \in Int : x = p + f[p]
      BY <1>1
    <2>2. x \in Block(p, k)
      BY <1>1, <1>3, <2>1, BlockPages
    <2>3. x \in Pages /\ x \notin used
      BY <2>2 DEF Runs
    <2>4. PICK r \in S : r <= x /\ x < r + f[r]
      BY <2>3 DEF Covers, Within
    <2>5. r # x /\ r < x /\ r # p
      BY <1>1, <2>1, <2>4 DEF Apart
    <2>6. CASE r < p
      <3>1. r + f[r] <= p
        BY <2>6 DEF Covers
      <3> QED
        BY <1>1, <2>1, <2>4, <3>1
    <2>7. CASE p < r
      <3>1. p + f[p] <= r
        BY <2>7 DEF Covers
      <3> QED
        BY <1>1, <2>1, <2>5, <3>1
    <2> QED
      BY <1>1, <2>5, <2>6, <2>7
  <1>4. ASSUME NEW k \in Nat \ {0}, NEW b \in RunStarts(k) PROVE b \in S /\ f[b] >= k
    <2>1. b \in Pages /\ b \in Int /\ b \in Runs(k) /\ b - 1 \notin Pages \ used
      BY InPages DEF RunStarts, Runs
    <2>2. b \in Block(b, k)
      BY <2>1, BlockPages
    <2>3. PICK p \in S : p <= b /\ b < p + f[p]
      BY <2>1, <2>2 DEF Runs, Covers, Within
    <2>4. p = b
      <3> SUFFICES ASSUME p < b PROVE FALSE
        BY <1>1, <2>1, <2>3
      <3>1. b - 1 \in Int /\ 0 <= b - 1 /\ b - 1 < NPAGE /\ p <= b - 1 /\ b - 1 < p + f[p]
        BY <1>1, <2>1, <2>3, InPages, FreeListAssumption
      <3>2. b - 1 \in Pages
        BY <3>1, InPages
      <3> QED
        BY <2>1, <3>1, <3>2 DEF Covers, Within
    <2> QED
      BY <1>1, <1>3, <2>1, <2>3, <2>4
  <1>5. ASSUME NEW k \in Nat \ {0}, NEW p \in S, f[p] >= k PROVE p \in RunStarts(k)
    <2>1. p \in Runs(k)
      BY <1>1, <1>2, <1>5
    <2>2. p - 1 \notin Pages \ used
      <3> SUFFICES ASSUME p - 1 \in Pages, p - 1 \notin used PROVE FALSE
        OBVIOUS
      <3>1. PICK r \in S : r <= p - 1 /\ p - 1 < r + f[r]
        BY DEF Covers, Within
      <3>2. r < p /\ r + f[r] # p
        BY <1>1, <3>1 DEF Apart
      <3>3. r + f[r] <= p
        BY <3>2 DEF Covers
      <3> QED
        BY <1>1, <3>1, <3>2, <3>3
    <2> QED
      BY <2>1, <2>2 DEF RunStarts
  <1>6. ASSUME NEW p \in S PROVE RunLength(p) = f[p]
    <2> DEFINE K == {k \in 0..NPAGE : p \in Runs(k)}
    <2>1. K \in SUBSET Int /\ f[p] \in K
      BY <1>1, <1>2
    <2>2. \A k \in K : k <= f[p]
      BY <1>1, <1>3
    <2> HIDE DEF K
    <2>3. Max(K) = f[p]
      BY <2>1, <2>2, MaxIs
    <2> QED
      BY <2>3 DEF RunLength, K
  <1>7. ASSUME NEW k \in Nat \ {0} PROVE RunStarts(k) = {p \in S : f[p] >= k}
    BY <1>4, <1>5
  <1> QED
    BY <1>6, <1>7

(* What the loops choose among the blocks is Fit among the free runs. *)
LEMMA BestFits ==
  ASSUME NEW S \in SUBSET Pages, NEW f \in Lengths, used \in SUBSET Pages, Covers(S, f, used),
         Apart(S, f), NEW k \in Nat \ {0}, NEW p, Best(pmm_manager, f, k, S, p)
  PROVE  Fit(k) = p
  <1> DEFINE R == {q \in S : f[q] >= k}
  <1>1. RunStarts(k) = R /\ \A q \in R : RunLength(q) = f[q]
    BY RunsAre
  <1>2. \A r \in S : r \in Int /\ f[r] \in Int
    BY InPages, FreeListAssumption DEF Lengths
  <1>3. CASE p = NULL /\ \A q \in S : f[q] < k
    <2>1. R = {}
      BY <1>2, <1>3
    <2> QED
      BY <1>1, <1>3, <2>1 DEF Fit
  <1>4. CASE p \in S /\ f[p] >= k /\ \A q \in S : f[q] >= k => Better(pmm_manager, f, p, q)
    <2>1. p \in R /\ R # {} /\ R \in SUBSET Int
      BY <1>2, <1>4
    <2>2. CASE pmm_manager = "best_fit"
      <3> DEFINE A == {b \in R : \A c \in R : RunLength(b) <= RunLength(c)}
      <3>1. \A q \in R : f[p] < f[q] \/ (f[p] = f[q] /\ p <= q)
        BY <1>4, <2>2 DEF Better
      <3>2. \A b \in R : b \in A <=> \A c \in R : f[b] <= f[c]
        BY <1>1
      <3>3. A \in SUBSET Int /\ p \in A
        BY <1>2, <2>1, <3>1, <3>2
      <3>4. ASSUME NEW b \in A PROVE p <= b
        <4>1. b \in R /\ f[b] <= f[p]
          BY <2>1, <3>2
        <4> QED
          BY <1>2, <2>1, <3>1, <4>1
      <3>5. Fit(k) = Min(A)
        BY <1>1, <2>1, <2>2 DEF Fit
      <3> HIDE DEF A
      <3> QED
        BY <3>3, <3>4, <3>5, MinIs
    <2>3. CASE pmm_manager # "best_fit"
      <3>1. \A q \in R : p <= q
        BY <1>4, <2>3 DEF Better
      <3>2. Fit(k) = Min(R)
        BY <1>1, <2>1, <2>3 DEF Fit
      <3> HIDE DEF R
      <3> QED
        BY <2>1, <3>1, <3>2, MinIs
    <2> QED
      BY <2>2, <2>3
  <1> QED
    BY <1>3, <1>4 DEF Best
-----------------------------------------------------------------------------
(* No block is longer than nr_free, and none is empty. *)
LEMMA Bounds ==
  ASSUME NEW l, NEW L, NEW S, NEW f, NEW T, NEW c, Whole(l, L, S, f, T, c)
  PROVE  /\ c \in 0..NPAGE
         /\ \A p \in S : p \in Pages /\ p \in Nat /\ f[p] \in Nat \ {0} /\ f[p] <= c
                         /\ p + f[p] <= NPAGE
  <1>1. /\ S \in SUBSET Pages /\ f \in Lengths /\ T \in SUBSET Pages /\ Covers(S, f, T)
        /\ c = Cardinality(Pages \ T)
    BY DEF Whole
  <1>2. c \in 0..NPAGE
    <2>1. Cardinality(Pages) = NPAGE
      BY FS_Interval, FreeListAssumption DEF Pages
    <2>2. c \in Nat /\ c <= Cardinality(Pages)
      BY <1>1, PageTypes, FS_Subset, FS_CardinalityType
    <2> QED
      BY <2>1, <2>2, FreeListAssumption
  <1>3. ASSUME NEW p \in S PROVE p \in Pages /\ p \in Nat /\ f[p] \in Nat \ {0} /\ f[p] <= c
                                 /\ p + f[p] <= NPAGE
    <2>1. p \in Pages /\ p \in Nat /\ f[p] \in Nat \ {0} /\ p + f[p] <= NPAGE
      BY <1>1, PageTypes, FreeListAssumption DEF Lengths, Covers
    <2>2. Block(p, f[p]) \subseteq Pages \ T
      BY <1>1, CoverDrop
    <2> QED
      BY <1>1, <2>1, <2>2, CountTaken
  <1> QED
    BY <1>2, <1>3

(* Fit looks at used and pmm_manager only. *)
LEMMA FitStays ==
  ASSUME used' = used, pmm_manager' = pmm_manager, NEW k, n' = k
  PROVE  Fit(n)' = Fit(k) /\ (Acceptable(k) => Acceptable(n)')
  <1>1. \A j : Runs(j)' = Runs(j)
    BY DEF Runs
  <1>2. Runs(n)' = Runs(k)
    BY DEF Runs
  <1>3. RunStarts(n)' = RunStarts(k)
    BY <1>2 DEF RunStarts
  <1>4. ASSUME NEW b PROVE RunLength(b)' = RunLength(b)
    <2>1. {j \in 0..NPAGE : b \in Runs(j)'} = {j \in 0..NPAGE : b \in Runs(j)}
      BY <1>1
    <2> QED
      BY <2>1 DEF RunLength
  <1>5. {b \in RunStarts(n)' : \A c \in RunStarts(n)' : RunLength(b)' <= RunLength(c)'}
        = {b \in RunStarts(k) : \A c \in RunStarts(k) : RunLength(b) <= RunLength(c)}
    BY <1>3, <1>4
  <1>6. Fit(n)' = Fit(k)
    BY <1>3, <1>5 DEF Fit
  <1> QED
    BY <1>6 DEF Acceptable

(* Between two steps that change the list. *)
LEMMA AtRest ==
  ASSUME IInv, pc \in {"idle", "alloc_scan", "alloc_take"}
  PROVE  /\ Whole(link, PG_property, PG_property, property, used, nr_free)
         /\ Apart(PG_property, property)
         /\ link \in Links /\ PG_property \in SUBSET Pages /\ Linked(link, PG_property)
         /\ property \in Lengths /\ used \in SUBSET Pages /\ Covers(PG_property, property, used)
         /\ PG_property \subseteq Nat
  <1>1. Listed = PG_property /\ Taken = used
    BY DEF Listed, Taken
  <1>2. Whole(link, PG_property, PG_property, property, used, nr_free)
    BY <1>1 DEF IInv
  <1>3. Apart(PG_property, property)
    BY DEF IInv, Merged, Apart
  <1> QED
    BY <1>2, <1>3, PageTypes DEF Whole

(* alloc_pages up to its loop. *)
LEMMA CallAlloc ==
  ASSUME IInv, Roomy, NEW k \in 1..MAX_N, alloc_pages(k), UNCHANGED pmm_manager
  PROVE  IInv'
  <1> USE DEF alloc_pages
  <1>1. /\ Whole(link, PG_property, PG_property, property, used, nr_free)
        /\ Apart(PG_property, property) /\ used \in SUBSET Pages
        /\ PG_property \in SUBSET Pages /\ property \in Lengths
        /\ Covers(PG_property, property, used) /\ PG_property \subseteq Nat
        /\ link' = link /\ property' = property /\ PG_property' = PG_property
        /\ nr_free' = nr_free /\ used' = used /\ k \in Nat \ {0}
    BY AtRest, FreeListAssumption DEF list
  <1>2. TypeOK' /\ pc' # "panic"
    BY <1>1, FreeListAssumption DEF IInv, TypeOK
  <1>3. Listed' = PG_property /\ Taken' = used
    BY <1>1 DEF Listed, Taken
  <1>4. Whole(link', Listed', PG_property', property', Taken', nr_free')
    BY <1>1, <1>3
  <1>5. Merged'
    BY <1>1 DEF Merged, Apart
  <1>6. Acceptable(n)' /\ Fit(n)' = Fit(k)
    BY <1>1, FitStays
  <1>7. pc' = "alloc_scan" =>
          Best(pmm_manager', property', n', {p \in PG_property' : p <= le'}, page')
    BY <1>1 DEF Best, free_list
  <1>8. pc' = "alloc_ret" => Fit(k) = NULL
    <2> SUFFICES ASSUME k > nr_free PROVE Fit(k) = NULL
      OBVIOUS
    <2>1. \A p \in PG_property : property[p] < k
      BY <1>1, Bounds
    <2>2. Best(pmm_manager, property, k, PG_property, NULL)
      BY <2>1 DEF Best
    <2> QED
      BY <1>1, <2>2, BestFits
  <1>9. Allocating'
    BY <1>1, <1>6, <1>7, <1>8 DEF Allocating
  <1>10. Freeing'
    BY DEF Freeing
  <1> QED
    BY <1>2, <1>4, <1>5, <1>9, <1>10 DEF IInv

(* The loop of first fit: every block it has passed is too short. *)
LEMMA ScanDefault ==
  ASSUME IInv, default_scan, UNCHANGED pmm_manager
  PROVE  IInv'
  <1> USE DEF default_scan
  <1> DEFINE P == PG_property
  <1>1. /\ Whole(link, P, P, property, used, nr_free)
        /\ Apart(P, property) /\ used \in SUBSET Pages /\ Linked(link, P)
        /\ P \in SUBSET Pages /\ property \in Lengths
        /\ Covers(P, property, used) /\ P \subseteq Nat
        /\ link' = link /\ property' = property /\ PG_property' = P
        /\ nr_free' = nr_free /\ used' = used /\ n' = n /\ n \in 1..MAX_N /\ n \in Nat \ {0}
        /\ pc' \in {"alloc_scan", "alloc_take", "alloc_ret"} /\ pmm_manager = "default"
    BY AtRest, FreeListAssumption DEF list, IInv, Allocating
  <1>2. /\ le \in P \cup {free_list} /\ page = NULL /\ Acceptable(n)
        /\ Best("default", property, n, {p \in P : p <= le}, NULL)
    BY <1>1 DEF IInv, Allocating
  <1>3. PICK at : at = link.next[le]
    OBVIOUS
  <1>4. le' = at /\ at \in P \cup {free_list} /\ NoneBetween(P, le, at)
    BY <1>1, <1>2, <1>3 DEF Linked, Following
  <1>5. \A p \in P : p <= le => property[p] < n
    BY <1>1, <1>2, PageTypes DEF Best
  <1>6. page' = (IF pc' = "alloc_take" THEN at ELSE NULL) /\ Taken' = used /\ Listed' = P
    BY <1>1, <1>2, <1>4 DEF Taken, Listed
  <1>7. TypeOK' /\ pc' # "panic"
    <2>1. le' \in Pages \cup {free_list} /\ page' \in Pages \cup {NULL}
      BY <1>1, <1>2, <1>4 DEF IInv, TypeOK
    <2> QED
      BY <1>1, <2>1 DEF IInv, TypeOK
  <1>8. Merged' /\ Freeing'
    BY <1>1 DEF Merged, Apart, Freeing
  <1>9. \A r \in P : r \in Int /\ property[r] \in Int
    BY <1>1, PageTypes, FreeListAssumption DEF Lengths
  <1>10. Acceptable(n)' /\ Fit(n)' = Fit(n)
    <2>1. PICK k : k = n
      OBVIOUS
    <2> QED
      BY <1>1, <1>2, <2>1, FitStays
  <1>11. CASE at = free_list
    <2>1. \A p \in P : property[p] < n
      BY <1>4, <1>5, <1>11 DEF NoneBetween
    <2>2. Fit(n) = NULL
      <3>1. Best(pmm_manager, property, n, P, NULL)
        BY <2>1 DEF Best
      <3> QED
        BY <1>1, <3>1, BestFits
    <2>3. pc' = "alloc_ret" /\ page' = NULL
      BY <1>2, <1>4, <1>11
    <2> QED
      BY <1>1, <1>6, <1>7, <1>8, <1>10, <2>2, <2>3 DEF IInv, Allocating
  <1>12. CASE at # free_list /\ property[at] >= n
    <2>1. at \in P /\ pc' = "alloc_take" /\ page' = at
      BY <1>4, <1>12
    <2>2. ASSUME NEW q \in P, property[q] >= n PROVE Better("default", property, at, q)
      <3>1. q <= le \/ at <= q
        BY <1>4, <1>12 DEF NoneBetween
      <3>2. ~(q <= le)
        BY <1>1, <1>5, <1>9, <2>2
      <3> QED
        BY <3>1, <3>2 DEF Better
    <2>3. Best(pmm_manager', property', n', PG_property', page')
      BY <1>1, <1>12, <2>1, <2>2 DEF Best
    <2>4. page' # NULL
      BY <1>1, <2>1, PageTypes
    <2> QED
      BY <1>1, <1>6, <1>7, <1>8, <1>10, <2>1, <2>3, <2>4 DEF IInv, Allocating
  <1>13. CASE at # free_list /\ ~(property[at] >= n)
    <2>1. at \in P /\ pc' = "alloc_scan" /\ page' = NULL
      BY <1>1, <1>2, <1>4, <1>13
    <2>2. ASSUME NEW q \in P, q <= at PROVE property[q] < n
      BY <1>1, <1>4, <1>5, <1>9, <1>13, <2>1, <2>2 DEF NoneBetween
    <2>3. Best(pmm_manager', property', n', {p \in PG_property' : p <= le'}, page')
      BY <1>1, <1>4, <2>1, <2>2 DEF Best
    <2> QED
      BY <1>1, <1>4, <1>6, <1>7, <1>8, <1>10, <2>1, <2>3 DEF IInv, Allocating
  <1> QED
    BY <1>11, <1>12, <1>13

(* The loop of best fit: page is the best of the blocks it has passed. *)
LEMMA ScanBest ==
  ASSUME IInv, best_fit_scan, UNCHANGED pmm_manager
  PROVE  IInv'
  <1> USE DEF best_fit_scan
  <1> DEFINE P == PG_property
  <1>1. /\ Whole(link, P, P, property, used, nr_free)
        /\ Apart(P, property) /\ used \in SUBSET Pages /\ Linked(link, P)
        /\ P \in SUBSET Pages /\ property \in Lengths
        /\ Covers(P, property, used) /\ P \subseteq Nat
        /\ link' = link /\ property' = property /\ PG_property' = P
        /\ nr_free' = nr_free /\ used' = used /\ n' = n /\ n \in 1..MAX_N /\ n \in Nat \ {0}
        /\ pc' \in {"alloc_scan", "alloc_take", "alloc_ret"} /\ pmm_manager = "best_fit"
    BY AtRest, FreeListAssumption DEF list, IInv, Allocating
  <1>2. /\ le \in P \cup {free_list} /\ Acceptable(n)
        /\ Best("best_fit", property, n, {p \in P : p <= le}, page)
    BY <1>1 DEF IInv, Allocating
  <1>3. PICK at : at = link.next[le]
    OBVIOUS
  <1>4. le' = at /\ at \in P \cup {free_list} /\ NoneBetween(P, le, at)
    BY <1>1, <1>2, <1>3 DEF Linked, Following
  <1>5. Listed' = P
    BY <1>1 DEF Listed
  <1>6. \A r \in P : r \in Int /\ property[r] \in Nat /\ r # NULL /\ property[r] <= nr_free
    BY <1>1, PageTypes, Bounds
  <1>7. TypeOK' /\ pc' # "panic"
    <2>1. le' \in Pages \cup {free_list} /\ page' \in Pages \cup {NULL}
      BY <1>1, <1>2, <1>4 DEF IInv, TypeOK
    <2> QED
      BY <1>1, <2>1 DEF IInv, TypeOK
  <1>8. Merged' /\ Freeing'
    BY <1>1 DEF Merged, Apart, Freeing
  <1>9. Acceptable(n)' /\ Fit(n)' = Fit(n)
    <2>1. PICK k : k = n
      OBVIOUS
    <2> QED
      BY <1>1, <1>2, <2>1, FitStays
  <1>10. CASE at = free_list
    <2>1. {p \in P : p <= le} = P /\ page' = page
      BY <1>4, <1>10 DEF NoneBetween
    <2>2. Best("best_fit", property, n, P, page)
      BY <1>2, <2>1
    <2>3. CASE page = NULL
      <3>1. Fit(n) = NULL
        BY <1>1, <2>2, <2>3, BestFits
      <3>2. pc' = "alloc_ret" /\ Taken' = used
        BY <1>1, <1>4, <1>10, <2>1, <2>3 DEF Taken
      <3> QED
        BY <1>1, <1>5, <1>7, <1>8, <1>9, <2>1, <2>3, <3>1, <3>2 DEF IInv, Allocating
    <2>4. CASE page # NULL
      <3>1. pc' = "alloc_take" /\ Taken' = used
        BY <1>1, <1>4, <1>10, <2>1, <2>4 DEF Taken
      <3> QED
        BY <1>1, <1>5, <1>7, <1>8, <1>9, <2>1, <2>2, <2>4, <3>1 DEF IInv, Allocating
    <2> QED
      BY <2>3, <2>4
  <1>11. CASE at # free_list
    <2>1. at \in P /\ pc' = "alloc_scan" /\ Taken' = used
      BY <1>4, <1>11 DEF Taken
    <2>2. \A q \in P : q <= at => q = at \/ q <= le
      BY <1>4, <1>6, <1>11, <2>1 DEF NoneBetween
    <2>3. le < at /\ le \in Int /\ at \in Int
      BY <1>1, <1>2, <1>4, <1>6, <1>11, <2>1, PageTypes DEF NoneBetween
    <2>4. Best("best_fit", property, n, {p \in P : p <= at}, page')
      <3> DEFINE Q == {p \in P : p <= le}
                 R == {p \in P : p <= at}
      <3>1. /\ at \in R /\ \A q \in R : q = at \/ q \in Q
            /\ \A q \in Q : q < at /\ q \in R /\ q \in P
        BY <1>1, <1>2, <1>6, <2>1, <2>2, <2>3
      <3>2. /\ \A q \in R : /\ q \in Int /\ property[q] \in Int /\ q # NULL
                             /\ property[q] < nr_free + 1
            /\ n \in Int
        BY <1>1, <1>6, Bounds
      <3>3. page' = IF property[at] >= n /\ property[at] < min_size THEN at ELSE page
        BY <1>4, <1>11
      <3> HIDE DEF Q, R
      <3> SUFFICES Best("best_fit", property, n, R, page')
        BY DEF R
      <3>4. CASE page = NULL /\ \A q \in Q : property[q] < n
        <4>1. min_size = nr_free + 1
          BY <3>4 DEF min_size
        <4>2. page' = IF property[at] >= n THEN at ELSE NULL
          BY <3>1, <3>2, <3>3, <3>4, <4>1
        <4>3. CASE property[at] >= n
          BY <3>1, <3>2, <3>4, <4>2, <4>3 DEF Best, Better
        <4>4. CASE ~(property[at] >= n)
          BY <3>1, <3>2, <3>4, <4>2, <4>4 DEF Best
        <4> QED
          BY <4>3, <4>4
      <3>5. CASE page \in Q /\ property[page] >= n
                 /\ \A q \in Q : property[q] >= n => Better("best_fit", property, page, q)
        <4>1. min_size = property[page] /\ page # NULL /\ page \in R /\ page < at
          BY <3>1, <3>2, <3>5 DEF min_size
        <4>2. CASE property[at] >= n /\ property[at] < property[page]
          <5>1. page' = at
            BY <3>3, <4>1, <4>2
          <5>2. ASSUME NEW q \in R, property[q] >= n PROVE Better("best_fit", property, at, q)
            BY <3>1, <3>2, <3>5, <4>1, <4>2, <5>2 DEF Better
          <5> QED
            BY <3>1, <4>2, <5>1, <5>2 DEF Best
        <4>3. CASE ~(property[at] >= n /\ property[at] < property[page])
          <5>1. page' = page
            BY <3>3, <4>1, <4>3
          <5>2. ASSUME NEW q \in R, property[q] >= n PROVE Better("best_fit", property, page, q)
            BY <3>1, <3>2, <3>5, <4>1, <4>3, <5>2 DEF Better
          <5> QED
            BY <3>5, <4>1, <5>1, <5>2 DEF Best
        <4> QED
          BY <4>2, <4>3
      <3> QED
        BY <1>2, <3>4, <3>5 DEF Best, Q, R
    <2>5. Best(pmm_manager', property', n', {p \in PG_property' : p <= le'}, page')
      BY <1>1, <1>4, <2>4
    <2> QED
      BY <1>1, <1>4, <1>5, <1>7, <1>8, <1>9, <2>1, <2>5 DEF IInv, Allocating
  <1> QED
    BY <1>10, <1>11

(* alloc_pages after its loop, with and without a rest. *)
LEMMA Take ==
  ASSUME IInv, Roomy, alloc_take, UNCHANGED pmm_manager
  PROVE  IInv'
  <1> USE DEF alloc_take
  <1> DEFINE P == PG_property
             U == used \cup Block(page, n)
  <1>1. /\ Whole(link, P, P, property, used, nr_free)
        /\ Apart(P, property) /\ used \in SUBSET Pages /\ Linked(link, P) /\ link \in Links
        /\ P \in SUBSET Pages /\ property \in Lengths
        /\ Covers(P, property, used) /\ P \subseteq Nat
        /\ used' = used /\ n' = n /\ page' = page /\ n \in 1..MAX_N /\ n \in Nat \ {0}
        /\ pc' = "alloc_ret" /\ le' = le /\ base' = base /\ nr_free' = nr_free - n
        /\ NPAGE - 1 \notin used /\ nr_free = Cardinality(Pages \ used)
    BY AtRest, FreeListAssumption DEF IInv, Allocating, Remaining, Whole
  <1>2. page # NULL /\ Best(pmm_manager, property, n, P, page) /\ Acceptable(n)
    BY DEF IInv, Allocating
  <1>3. page \in P /\ property[page] >= n
    BY <1>2 DEF Best
  <1>4. Fit(n) = page
    BY <1>1, <1>2, BestFits
  <1>5. Fit(n)' = page /\ Acceptable(n)'
    <2>1. PICK k : k = n
      OBVIOUS
    <2> QED
      BY <1>1, <1>2, <1>4, <2>1, FitStays
  <1>6. NPAGE - 1 \notin U
    BY <1>1, <1>2, <1>4 DEF Acceptable
  <1>7. Listed' = PG_property' /\ Taken' = U
    BY <1>1, <1>2 DEF Listed, Taken
  <1>8. page \in Pages /\ page \in Nat /\ property[page] \in Nat
    BY <1>1, <1>3, Bounds
  <1>9. PICK l : l = list_del(link, page)
    OBVIOUS
  <1>10. PICK prv : prv = link.prev[page]
    OBVIOUS
  <1>11. /\ l \in Links /\ Linked(l, P \ {page}) /\ prv \in (P \ {page}) \cup {free_list}
         /\ l.next[prv] = link.next[page] /\ NoneBetween(P, page, link.next[page])
         /\ link.next[page] \in P \cup {free_list} /\ link.next[prv] = page
         /\ NoneBetween(P, prv, page)
    <2>1. /\ l \in Links /\ Linked(l, P \ {page}) /\ prv \in (P \ {page}) \cup {free_list}
          /\ l.next[prv] = link.next[page]
      BY <1>1, <1>3, <1>9, <1>10, DelLinked
    <2>2. /\ link.next[page] \in P \cup {free_list} /\ link.next[prv] = page
          /\ NoneBetween(P, page, link.next[page]) /\ NoneBetween(P, prv, link.next[prv])
      BY <1>1, <1>3, <1>10 DEF Linked
    <2> QED
      BY <2>1, <2>2
  <1>12. CASE property[page] > n
    <2>1. PICK b : b = page + n
      OBVIOUS
    <2>2. PICK g : g = [property EXCEPT ![b] = property[page] - n]
      OBVIOUS
    <2>4. /\ b \in Pages \ P /\ page < b /\ Block(page, n) \subseteq Pages \ used
          /\ g \in Lengths /\ Covers((P \cup {b}) \ {page}, g, U)
      <3>1. n < property[page]
        BY <1>1, <1>8, <1>12
      <3>2. /\ page + n \in Pages \ P /\ page < page + n /\ Block(page, n) \subseteq Pages \ used
            /\ [property EXCEPT ![page + n] = property[page] - n] \in Lengths
            /\ Covers((P \cup {page + n}) \ {page},
                      [property EXCEPT ![page + n] = property[page] - n], U)
        <4>1. /\ P \in SUBSET Pages /\ property \in Lengths /\ used \in SUBSET Pages
              /\ Covers(P, property, used) /\ page \in P /\ n \in Nat \ {0}
          BY <1>1, <1>3
        <4> HIDE DEF P
        <4> QED
          BY <3>1, <4>1, CoverSplit
      <3> QED
        BY <2>1, <2>2, <3>2
    <2>5. /\ property' = g /\ PG_property' = (P \cup {b}) \ {page}
          /\ link' = list_add(l, prv, b)
      BY <1>9, <1>10, <1>12, <2>1, <2>2 DEF Rest
    <2>6. link' = list_add_between(l, b, prv, l.next[prv])
      BY <2>5 DEF list_add
    <2>7. prv < b /\ (l.next[prv] = free_list \/ b < l.next[prv])
      <3>1. prv < page /\ prv \in Int /\ b \in Int
        BY <1>1, <1>8, <1>11, <2>1, PageTypes DEF NoneBetween
      <3>2. ASSUME l.next[prv] # free_list PROVE b < l.next[prv]
        <4>1. PICK q \in P : q = l.next[prv]
          BY <1>11, <3>2
        <4>2. page < q
          BY <1>11, <3>2, <4>1 DEF NoneBetween
        <4>3. page + property[page] <= q
          BY <1>1, <1>3, <4>2 DEF Covers
        <4> QED
          BY <1>1, <1>8, <1>12, <2>1, <4>1, <4>3
      <3> QED
        BY <1>8, <2>1, <2>4, <3>1, <3>2
    <2>8. link' \in Links /\ Linked(link', (P \ {page}) \cup {b})
      BY <1>1, <1>11, <2>4, <2>6, <2>7, AddLinked
    <2>9. (P \ {page}) \cup {b} = PG_property' /\ PG_property' \in SUBSET Pages
      BY <1>1, <2>4, <2>5, <1>8
    <2>10. Block(page, n) \subseteq Pages \ used /\ U \in SUBSET Pages
           /\ nr_free' = Cardinality(Pages \ U)
      BY <1>1, <1>8, <2>4, CountTaken
    <2>11. Whole(link', Listed', PG_property', property', Taken', nr_free')
      BY <1>6, <1>7, <2>4, <2>5, <2>8, <2>9, <2>10 DEF Whole
    <2>12. Merged'
      <3> SUFFICES ASSUME NEW p \in PG_property', NEW q \in PG_property', p + g[p] = q PROVE FALSE
        BY <2>5 DEF Merged
      <3>1. \A r \in P : r \in Int /\ property[r] \in Int
        BY <1>1, Bounds
      <3>2. p < q
        <4>1. p \in Pages /\ p \in Nat /\ g[p] \in Nat
          BY <2>4, <2>9, PageTypes, FreeListAssumption DEF Lengths
        <4>2. g[p] > 0
          BY <2>4, <2>5 DEF Covers
        <4> QED
          BY <4>1, <4>2
      <3>3. CASE p = b
        <4>1. g[b] = property[page] - n /\ q \in P /\ page + property[page] = q
          BY <1>1, <1>8, <2>1, <2>2, <2>4, <2>5, <3>2, <3>3, PageTypes DEF Lengths
        <4> QED
          BY <1>1, <1>3, <4>1 DEF Apart
      <3>4. CASE p # b
        <4>1. p \in P /\ g[p] = property[p] /\ p # page
          BY <1>1, <2>2, <2>5, <3>4 DEF Lengths
        <4>2. q = b
          BY <1>1, <2>5, <4>1 DEF Apart
        <4>3. p < page \/ page < p
          BY <1>8, <3>1, <4>1
        <4>4. p + property[p] <= page \/ page + property[page] <= p
          BY <1>1, <1>3, <4>1, <4>3 DEF Covers
        <4> QED
          BY <1>1, <1>8, <1>12, <2>1, <3>1, <3>2, <4>1, <4>2, <4>4
      <3> QED
        BY <3>3, <3>4
    <2>13. TypeOK' /\ pc' # "panic"
      BY <1>1, <2>4, <2>5, <2>8, <2>9, <2>11, Bounds DEF IInv, TypeOK, Links, Lengths, Entries
    <2> QED
      BY <1>1, <1>2, <1>5, <2>10, <2>11, <2>12, <2>13 DEF IInv, Allocating, Freeing
  <1>13. CASE ~(property[page] > n)
    <2>1. property[page] = n
      BY <1>1, <1>3, <1>8, <1>13
    <2>2. property' = property /\ PG_property' = P \ {page} /\ link' = l
      BY <1>9, <1>13
    <2>3. Covers(P \ {page}, property, U) /\ Block(page, n) \subseteq Pages \ used
      BY <1>1, <1>3, <2>1, CoverDrop
    <2>4. U \in SUBSET Pages /\ nr_free' = Cardinality(Pages \ U) /\ P \ {page} \in SUBSET Pages
      BY <1>1, <1>8, <2>3, CountTaken
    <2>5. Whole(link', Listed', PG_property', property', Taken', nr_free')
      BY <1>1, <1>6, <1>7, <1>11, <2>2, <2>3, <2>4 DEF Whole
    <2>6. Merged'
      BY <1>1, <2>2 DEF Merged, Apart
    <2>7. TypeOK' /\ pc' # "panic"
      BY <1>1, <1>11, <2>2, <2>4, <2>5, Bounds DEF IInv, TypeOK, Links, Lengths, Entries
    <2> QED
      BY <1>1, <1>2, <1>5, <2>3, <2>5, <2>6, <2>7 DEF IInv, Allocating, Freeing
  <1> QED
    BY <1>12, <1>13

(* The pages that were taken become the caller's. *)
LEMMA Return ==
  ASSUME IInv, alloc_ret, UNCHANGED pmm_manager
  PROVE  IInv'
  <1> USE DEF alloc_ret
  <1>1. /\ link' = link /\ property' = property /\ PG_property' = PG_property
        /\ nr_free' = nr_free /\ base' = base /\ pc' = "idle" /\ pc = "alloc_ret"
        /\ page' = NULL /\ n' = 0 /\ le' = free_list
    BY DEF list
  <1>2. Taken' = Taken /\ Listed' = Listed
    BY <1>1 DEF Taken, Listed
  <1>3. Whole(link', Listed', PG_property', property', Taken', nr_free')
    BY <1>1, <1>2 DEF IInv
  <1>4. used' \subseteq Pages
    BY <1>1, <1>2, <1>3 DEF Whole, Taken
  <1>5. Merged' /\ Allocating' /\ Freeing'
    BY <1>1 DEF IInv, Merged, Allocating, Freeing
  <1>6. TypeOK'
    BY <1>1, <1>4, FreeListAssumption DEF IInv, TypeOK
  <1> QED
    BY <1>1, <1>3, <1>5, <1>6 DEF IInv

(* The last page is free: its block ends the memory. *)
LEMMA LastBlock ==
  ASSUME NEW l, NEW L, NEW S, NEW f, NEW T, NEW c, Whole(l, L, S, f, T, c)
  PROVE  \E z \in S : z + f[z] = NPAGE
  <1>1. NPAGE - 1 \in Pages /\ NPAGE - 1 \notin T
    BY InPages, FreeListAssumption DEF Whole
  <1>2. PICK z \in S : z <= NPAGE - 1 /\ NPAGE - 1 < z + f[z]
    BY <1>1 DEF Whole, Covers, Within
  <1>3. z \in Nat /\ f[z] \in Nat /\ z + f[z] <= NPAGE
    BY Bounds
  <1> QED
    BY <1>2, <1>3, FreeListAssumption

(* free_pages up to its loop; the list is not empty, because the last     *)
(* page of memory is free.                                                 *)
LEMMA CallFree ==
  ASSUME IInv, Roomy, NEW k \in 1..MAX_N, NEW b \in Pages, free_pages(b, k), UNCHANGED pmm_manager
  PROVE  IInv'
  <1> USE DEF free_pages
  <1> DEFINE P == PG_property
             g == [property EXCEPT ![b] = k]
             U == used \ Block(b, k)
  <1>1. /\ Whole(link, P, P, property, used, nr_free)
        /\ Apart(P, property) /\ used \in SUBSET Pages /\ Linked(link, P) /\ link \in Links
        /\ P \in SUBSET Pages /\ property \in Lengths
        /\ Covers(P, property, used) /\ P \subseteq Nat
        /\ used' = U /\ n' = n /\ page' = page /\ k \in Nat \ {0}
        /\ NPAGE - 1 \notin used /\ nr_free = Cardinality(Pages \ used)
        /\ Block(b, k) \subseteq used /\ b \in Nat
    BY AtRest, PageTypes, FreeListAssumption DEF Whole
  <1>2. Covers(P \cup {b}, g, U) /\ g \in Lengths /\ Block(b, k) \cap P = {}
    BY <1>1, CoverAdd
  <1>3. PICK z \in P : z + property[z] = NPAGE
    BY <1>1, LastBlock
  <1>4. z \in Nat /\ property[z] \in Nat
    BY <1>1, <1>3, Bounds
  <1>5. link.next[free_list] # free_list
    BY <1>1, <1>3, <1>4 DEF Linked, NoneBetween, free_list
  <1>6. /\ property' = g /\ PG_property' = P \cup {b} /\ nr_free' = nr_free + k
        /\ link' = link /\ pc' = "insert" /\ base' = b /\ le' = free_list
    BY <1>2, <1>5
  <1>7. b \notin P /\ b + k <= NPAGE - 1
    <2>1. \A x : x \in Block(b, k) <=> x \in Int /\ b <= x /\ x < b + k
      BY <1>1, BlockPages
    <2>2. b \in Block(b, k) /\ b + k - 1 \in Block(b, k) /\ b + k - 1 # NPAGE - 1
      BY <1>1, <2>1
    <2>3. b + k - 1 \in Pages
      BY <1>1, <2>2
    <2> QED
      BY <1>1, <1>2, <2>2, <2>3, InPages, FreeListAssumption
  <1>8. b < z
    <2>1. g[b] = k /\ g[z] = property[z] /\ z # b
      BY <1>1, <1>3, <1>7 DEF Lengths
    <2>2. z < b => z + property[z] <= b
      BY <1>2, <1>3, <2>1 DEF Covers
    <2> QED
      BY <1>1, <1>3, <1>4, <1>7, <2>1, <2>2, FreeListAssumption
  <1>9. Listed' = P /\ Taken' = U
    BY <1>6, <1>7, <1>1 DEF Listed, Taken
  <1>10. U \in SUBSET Pages /\ nr_free' = Cardinality(Pages \ U) /\ NPAGE - 1 \notin U
         /\ P \cup {b} \in SUBSET Pages
    BY <1>1, <1>6, CountFreed
  <1>11. Whole(link', Listed', PG_property', property', Taken', nr_free')
    BY <1>1, <1>2, <1>6, <1>9, <1>10 DEF Whole
  <1>12. Merged'
    <2> SUFFICES ASSUME NEW p \in P, NEW q \in P, p + g[p] = q PROVE FALSE
      BY <1>6 DEF Merged
    <2>1. g[p] = property[p]
      BY <1>1, <1>7 DEF Lengths
    <2> QED
      BY <1>1, <2>1 DEF Apart
  <1>13. Freeing'
    BY <1>1, <1>3, <1>6, <1>8, <1>9, PageTypes DEF Freeing
  <1>14. TypeOK' /\ pc' # "panic"
    BY <1>1, <1>2, <1>6, <1>10, <1>11, Bounds DEF IInv, TypeOK, Lengths
  <1> QED
    BY <1>6, <1>11, <1>12, <1>13, <1>14 DEF IInv, Allocating

(* A turn of the insertion loop: the block of the last page is still       *)
(* ahead, so it stops in front of an entry and never at the end.           *)
LEMMA Insert ==
  ASSUME IInv, insert, UNCHANGED pmm_manager
  PROVE  IInv'
  <1> USE DEF insert
  <1> DEFINE P == PG_property
             L == PG_property \ {base}
  <1>1. /\ Whole(link, L, P, property, used, nr_free) /\ link \in Links /\ Linked(link, L)
        /\ P \in SUBSET Pages /\ base \in P /\ le \in L \cup {free_list} /\ le < base
        /\ Listed = L /\ Taken = used
        /\ property' = property /\ PG_property' = P /\ nr_free' = nr_free /\ used' = used
        /\ base' = base /\ page' = page /\ n' = n
    BY DEF IInv, Listed, Taken, Freeing, Whole
  <1>2. PICK z \in L : base < z
    BY <1>1 DEF IInv, Freeing
  <1>3. PICK at : at = link.next[le]
    OBVIOUS
  <1>4. /\ at \in L \cup {free_list} /\ NoneBetween(L, le, at) /\ link.prev[at] = le
        /\ le' = at
    BY <1>1, <1>3 DEF Linked, Following
  <1>5. \A r \in P \cup {free_list} : r \in Int
    BY <1>1, PageTypes
  <1>6. at # free_list /\ at \in L
    BY <1>1, <1>2, <1>4, <1>5 DEF NoneBetween
  <1>7. at # base /\ at \in Pages /\ base \in Pages /\ base \notin L /\ L \in SUBSET Pages
    BY <1>1, <1>6
  <1>8. CASE base < at
    <2>1. pc' = "merge_prev" /\ link' = list_add_between(link, base, le, link.next[le])
      BY <1>3, <1>4, <1>6, <1>8 DEF Following, Before, list_add_before
    <2>2. link' \in Links /\ Linked(link', L \cup {base})
      BY <1>1, <1>3, <1>7, <1>8, <2>1, AddLinked
    <2>3. L \cup {base} = P /\ Listed' = P /\ Taken' = used
      BY <1>1, <2>1 DEF Listed, Taken
    <2>4. Whole(link', Listed', PG_property', property', Taken', nr_free')
      BY <1>1, <2>2, <2>3 DEF Whole
    <2>5. Merged'
      BY <1>1, <2>1 DEF IInv, Merged
    <2>6. Freeing' /\ Allocating'
      BY <1>1, <2>1 DEF Freeing, Allocating
    <2>7. TypeOK' /\ pc' # "panic"
      BY <1>1, <1>4, <1>7, <2>1, <2>2 DEF IInv, TypeOK, Links, Entries
    <2> QED
      BY <2>4, <2>5, <2>6, <2>7 DEF IInv
  <1>9. CASE ~(base < at)
    <2>1. at < base
      BY <1>1, <1>5, <1>6, <1>7, <1>9
    <2>2. link.next[at] # free_list
      <3> SUFFICES ASSUME link.next[at] = free_list PROVE FALSE
        OBVIOUS
      <3>1. NoneBetween(L, at, free_list)
        BY <1>1, <1>6 DEF Linked
      <3> QED
        BY <1>1, <1>2, <1>5, <1>6, <2>1, <3>1 DEF NoneBetween
    <2>3. pc' = "insert" /\ link' = link
      BY <1>3, <1>6, <1>9, <2>2 DEF Following, Before
    <2>4. Listed' = L /\ Taken' = used
      BY <1>1, <2>3 DEF Listed, Taken
    <2>5. Whole(link', Listed', PG_property', property', Taken', nr_free')
      BY <1>1, <2>3, <2>4
    <2>6. Merged'
      BY <1>1, <2>3 DEF IInv, Merged
    <2>7. Freeing' /\ Allocating'
      BY <1>1, <1>2, <1>4, <1>6, <2>1, <2>3, <2>4 DEF Freeing, Allocating
    <2>8. TypeOK' /\ pc' # "panic"
      BY <1>1, <1>4, <1>7, <2>3 DEF IInv, TypeOK
    <2> QED
      BY <2>5, <2>6, <2>7, <2>8 DEF IInv
  <1> QED
    BY <1>8, <1>9

(* Merge(p, q) when the block of q begins where that of p ends. *)
LEMMA MergeWhole ==
  ASSUME NEW p \in PG_property, NEW q \in PG_property, p + property[p] = q, Merge(p, q),
         Whole(link, PG_property, PG_property, property, used, nr_free)
  PROVE  /\ Whole(link', PG_property', PG_property', property', used, nr_free)
         /\ PG_property' = PG_property \ {q} /\ p # q /\ p \in PG_property'
         /\ property'[p] = property[p] + property[q]
         /\ \A r \in PG_property' : r # p => property'[r] = property[r]
  <1> DEFINE P == PG_property
             g == [property EXCEPT ![p] = property[p] + property[q]]
  <1>1. /\ link \in Links /\ Linked(link, P) /\ P \in SUBSET Pages /\ property \in Lengths
        /\ used \in SUBSET Pages /\ Covers(P, property, used)
    BY DEF Whole
  <1>2. link' = list_del(link, q) /\ property' = g /\ PG_property' = P \ {q}
    BY DEF Merge
  <1>3. Covers(P \ {q}, g, used) /\ g \in Lengths /\ p # q
    BY <1>1, CoverMerge
  <1>4. link' \in Links /\ Linked(link', P \ {q})
    BY <1>1, <1>2, DelLinked
  <1>5. g[p] = property[p] + property[q] /\ \A r \in P : r # p => g[r] = property[r]
    BY <1>1 DEF Lengths
  <1> HIDE DEF g
  <1>6. Whole(link', PG_property', PG_property', property', used, nr_free)
    BY <1>2, <1>3, <1>4 DEF Whole
  <1> QED
    BY <1>2, <1>3, <1>5, <1>6

(* The block before base is merged with it if they touch. *)
LEMMA MergePrev ==
  ASSUME IInv, merge_prev, UNCHANGED pmm_manager
  PROVE  IInv'
  <1> USE DEF merge_prev
  <1> DEFINE P == PG_property
  <1>1. /\ Whole(link, P, P, property, used, nr_free) /\ link \in Links /\ Linked(link, P)
        /\ P \in SUBSET Pages /\ base \in P /\ pc = "merge_prev"
        /\ nr_free' = nr_free /\ used' = used /\ le' = le /\ page' = page /\ n' = n
        /\ pc' = "merge_next"
    BY DEF IInv, Listed, Taken, Freeing, Whole
  <1>2. \A r \in P : r \in Pages /\ r \in Int /\ r > free_list /\ property[r] \in Nat \ {0}
    BY <1>1, Bounds, PageTypes
  <1>3. PICK p : p = link.prev[base]
    OBVIOUS
  <1>4. p \in P \cup {free_list} /\ NoneBetween(P, p, base) /\ p \in Int
    <2>1. p \in P \cup {free_list} /\ link.next[p] = base
      BY <1>1, <1>3 DEF Linked
    <2>2. NoneBetween(P, p, link.next[p])
      BY <1>1, <2>1 DEF Linked
    <2> QED
      BY <1>2, <2>1, <2>2, PageTypes
  <1>5. \A r, s \in P : r + property[r] = s => base \in {r, s}
    BY <1>1 DEF IInv, Merged
  <1>6. Listed' = PG_property' /\ Taken' = used
    BY <1>1 DEF Listed, Taken
  <1>7. Allocating'
    BY <1>1 DEF Allocating
  <1>8. CASE Adjacent(p, base) /\ Merge(p, base) /\ base' = p
    <2>1. p \in P /\ p + property[p] = base
      BY <1>4, <1>8 DEF Adjacent
    <2>2. /\ Whole(link', PG_property', PG_property', property', used, nr_free)
          /\ PG_property' = P \ {base} /\ p # base /\ p \in PG_property'
          /\ \A r \in PG_property' : r # p => property'[r] = property[r]
      BY <1>1, <1>8, <2>1, MergeWhole
    <2>3. Merged'
      <3> SUFFICES ASSUME NEW r \in PG_property', NEW s \in PG_property', r + property'[r] = s
                   PROVE  r = p
        BY <1>1, <1>8 DEF Merged
      <3> QED
        BY <1>5, <2>2
    <2>4. Freeing'
      BY <1>1, <1>8, <2>2 DEF Freeing
    <2>5. TypeOK' /\ pc' # "panic"
      BY <1>1, <1>8, <2>1, <2>2 DEF IInv, TypeOK, Whole, Links, Lengths, Entries
    <2> QED
      BY <1>1, <1>6, <1>7, <2>2, <2>3, <2>4, <2>5 DEF IInv
  <1>9. CASE ~Adjacent(p, base) /\ UNCHANGED <<link, property, PG_property, base>>
    <2>1. Whole(link', PG_property', PG_property', property', used, nr_free)
      BY <1>1, <1>9
    <2>2. Merged'
      <3> SUFFICES ASSUME NEW r \in P, r + property[r] = base
                   PROVE  FALSE
        BY <1>1, <1>5, <1>9 DEF Merged
      <3>1. r < base /\ r <= p
        BY <1>1, <1>2, <1>4 DEF NoneBetween
      <3>2. p \in P
        BY <1>2, <1>4, <3>1
      <3>3. r # p
        BY <1>1, <1>2, <1>9, <3>2, PageTypes DEF Adjacent
      <3>4. r + property[r] <= p
        BY <1>1, <1>2, <1>4, <3>1, <3>2, <3>3 DEF Whole, Covers
      <3>5. p < base
        BY <1>1, <1>2, <1>4 DEF NoneBetween
      <3> QED
        BY <1>2, <1>4, <3>4, <3>5
    <2>3. Freeing'
      BY <1>1, <1>9 DEF Freeing
    <2>4. TypeOK' /\ pc' # "panic"
      BY <1>1, <1>9 DEF IInv, TypeOK
    <2> QED
      BY <1>1, <1>6, <1>7, <2>1, <2>2, <2>3, <2>4 DEF IInv
  <1> QED
    BY <1>3, <1>8, <1>9

(* After the block behind base no two blocks touch. *)
LEMMA MergeNext ==
  ASSUME IInv, merge_next, UNCHANGED pmm_manager
  PROVE  IInv'
  <1> USE DEF merge_next
  <1> DEFINE P == PG_property
  <1>1. /\ Whole(link, P, P, property, used, nr_free) /\ link \in Links /\ Linked(link, P)
        /\ P \in SUBSET Pages /\ base \in P /\ pc = "merge_next"
        /\ nr_free' = nr_free /\ used' = used /\ le' = free_list /\ page' = page /\ n' = n
        /\ pc' = "idle" /\ base' = NULL
    BY DEF IInv, Listed, Taken, Freeing, Whole
  <1>2. \A r \in P : r \in Pages /\ r \in Int /\ r > free_list /\ property[r] \in Nat \ {0}
    BY <1>1, Bounds, PageTypes
  <1>3. PICK p : p = link.next[base]
    OBVIOUS
  <1>4. p \in P \cup {free_list} /\ NoneBetween(P, base, p)
    BY <1>1, <1>3 DEF Linked
  <1>5. \A r, s \in P : r + property[r] = s => base = r
    BY <1>1 DEF IInv, Merged
  <1>6. Listed' = PG_property' /\ Taken' = used
    BY <1>1 DEF Listed, Taken
  <1>7. Allocating' /\ Freeing'
    BY <1>1 DEF Allocating, Freeing
  <1>8. CASE Adjacent(base, p) /\ Merge(base, p)
    <2>1. p \in P /\ base + property[base] = p
      BY <1>4, <1>8 DEF Adjacent
    <2>2. /\ Whole(link', PG_property', PG_property', property', used, nr_free)
          /\ PG_property' = P \ {p} /\ p # base
          /\ property'[base] = property[base] + property[p]
          /\ \A r \in PG_property' : r # base => property'[r] = property[r]
      BY <1>1, <1>8, <2>1, MergeWhole
    <2>3. Merged'
      <3> SUFFICES ASSUME NEW r \in PG_property', NEW s \in PG_property', r + property'[r] = s
                   PROVE  FALSE
        BY DEF Merged
      <3>1. r = base
        BY <1>5, <2>2
      <3>2. base + (property[base] + property[p]) = p + property[p]
        BY <1>1, <1>2, <2>1
      <3>3. p + property[p] = s
        BY <2>2, <3>1, <3>2
      <3> QED
        BY <1>5, <2>1, <2>2, <3>3
    <2>4. TypeOK' /\ pc' # "panic"
      BY <1>1, <1>8, <2>1, <2>2 DEF IInv, TypeOK, Whole, Links, Lengths, Entries
    <2> QED
      BY <1>1, <1>6, <1>7, <2>2, <2>3, <2>4 DEF IInv
  <1>9. CASE ~Adjacent(base, p) /\ UNCHANGED <<link, property, PG_property>>
    <2>1. Whole(link', PG_property', PG_property', property', used, nr_free)
      BY <1>1, <1>9
    <2>2. Merged'
      <3> SUFFICES ASSUME NEW s \in P, base + property[base] = s
                   PROVE  FALSE
        BY <1>5, <1>9 DEF Merged
      <3>1. base < s
        BY <1>1, <1>2
      <3>2. p # free_list /\ p <= s /\ base < p
        BY <1>1, <1>2, <1>4, <3>1 DEF NoneBetween
      <3>3. p \in P
        BY <1>4, <3>2
      <3>4. base + property[base] <= p
        BY <1>1, <3>2, <3>3 DEF Whole, Covers
      <3>5. p = s
        BY <1>2, <3>2, <3>3, <3>4
      <3> QED
        BY <1>1, <1>2, <1>9, <3>5, PageTypes DEF Adjacent
    <2>3. TypeOK' /\ pc' # "panic"
      BY <1>1, <1>9 DEF IInv, TypeOK
    <2> QED
      BY <1>1, <1>6, <1>7, <2>1, <2>2, <2>3 DEF IInv
  <1> QED
    BY <1>3, <1>8, <1>9

(* init_memmap leaves one block of all the pages. *)
LEMMA Start ==
  ASSUME Init
  PROVE  IInv
  <1> USE DEF Init
  <1> DEFINE e == [p \in Pages \cup {free_list} |-> free_list]
             l == [next |-> e, prev |-> e]
             f == [p \in Pages |-> IF p = 0 THEN NPAGE ELSE 0]
  <1>1. 0 \in Pages /\ 0 \in Nat /\ NPAGE - 1 \in Pages
    BY InPages, FreeListAssumption
  <1>2. l \in Links /\ l.next[free_list] = free_list /\ l.prev[free_list] = free_list
    BY PageTypes DEF Links, Entries
  <1>3. Linked(l, {})
    BY <1>2 DEF Linked, NoneBetween
  <1>4. link = list_add_between(l, 0, free_list, l.next[free_list])
    BY DEF list_add
  <1> HIDE DEF l, e
  <1>5. link \in Links /\ Linked(link, {} \cup {0})
    BY <1>1, <1>2, <1>3, <1>4, PageTypes, AddLinked
  <1>6. Listed = {0} /\ Taken = {} /\ PG_property = {0}
    BY DEF Listed, Taken
  <1>7. f \in Lengths /\ f[0] = NPAGE
    BY <1>1, FreeListAssumption DEF Lengths
  <1> HIDE DEF f
  <1>8. Covers({0}, f, {})
    BY <1>7, InPages, FreeListAssumption DEF Covers, Within
  <1>9. NPAGE = Cardinality(Pages \ {})
    BY FS_Interval, FreeListAssumption DEF Pages
  <1>10. property = f
    BY DEF f
  <1>11. Whole(link, Listed, PG_property, property, Taken, nr_free)
    <2>1. {} \cup {0} = {0} /\ {0} \in SUBSET Pages
      BY <1>1
    <2> QED
      BY <1>5, <1>6, <1>7, <1>8, <1>9, <1>10, <2>1 DEF Whole
  <1>12. Merged
    BY <1>6, <1>7, <1>10, FreeListAssumption DEF Merged
  <1>13. Allocating /\ Freeing
    BY DEF Allocating, Freeing
  <1>14. TypeOK /\ pc # "panic"
    BY <1>1, <1>5, <1>6, <1>7, <1>10, FreeListAssumption DEF TypeOK, Links, Lengths, Entries
  <1> QED
    BY <1>11, <1>12, <1>13, <1>14 DEF IInv

(* The invariant is inductive as long as nobody is given the last page. *)
THEOREM Inductive ==
  ASSUME Roomy
  PROVE  Spec => []IInv
  <1>1. Init => IInv
    BY Start
  <1>2. IInv /\ [Next]_vars => IInv'
    <2> SUFFICES ASSUME IInv, [Next]_vars PROVE IInv'
      OBVIOUS
    <2>1. ASSUME NEW k \in 1..MAX_N, alloc_pages(k), UNCHANGED pmm_manager PROVE IInv'
      BY <2>1, CallAlloc
    <2>2. ASSUME NEW k \in 1..MAX_N, NEW b \in Pages, free_pages(b, k), UNCHANGED pmm_manager
          PROVE  IInv'
      BY <2>2, CallFree
    <2>3. CASE Call
      BY <2>1, <2>2, <2>3 DEF Call
    <2>4. CASE Step
      BY <2>4, ScanDefault, ScanBest, Take, Return, Insert, MergePrev, MergeNext DEF Step
    <2>5. CASE UNCHANGED vars
      <3>1. PICK k : k = n
        OBVIOUS
      <3>2. Fit(n)' = Fit(k) /\ (Acceptable(k) => Acceptable(n)')
        BY <2>5, <3>1, FitStays DEF vars
      <3>3. Taken' = Taken /\ Listed' = Listed
        BY <2>5 DEF vars, list, Taken, Listed
      <3>4. TypeOK' /\ Merged' /\ Freeing'
        BY <2>5, <3>3 DEF vars, list, IInv, TypeOK, Merged, Freeing
      <3>5. Allocating'
        BY <2>5, <3>1, <3>2 DEF vars, list, IInv, Allocating
      <3> QED
        BY <2>5, <3>3, <3>4, <3>5 DEF vars, list, IInv
    <2> QED
      BY <2>3, <2>4, <2>5 DEF Next
  <1> QED
    BY <1>1, <1>2, PTL DEF Spec

(* The list is whole between two calls, its blocks are disjoint and hold   *)
(* just the pages that nobody has, nr_free counts them, and the assertion  *)
(* of free_pages never fails.                                              *)
THEOREM ListAlwaysWhole ==
  ASSUME Roomy
  PROVE  Spec => []FreeOK
  <1>1. IInv => FreeOK
    <2> SUFFICES ASSUME IInv PROVE FreeOK
      OBVIOUS
    <2> DEFINE P == PG_property
    <2>1. ASSUME pc = "idle"
          PROVE  /\ Whole(link, P, P, property, used, nr_free)
                 /\ Linked(link, P) /\ P \subseteq Nat /\ P \in SUBSET Pages
                 /\ property \in Lengths /\ Covers(P, property, used) /\ used \in SUBSET Pages
      BY <2>1, AtRest
    <2>2. ASSUME pc = "idle", NEW p \in P \cup {free_list}, NEW higher, higher = {q \in P : p < q}
          PROVE  /\ link.next[p] = IF higher = {} THEN free_list ELSE Min(higher)
                 /\ link.prev[link.next[p]] = p
      <3>1. /\ NoneBetween(P, p, link.next[p]) /\ link.next[p] \in P \cup {free_list}
            /\ link.prev[link.next[p]] = p
        BY <2>1, <2>2 DEF Linked
      <3>2. PICK q : q = link.next[p]
        OBVIOUS
      <3>3. P \subseteq Int /\ p \in Int /\ higher \in SUBSET Int
        BY <2>1, <2>2, PageTypes
      <3>4. CASE q = free_list
        BY <2>2, <3>1, <3>2, <3>3, <3>4 DEF NoneBetween
      <3>5. CASE q # free_list
        <4>1. q \in higher /\ \A r \in higher : q <= r
          BY <2>2, <3>1, <3>2, <3>3, <3>5 DEF NoneBetween
        <4>2. Min(higher) = q /\ higher # {}
          BY <3>3, <4>1, MinIs
        <4> QED
          BY <3>1, <3>2, <4>2
      <3> QED
        BY <3>4, <3>5
    <2>3. ListOK
      BY <2>2 DEF ListOK
    <2>4. ASSUME pc = "idle", NEW p \in P, NEW q \in P, p # q
          PROVE  Block(p, property[p]) \cap Block(q, property[q]) = {}
      <3>1. \A r \in P : r \in Int /\ property[r] \in Nat
        BY <2>1, <2>4, Bounds
      <3>2. p + property[p] <= q \/ q + property[q] <= p
        BY <2>1, <2>4, <3>1 DEF Covers
      <3> QED
        BY <3>1, <3>2, BlockPages
    <2>5. ASSUME pc = "idle"
          PROVE  UNION {Block(p, property[p]) : p \in P} = Pages \ used
      <3>1. \A r \in P : r \in Int /\ property[r] \in Nat
        BY <2>1, <2>5, Bounds
      <3>2. ASSUME NEW p \in P PROVE Block(p, property[p]) \subseteq Pages \ used
        BY <2>1, <2>5, CoverDrop
      <3>3. ASSUME NEW x \in Pages \ used PROVE \E p \in P : x \in Block(p, property[p])
        <4>1. PICK p \in P : p <= x /\ x < p + property[p]
          BY <2>1, <2>5 DEF Covers, Within
        <4> QED
          BY <3>1, <4>1, BlockPages, InPages
      <3> QED
        BY <3>2, <3>3
    <2>6. pc = "idle" => nr_free = Cardinality(Pages \ used)
      BY <2>1 DEF Whole
    <2> QED
      BY <2>3, <2>4, <2>5, <2>6 DEF FreeOK, IInv
  <1> QED
    BY <1>1, Inductive, PTL

(* free_pages leaves no block that ends where another one begins. *)
THEOREM AlwaysCoalesced ==
  ASSUME Roomy
  PROVE  Spec => []Coalesced
  <1>1. IInv => Coalesced
    BY AtRest DEF Coalesced, Apart
  <1> QED
    BY <1>1, Inductive, PTL

(* alloc_pages returns the first fit or the best fit, and fails only when  *)
(* no run of free pages is long enough.                                    *)
THEOREM AllocAlwaysFits ==
  ASSUME Roomy
  PROVE  Spec => []AllocFits
  <1>1. IInv => AllocFits
    BY DEF IInv, Allocating, AllocFits
  <1> QED
    BY <1>1, Inductive, PTL

(* alloc_pages never returns a page that somebody has, as long as the last *)
(* page stays free; without that it does (the run free_list_full).         *)
THEOREM PagesAlwaysDistinct ==
  ASSUME Roomy
  PROVE  Spec => []PagesDistinct
  <1>1. IInv => PagesDistinct
    BY DEF IInv, Allocating, PagesDistinct
  <1> QED
    BY <1>1, Inductive, PTL
-----------------------------------------------------------------------------
(* The heap of kmalloc.                                                    *)

(* What holds by 0 for all k up to last, when each k takes it from k - 1. *)
LEMMA UpTo ==
  ASSUME NEW last \in Nat, NEW T, 0 \in T, \A k \in 1..last : k - 1 \in T => k \in T
  PROVE  \A k \in 0..last : k \in T
  <1> DEFINE D == {k \in 0..last : k \notin T}
  <1>1. SUFFICES ASSUME D # {} PROVE FALSE
    OBVIOUS
  <1>2. D \subseteq Nat
    OBVIOUS
  <1>3. PICK k \in D : \A j \in D : ~(<<j, k>> \in OpToRel(<, Nat))
    BY <1>1, <1>2, NatLessThanWellFounded, WFMin
  <1>4. k \in 1..last /\ k - 1 \in 0..last /\ k - 1 < k /\ k \notin T
    OBVIOUS
  <1>5. k - 1 \in D
    BY <1>4
  <1>6. <<k - 1, k>> \in OpToRel(<, Nat)
    BY <1>2, <1>4, <1>5, SMT DEF OpToRel
  <1> QED
    BY <1>3, <1>5, <1>6

(* The least number of a set. *)
LEMMA MinIn ==
  ASSUME NEW F \in SUBSET Nat, F # {}
  PROVE  Min(F) \in F /\ \A j \in F : Min(F) =< j
  <1>2. PICK k \in F : \A j \in F : ~(<<j, k>> \in OpToRel(<, Nat))
    BY NatLessThanWellFounded, WFMin
  <1>3. \A j \in F : k =< j
    <2> SUFFICES ASSUME NEW j \in F, ~(k =< j) PROVE FALSE
      OBVIOUS
    <2>1. j < k
      OBVIOUS
    <2>2. <<j, k>> \in OpToRel(<, Nat)
      BY <2>1, SMT DEF OpToRel
    <2> QED
      BY <1>2, <2>2
  <1> QED
    BY <1>2, <1>3 DEF Min
(* SLOB.  How many addresses there are, and where the pages begin.         *)
Limit == PageUnits * (NPages + 1)
PageAt(p) == p * PageUnits
HeapTypes == [units : [Addrs -> Nat], next : [Addrs -> Addrs], slobfree : Addrs]

LEMMA SlobSizes ==
  /\ PageUnits \in Nat /\ PageUnits >= 3 /\ PAGE_SIZE = PageUnits * SLOB_UNIT
  /\ NPages \in Nat \ {0} /\ SLOB_UNIT \in Nat \ {0} /\ BIGBLOCK \in Nat
  /\ Limit \in Nat /\ PageUnits < Limit /\ Addrs = 0..(Limit - 1)
  /\ arena = 0 /\ NoBlock = 0 /\ arena \in Addrs
  <1>1. /\ NPages \in Nat \ {0} /\ SLOB_UNIT \in Nat \ {0} /\ BIGBLOCK \in Nat
        /\ PAGE_SIZE \in Int /\ SLOB_UNIT < BIGBLOCK /\ BIGBLOCK + SLOB_UNIT < PAGE_SIZE
        /\ PAGE_SIZE % SLOB_UNIT = 0
    BY SlobAssumption
  <1>2. PageUnits \in Int /\ PAGE_SIZE = PageUnits * SLOB_UNIT
    BY <1>1 DEF PageUnits
  <1>3. PageUnits >= 3
    <2>1. PageUnits * SLOB_UNIT > 2 * SLOB_UNIT
      BY <1>1, <1>2
    <2> QED
      BY <1>1, <1>2, <2>1
  <1>4. Limit \in Nat /\ PageUnits < Limit
    <2>1. Limit = PageUnits * NPages + PageUnits /\ PageUnits * NPages >= PageUnits
      BY <1>1, <1>2, <1>3 DEF Limit
    <2> QED
      BY <1>1, <1>2, <1>3, <2>1
  <1> QED
    BY <1>1, <1>2, <1>3, <1>4 DEF Limit, Addrs, arena, NoBlock

LEMMA AddrFacts ==
  /\ Limit \in Nat /\ arena = 0 /\ arena \in Addrs
  /\ \A x \in Addrs : x \in Nat /\ x < Limit
  /\ PageUnits \in Nat /\ PageUnits >= 3 /\ PageUnits < Limit
  <1>1. /\ Limit \in Nat /\ Addrs = 0..(Limit - 1) /\ arena = 0 /\ arena \in Addrs
        /\ PageUnits \in Nat /\ PageUnits >= 3 /\ PageUnits < Limit
    BY SlobSizes
  <1> QED
    BY <1>1

LEMMA SlobAddrs ==
  /\ IsFiniteSet(Addrs) /\ Cardinality(Addrs) = Limit
  BY SlobSizes, FS_Interval

LEMMA PagePlaces ==
  /\ \A p \in Int : PageAt(p) \in Int /\ PageAt(p + 1) = PageAt(p) + PageUnits
  /\ \A p, q \in Int : PageAt(p + q) = PageAt(p) + PageAt(q)
  /\ \A p, q \in Int : p < q => PageAt(p) + PageUnits <= PageAt(q)
  /\ PageAt(0) = 0 /\ PageAt(1) = PageUnits /\ Limit = PageAt(NPages + 1)
  <1>1. ASSUME NEW p \in Int, NEW q \in Int
        PROVE  /\ PageAt(p) \in Int /\ PageAt(p + 1) = PageAt(p) + PageUnits
               /\ PageAt(p + q) = PageAt(p) + PageAt(q)
    BY SlobSizes DEF PageAt
  <1>2. ASSUME NEW p \in Int, NEW q \in Int, p < q
        PROVE  PageAt(p) + PageUnits <= PageAt(q)
    <2>1. (q - p) * PageUnits >= PageUnits
      BY <1>2, SlobSizes
    <2>2. q * PageUnits = p * PageUnits + (q - p) * PageUnits
      BY SlobSizes
    <2> QED
      BY <2>1, <2>2, SlobSizes DEF PageAt
  <1> QED
    BY <1>1, <1>2, SlobSizes DEF PageAt, Limit

(* The page that an address lies in.                                       *)
LEMMA PageOf ==
  ASSUME NEW a \in Nat
  PROVE  \E p \in Nat : PageAt(p) <= a /\ a < PageAt(p) + PageUnits
  <1>1. a = PageUnits * (a \div PageUnits) + (a % PageUnits) /\ a \div PageUnits \in Nat
        /\ 0 <= a % PageUnits /\ a % PageUnits < PageUnits /\ a % PageUnits \in Int
    BY SlobSizes
  <1> DEFINE p == a \div PageUnits
  <1>2. PageAt(p) = PageUnits * p
    BY <1>1, SlobSizes DEF PageAt
  <1> QED
    BY <1>1, <1>2, SlobSizes

LEMMA ShiftIs ==
  /\ Shift[0] = 1
  /\ \A k \in Nat \ {0} : Shift[k] = 2 * Shift[k - 1]
  <1> DEFINE G(g, m) == [k \in 0..m |-> IF k = 0 THEN 1 ELSE 2 * g[k - 1]]
             A(m) == CHOOSE g : g = G(g, m)
  <1>1. ASSUME NEW m \in Nat PROVE \E g : g = G(g, m)
    <2> DEFINE T == {k \in 0..m : \E g : g = G(g, k)}
    <2>1. 0 \in T
      <3>1. PICK g : g = [k \in 0..0 |-> 1]
        OBVIOUS
      <3>2. G(g, 0) = [k \in 0..0 |-> 1]
        OBVIOUS
      <3>3. 0 \in 0..m /\ \E f : f = G(f, 0)
        BY <3>1, <3>2
      <3> QED
        BY <3>3
    <2>2. ASSUME NEW i \in 1..m, i - 1 \in T PROVE i \in T
      <3>1. PICK g : g = G(g, i - 1)
        BY <2>2
      <3> DEFINE h == [k \in 0..i |-> IF k = 0 THEN 1 ELSE 2 * g[k - 1]]
      <3>2. \A k \in 0..(i - 1) : h[k] = g[k]
        BY <3>1
      <3>3. \A k \in 0..i : k # 0 => k - 1 \in 0..(i - 1)
        OBVIOUS
      <3>4. h = G(h, i)
        BY <3>2, <3>3
      <3>5. i \in 0..m /\ \E f : f = G(f, i)
        <4> HIDE DEF G, h
        <4> QED
          BY <3>4
      <3> QED
        BY <3>5
    <2> HIDE DEF T
    <2>3. \A k \in 0..m : k \in T
      BY <2>1, <2>2, UpTo
    <2> QED
      BY <2>3 DEF T
  <1>2. ASSUME NEW m \in Nat PROVE A(m) = G(A(m), m)
    <2> HIDE DEF G
    <2> QED
      BY <1>1
  <1>3. ASSUME NEW m \in Nat, NEW j \in 0..m, NEW g, NEW h, g = G(g, m), h = G(h, j)
        PROVE  \A k \in 0..j : g[k] = h[k]
    <2> DEFINE T == {k \in 0..j : g[k] = h[k]}
    <2>1. 0 \in T
      <3>1. g[0] = 1 /\ h[0] = 1
        BY <1>3
      <3> QED
        BY <3>1
    <2>2. ASSUME NEW i \in 1..j, i - 1 \in T PROVE i \in T
      <3>1. i \in 0..m /\ i \in 0..j /\ i # 0
        OBVIOUS
      <3>2. g[i] = 2 * g[i - 1]
        BY <1>3, <3>1
      <3>3. h[i] = 2 * h[i - 1]
        BY <1>3, <3>1
      <3> QED
        BY <2>2, <3>1, <3>2, <3>3
    <2> HIDE DEF T
    <2>3. \A k \in 0..j : k \in T
      BY <2>1, <2>2, UpTo
    <2> QED
      BY <2>3 DEF T
  <1> DEFINE F == [k \in Nat |-> A(k)[k]]
             H(f) == [k \in Nat |-> IF k = 0 THEN 1 ELSE 2 * f[k - 1]]
  <1>4. F = H(F)
    <2>1. ASSUME NEW k \in Nat PROVE A(k)[k] = IF k = 0 THEN 1 ELSE 2 * F[k - 1]
      <3>1. A(k)[k] = IF k = 0 THEN 1 ELSE 2 * A(k)[k - 1]
        <4> HIDE DEF A
        <4> QED
          BY <1>2
      <3>2. k # 0 => A(k)[k - 1] = A(k - 1)[k - 1]
        <4>1. SUFFICES ASSUME k # 0 PROVE A(k)[k - 1] = A(k - 1)[k - 1]
          OBVIOUS
        <4>2. k - 1 \in Nat /\ k - 1 \in 0..k /\ k - 1 \in 0..(k - 1)
          BY <4>1
        <4>3. A(k) = G(A(k), k) /\ A(k - 1) = G(A(k - 1), k - 1)
          BY <1>2, <4>2
        <4> HIDE DEF A, G
        <4> QED
          BY <1>3, <4>2, <4>3
      <3>3. k # 0 => F[k - 1] = A(k - 1)[k - 1]
        <4> HIDE DEF A
        <4> QED
          OBVIOUS
      <3> HIDE DEF A, F
      <3> QED
        BY <3>1, <3>2, <3>3
    <2> HIDE DEF A
    <2> QED
      BY <2>1
  <1>5. Shift = CHOOSE f : f = H(f)
    BY DEF Shift
  <1>6. Shift = H(Shift)
    <2> HIDE DEF F, H
    <2> QED
      BY <1>4, <1>5
  <1> QED
    BY <1>6

LEMMA ShiftGrows ==
  \A k \in Nat : Shift[k] \in Nat \ {0} /\ Shift[k] > k
  <1>1. SUFFICES ASSUME NEW m \in Nat PROVE Shift[m] \in Nat \ {0} /\ Shift[m] > m
    OBVIOUS
  <1> DEFINE T == {k \in 0..m : Shift[k] \in Nat \ {0} /\ Shift[k] > k}
  <1>2. 0 \in T
    BY ShiftIs
  <1>3. \A k \in 1..m : k - 1 \in T => k \in T
    BY ShiftIs
  <1> HIDE DEF T
  <1>4. \A k \in 0..m : k \in T
    BY <1>2, <1>3, UpTo
  <1> QED
    BY <1>4 DEF T
-----------------------------------------------------------------------------
(* The ring of free blocks.                                                *)

LEMMA WalkExists ==
  ASSUME NEW h
  PROVE  Walk(h) = [k \in 0..Limit |-> IF k = 0 THEN h.slobfree ELSE h.next[Walk(h)[k - 1]]]
  <1> DEFINE G(g, m) == [k \in 0..m |-> IF k = 0 THEN h.slobfree ELSE h.next[g[k - 1]]]
             T == {m \in 0..Limit : \E g : g = G(g, m)}
  <1>0. Limit \in Nat
    BY AddrFacts
  <1>1. 0 \in T
    <2>1. PICK g : g = [k \in 0..0 |-> h.slobfree]
      OBVIOUS
    <2>2. G(g, 0) = [k \in 0..0 |-> h.slobfree]
      OBVIOUS
    <2>3. 0 \in 0..Limit /\ \E f : f = G(f, 0)
      BY <1>0, <2>1, <2>2
    <2> QED
      BY <2>3
  <1>2. ASSUME NEW m \in 1..Limit, m - 1 \in T PROVE m \in T
    <2>1. PICK g : g = G(g, m - 1)
      BY <1>2
    <2> DEFINE f == [k \in 0..m |-> IF k = 0 THEN h.slobfree ELSE h.next[g[k - 1]]]
    <2>2. \A k \in 0..(m - 1) : f[k] = g[k]
      BY <2>1, <1>0
    <2>3. \A k \in 0..m : k # 0 => k - 1 \in 0..(m - 1)
      BY <1>0
    <2>4. f = G(f, m)
      BY <2>2, <2>3
    <2>5. m \in 0..Limit /\ \E e : e = G(e, m)
      <3> HIDE DEF G, f
      <3> QED
        BY <2>4, <1>0
    <2> QED
      BY <2>5
  <1>3. Limit \in T
    <2> HIDE DEF T
    <2>1. \A k \in 0..Limit : k \in T
      BY <1>0, <1>1, <1>2, UpTo
    <2> QED
      BY <1>0, <2>1
  <1>4. PICK g : g = G(g, Limit)
    BY <1>3
  <1>5. Walk(h) = CHOOSE f : f = G(f, Limit)
    BY SlobAddrs DEF Walk
  <1>6. Walk(h) = G(Walk(h), Limit)
    <2> HIDE DEF G
    <2> QED
      BY <1>4, <1>5
  <1> QED
    BY <1>6

LEMMA WalkDomain ==
  ASSUME NEW h
  PROVE  DOMAIN Walk(h) = 0..Limit
  BY WalkExists

LEMMA SlobWalk ==
  ASSUME NEW h
  PROVE  /\ Walk(h)[0] = h.slobfree
         /\ \A k \in 1..Limit : Walk(h)[k] = h.next[Walk(h)[k - 1]]
  <1>1. PICK at : at = Walk(h)
    OBVIOUS
  <1>2. at = [k \in 0..Limit |-> IF k = 0 THEN h.slobfree ELSE h.next[at[k - 1]]]
    BY <1>1, WalkExists
  <1>3. Limit \in Nat
    BY AddrFacts
  <1>4. at[0] = h.slobfree /\ \A k \in 1..Limit : at[k] = h.next[at[k - 1]]
    <2> HIDE <1>1
    <2> QED
      BY <1>2, <1>3
  <1> QED
    BY <1>1, <1>4

(* The blocks of R, from one to the next higher and back to the arena.     *)
Follows(R, b, c) ==
  \/ b < c /\ \A x \in R : x <= b \/ c <= x
  \/ c = arena /\ \A x \in R : x <= b
Chained(h, R) ==
  /\ R \subseteq Addrs /\ arena \in R /\ h.slobfree \in R
  /\ \A b \in R : h.next[b] \in R /\ Follows(R, b, h.next[b])

LEMMA HighestIn ==
  ASSUME NEW S \in SUBSET Addrs, S # {}
  PROVE  \E m \in S : \A x \in S : x <= m
  <1> DEFINE D == {Limit - x : x \in S}
  <1>0. Limit \in Nat /\ \A x \in S : x \in Nat /\ x < Limit
    BY AddrFacts
  <1>1. D \in SUBSET Nat
    BY <1>0
  <1>5. D # {}
    OBVIOUS
  <1>2. Min(D) \in D /\ \A j \in D : Min(D) =< j
    <2> HIDE DEF D
    <2> QED
      BY <1>1, <1>5, MinIn
  <1>3. PICK m \in S : Min(D) = Limit - m
    BY <1>2
  <1>4. ASSUME NEW x \in S PROVE x <= m
    <2>1. Limit - x \in D
      OBVIOUS
    <2>2. Limit - m =< Limit - x
      <3> HIDE DEF D
      <3> QED
        BY <1>2, <1>3, <2>1
    <2>3. x \in Nat /\ m \in Nat
      BY <1>0
    <2> QED
      BY <1>0, <2>2, <2>3
  <1> QED
    BY <1>4

(* Who follows the links through some blocks only comes to all of them.    *)
LEMMA RoundTheRing ==
  ASSUME NEW h, NEW R, Chained(h, R), NEW S \in SUBSET R, S # {}, \A b \in S : h.next[b] \in S
  PROVE  S = R
  <1>1. R \subseteq Addrs /\ S \subseteq Addrs
    BY DEF Chained
  <1>0. arena = 0 /\ \A x \in R : x \in Nat
    BY <1>1, AddrFacts
  <1>2. arena \in S
    <2>1. PICK m \in S : \A x \in S : x <= m
      BY <1>1, HighestIn
    <2>2. h.next[m] \in S /\ h.next[m] <= m /\ Follows(R, m, h.next[m])
      BY <2>1 DEF Chained
    <2>3. m \in R /\ h.next[m] \in R
      BY <2>2
    <2> QED
      BY <1>0, <2>2, <2>3 DEF Follows
  <1>3. ASSUME NEW b \in R, b \notin S PROVE FALSE
    <2> DEFINE D == {x \in S : x < b}
    <2>1. arena \in D
      BY <1>0, <1>2, <1>3
    <2>2. PICK m \in D : \A x \in D : x <= m
      BY <1>1, <2>1, HighestIn
    <2>3. h.next[m] \in S /\ Follows(R, m, h.next[m]) /\ m < b
      BY <2>2 DEF Chained
    <2>4. h.next[m] # b
      BY <1>3, <2>3
    <2>6. m \in R /\ h.next[m] \in R
      BY <2>2, <2>3
    <2>5. m < h.next[m] /\ h.next[m] <= b
      BY <1>0, <1>3, <2>3, <2>6 DEF Follows
    <2>7. h.next[m] \in D
      BY <1>0, <1>3, <2>3, <2>4, <2>5, <2>6
    <2> QED
      BY <1>0, <2>2, <2>5, <2>6, <2>7
  <1> QED
    BY <1>3

LEMMA NextOnce ==
  ASSUME NEW h, NEW R, Chained(h, R), NEW a \in R, NEW b \in R, h.next[a] = h.next[b]
  PROVE  a = b
  <1>1. arena = 0 /\ \A x \in R : x \in Nat
    BY AddrFacts DEF Chained
  <1>2. h.next[a] \in R /\ Follows(R, a, h.next[a]) /\ Follows(R, b, h.next[a])
    BY DEF Chained
  <1> QED
    BY <1>1, <1>2 DEF Follows

LEMMA WalkStays ==
  ASSUME NEW h, NEW R, Chained(h, R)
  PROVE  \A k \in 0..Limit : Walk(h)[k] \in R
  <1> DEFINE T == {k \in 0..Limit : Walk(h)[k] \in R}
  <1>0. Limit \in Nat
    BY AddrFacts
  <1>1. 0 \in T
    BY <1>0, SlobWalk DEF Chained
  <1>2. ASSUME NEW k \in 1..Limit, k - 1 \in T PROVE k \in T
    BY <1>0, <1>2, SlobWalk DEF Chained
  <1> HIDE DEF T
  <1>3. \A k \in 0..Limit : k \in T
    BY <1>0, <1>1, <1>2, UpTo
  <1> QED
    BY <1>3 DEF T

(* The walk comes back to where it started.                                *)
LEMMA WalkReturns ==
  ASSUME NEW h, NEW R, Chained(h, R)
  PROVE  \E k \in 1..Limit : Walk(h)[k] = h.slobfree
  <1> DEFINE at == Walk(h)
             D == {k \in 1..Limit : \E i \in 0..(k - 1) : at[i] = at[k]}
  <1>0. Limit \in Nat
    BY AddrFacts
  <1>1. D # {}
    <2> DEFINE f == [k \in 0..Limit |-> at[k]]
    <2>1. IsFiniteSet(0..Limit) /\ Cardinality(0..Limit) = Limit + 1
      BY <1>0, FS_Interval
    <2>2. f \in [0..Limit -> Addrs]
      BY WalkStays DEF Chained
    <2>3. PICK x \in 0..Limit, y \in 0..Limit : x # y /\ f[x] = f[y]
      <3> HIDE DEF f
      <3>1. Cardinality(Addrs) < Cardinality(0..Limit)
        BY <1>0, <2>1, SlobAddrs
      <3>2. IsFiniteSet(Addrs)
        BY SlobAddrs
      <3>3. PICK A : A = 0..Limit
        OBVIOUS
      <3>4. IsFiniteSet(A) /\ Cardinality(Addrs) < Cardinality(A) /\ f \in [A -> Addrs]
        BY ONLY <2>1, <2>2, <3>1, <3>3
      <3>5. \E x, y \in A : x # y /\ f[x] = f[y]
        BY ONLY <3>2, <3>4, FS_PigeonHole
      <3> QED
        BY ONLY <3>3, <3>5
    <2>4. at[x] = at[y]
      BY <2>3
    <2>5. CASE x < y
      BY <1>0, <2>4, <2>5
    <2>6. CASE y < x
      BY <1>0, <2>4, <2>6
    <2> QED
      BY <2>3, <2>5, <2>6
  <1> DEFINE k == Min(D)
  <1>2. k \in D /\ \A j \in D : k =< j
    <2>1. D \in SUBSET Nat
      BY <1>0
    <2> HIDE DEF D
    <2> QED
      BY <1>1, <2>1, MinIn
  <1>3. PICK i \in 0..(k - 1) : at[i] = at[k]
    BY <1>2
  <1>4. k \in 1..Limit
    BY <1>2
  <1> HIDE DEF D, k
  <1>5. i = 0
    <2>1. SUFFICES ASSUME i # 0 PROVE FALSE
      OBVIOUS
    <2>2. i \in 1..Limit /\ i - 1 \in 0..Limit /\ k - 1 \in 0..Limit
          /\ k - 1 \in 1..Limit /\ i - 1 \in 0..((k - 1) - 1)
      BY <1>0, <1>3, <1>4, <2>1
    <2>3. h.next[at[i - 1]] = h.next[at[k - 1]]
      BY <1>3, <1>4, <2>2, SlobWalk
    <2>4. at[i - 1] = at[k - 1]
      BY <2>2, <2>3, WalkStays, NextOnce
    <2>5. k - 1 \in D
      BY <2>2, <2>4 DEF D
    <2> QED
      BY <1>0, <1>2, <1>4, <2>5
  <1> QED
    BY <1>3, <1>4, <1>5, SlobWalk

(* The first return, before which the walk has been everywhere.            *)
LEMMA WalkRound ==
  ASSUME NEW h, NEW R, Chained(h, R),
         NEW last, last = Min({k \in DOMAIN Walk(h) \ {0} : Walk(h)[k] = h.slobfree})
  PROVE  /\ last \in 1..Limit
         /\ R = {Walk(h)[k] : k \in 1..last}
         /\ R = {Walk(h)[k] : k \in 0..Limit}
  <1> DEFINE at == Walk(h)
             D == {k \in DOMAIN at \ {0} : at[k] = h.slobfree}
             S == {at[k] : k \in 1..last}
  <1>0. Limit \in Nat
    BY AddrFacts
  <1>1. last \in D
    <2>1. D \in SUBSET Nat
      BY <1>0, WalkDomain
    <2>2. D # {}
      BY <1>0, WalkReturns, WalkDomain
    <2> HIDE DEF D
    <2> QED
      BY <2>1, <2>2, MinIn DEF D
  <1>2. last \in 1..Limit /\ at[last] = at[0]
    BY <1>0, <1>1, WalkDomain, SlobWalk
  <1>3. \A k \in 1..last : k \in 0..Limit
    BY <1>0, <1>2
  <1>4. S \in SUBSET R /\ S # {}
    BY <1>2, <1>3, WalkStays
  <1>5. ASSUME NEW k \in 1..last PROVE h.next[at[k]] \in S
    <2>1. CASE k < last
      <3>1. k + 1 \in 1..last /\ k + 1 \in 1..Limit /\ (k + 1) - 1 = k
        BY <1>0, <1>2, <2>1
      <3>2. at[k + 1] = h.next[at[k]]
        BY <3>1, SlobWalk
      <3> QED
        BY <3>1, <3>2
    <2>2. CASE k = last
      <3>1. 1 \in 1..last /\ 1 \in 1..Limit /\ 1 - 1 = 0
        BY <1>0, <1>2
      <3>2. at[1] = h.next[at[0]]
        BY <3>1, SlobWalk
      <3> QED
        BY <1>2, <2>2, <3>1, <3>2
    <2> QED
      BY <1>2, <2>1, <2>2
  <1>6. \A b \in S : h.next[b] \in S
    BY <1>5
  <1>7. S = R
    <2> HIDE DEF S
    <2> QED
      BY <1>4, <1>6, RoundTheRing
  <1>8. R = {at[k] : k \in 0..Limit}
    BY <1>3, <1>7, WalkStays
  <1> QED
    BY <1>2, <1>7, <1>8

RingOf(h) == {Walk(h)[k] : k \in 0..Limit}
LEMMA RingIs ==
  ASSUME NEW h, NEW R, Chained(h, R)
  PROVE  RingOf(h) = R
  <1>1. PICK last : last = Min({k \in DOMAIN Walk(h) \ {0} : Walk(h)[k] = h.slobfree})
    OBVIOUS
  <1> QED
    BY <1>1, WalkRound DEF RingOf
-----------------------------------------------------------------------------
(* The pieces of memory, each with its owner; they fill an interval when   *)
(* they do not overlap and leave nothing out.                              *)
Part(kind, x, a, k) == [kind |-> kind, of |-> x, at |-> a, len |-> k]
Beside(p, q) == p.at + p.len <= q.at \/ q.at + q.len <= p.at
Fills(P, lo, hi) ==
  /\ \A p \in P : /\ p.at \in Nat /\ p.len \in Nat \ {0}
                  /\ lo <= p.at /\ p.at + p.len <= hi
  /\ \A p, q \in P : p # q => Beside(p, q)
  /\ \A a \in lo..(hi - 1) : \E p \in P : p.at <= a /\ a < p.at + p.len

(* Pieces that fill an interval may be exchanged for others that do.       *)
LEMMA Exchange ==
  ASSUME NEW l \in Int, NEW h \in Int, NEW P, Fills(P, l, h), NEW Q \in SUBSET P, NEW N,
         NEW lo \in Nat, NEW hi \in Nat, lo < hi, Fills(Q, lo, hi), Fills(N, lo, hi)
  PROVE  Fills((P \ Q) \cup N, l, h)
  <1> DEFINE O == P \ Q
  <1>1. \A p \in P : p.at \in Nat /\ p.len \in Nat \ {0} /\ l <= p.at /\ p.at + p.len <= h
    BY DEF Fills
  <1>2. \A p \in N : p.at \in Nat /\ p.len \in Nat \ {0} /\ lo <= p.at /\ p.at + p.len <= hi
    BY DEF Fills
  <1>3. \A q \in Q : q.at \in Nat /\ q.len \in Nat \ {0} /\ lo <= q.at /\ q.at + q.len <= hi
    BY DEF Fills
  <1>4. l <= lo /\ hi <= h
    <2>1. lo \in lo..(hi - 1) /\ hi - 1 \in lo..(hi - 1)
      OBVIOUS
    <2>2. PICK q \in Q : q.at <= lo /\ lo < q.at + q.len
      BY <2>1 DEF Fills
    <2>3. PICK r \in Q : r.at <= hi - 1 /\ hi - 1 < r.at + r.len
      BY <2>1 DEF Fills
    <2>4. /\ l <= q.at /\ q.at \in Nat /\ r.at + r.len <= h /\ r.at \in Nat /\ r.len \in Nat
          /\ lo <= q.at /\ r.at + r.len <= hi
      BY <1>1, <1>3
    <2> QED
      BY <2>2, <2>3, <2>4
  <1>5. ASSUME NEW p \in O PROVE p.at + p.len <= lo \/ hi <= p.at
    <2>1. p.at \in Nat /\ p.len \in Nat \ {0}
      BY <1>1
    <2>2. SUFFICES ASSUME p.at < hi, lo < p.at + p.len PROVE FALSE
      BY <2>1
    <2> DEFINE a == IF p.at < lo THEN lo ELSE p.at
    <2>3. a \in lo..(hi - 1) /\ p.at <= a /\ a < p.at + p.len
      BY <2>1, <2>2
    <2> HIDE DEF a
    <2>4. PICK q \in Q : q.at <= a /\ a < q.at + q.len
      BY <2>3 DEF Fills
    <2>5. p # q /\ p \in P /\ q \in P
      OBVIOUS
    <2>6. Beside(p, q)
      BY <2>5 DEF Fills
    <2>7. q.at \in Nat /\ q.len \in Nat \ {0} /\ a \in Int
      BY <1>1, <2>3
    <2> QED
      BY <2>1, <2>3, <2>4, <2>6, <2>7 DEF Beside
  <1>6. \A p \in O \cup N : p.at \in Nat /\ p.len \in Nat \ {0} /\ l <= p.at /\ p.at + p.len <= h
    <2>1. ASSUME NEW p \in N
          PROVE  p.at \in Nat /\ p.len \in Nat \ {0} /\ l <= p.at /\ p.at + p.len <= h
      BY <1>2, <1>4
    <2> QED
      BY <1>1, <2>1
  <1>7. ASSUME NEW p \in O \cup N, NEW q \in O \cup N, p # q PROVE Beside(p, q)
    <2>1. CASE p \in O /\ q \in O
      BY <1>7, <2>1 DEF Fills
    <2>2. CASE p \in N /\ q \in N
      BY <1>7, <2>2 DEF Fills
    <2>3. CASE p \in O /\ q \in N
      <3>1. p.at + p.len <= lo \/ hi <= p.at
        BY <1>5, <2>3
      <3>2. /\ lo <= q.at /\ q.at + q.len <= hi /\ q.at \in Nat /\ q.len \in Nat
            /\ p.at \in Nat /\ p.len \in Nat
        BY <1>2, <1>6, <2>3
      <3> QED
        BY <3>1, <3>2 DEF Beside
    <2>4. CASE p \in N /\ q \in O
      <3>1. q.at + q.len <= lo \/ hi <= q.at
        BY <1>5, <2>4
      <3>2. /\ lo <= p.at /\ p.at + p.len <= hi /\ p.at \in Nat /\ p.len \in Nat
            /\ q.at \in Nat /\ q.len \in Nat
        BY <1>2, <1>6, <2>4
      <3> QED
        BY <3>1, <3>2 DEF Beside
    <2> QED
      BY <2>1, <2>2, <2>3, <2>4
  <1>8. ASSUME NEW a \in l..(h - 1) PROVE \E p \in O \cup N : p.at <= a /\ a < p.at + p.len
    <2>1. CASE a \in lo..(hi - 1)
      BY <2>1 DEF Fills
    <2>2. CASE a \notin lo..(hi - 1)
      <3>1. PICK p \in P : p.at <= a /\ a < p.at + p.len
        BY DEF Fills
      <3>2. p \notin Q
        <4>1. SUFFICES ASSUME p \in Q PROVE FALSE
          OBVIOUS
        <4>2. p.at \in Nat /\ p.len \in Nat /\ lo <= p.at /\ p.at + p.len <= hi
          BY <1>3, <4>1
        <4> QED
          BY <2>2, <3>1, <4>2
      <3> QED
        BY <3>1, <3>2
    <2> QED
      BY <2>1, <2>2
  <1> QED
    BY <1>6, <1>7, <1>8 DEF Fills

LEMMA OnePart ==
  ASSUME NEW k, NEW x, NEW lo \in Nat, NEW m \in Nat \ {0}
  PROVE  Fills({Part(k, x, lo, m)}, lo, lo + m)
  BY DEF Fills, Part

LEMMA TwoParts ==
  ASSUME NEW p, NEW q, p.at \in Nat, p.len \in Nat \ {0}, q.len \in Nat \ {0},
         q.at = p.at + p.len
  PROVE  Fills({p, q}, p.at, p.at + p.len + q.len)
  <1>1. \A r \in {p, q} : r.at \in Nat /\ r.len \in Nat \ {0} /\ p.at <= r.at
                          /\ r.at + r.len <= p.at + p.len + q.len
    OBVIOUS
  <1>2. Beside(p, q) /\ Beside(q, p)
    BY DEF Beside
  <1>3. \A a \in p.at..(p.at + p.len + q.len - 1) :
          \E r \in {p, q} : r.at <= a /\ a < r.at + r.len
    OBVIOUS
  <1> QED
    BY <1>1, <1>2, <1>3 DEF Fills

(* One more piece behind pieces that fill an interval, or before them.     *)
LEMMA PartAfter ==
  ASSUME NEW P, NEW lo \in Nat, NEW hi \in Nat, lo < hi, Fills(P, lo, hi),
         NEW q, q.at = hi, q.len \in Nat \ {0}
  PROVE  Fills(P \cup {q}, lo, hi + q.len)
  <1>1. \A r \in P \cup {q} : r.at \in Nat /\ r.len \in Nat \ {0} /\ lo <= r.at
                              /\ r.at + r.len <= hi + q.len
    BY DEF Fills
  <1>2. \A p \in P : Beside(p, q) /\ Beside(q, p)
    BY DEF Fills, Beside
  <1>3. ASSUME NEW a \in lo..(hi + q.len - 1)
        PROVE  \E r \in P \cup {q} : r.at <= a /\ a < r.at + r.len
    <2>1. CASE a < hi
      BY <2>1 DEF Fills
    <2>2. CASE a >= hi
      BY <2>2
    <2> QED
      BY <2>1, <2>2
  <1> QED
    BY <1>1, <1>2, <1>3 DEF Fills

LEMMA PartBefore ==
  ASSUME NEW P, NEW lo \in Nat, NEW hi \in Nat, lo < hi, Fills(P, lo, hi),
         NEW q, q.at \in Nat, q.len \in Nat \ {0}, q.at + q.len = lo
  PROVE  Fills(P \cup {q}, q.at, hi)
  <1>1. \A r \in P \cup {q} : r.at \in Nat /\ r.len \in Nat \ {0} /\ q.at <= r.at
                              /\ r.at + r.len <= hi
    BY DEF Fills
  <1>2. \A p \in P : Beside(p, q) /\ Beside(q, p)
    BY DEF Fills, Beside
  <1>3. ASSUME NEW a \in q.at..(hi - 1)
        PROVE  \E r \in P \cup {q} : r.at <= a /\ a < r.at + r.len
    <2>1. CASE a >= lo
      BY <2>1 DEF Fills
    <2>2. CASE a < lo
      BY <2>2
    <2> QED
      BY <2>1, <2>2
  <1> QED
    BY <1>1, <1>2, <1>3 DEF Fills

LEMMA FillsBeside ==
  ASSUME NEW P, NEW lo \in Int, NEW hi \in Int, Fills(P, lo, hi), NEW p \in P, NEW q \in P,
         p.at <= q.at, q.at < p.at + p.len
  PROVE  p = q
  BY DEF Fills, Beside
-----------------------------------------------------------------------------
(* What slob_free does to the ring.                                        *)
FreePart(h, b) == Part("free", b, b, h.units[b])
FreeParts(h, R) == {FreePart(h, b) : b \in R \ {arena}}
Tiles(P) == Fills(P, PageUnits, Limit)

(* No free block touches another one, and the arena is as it was built.    *)
RingOK(h, R) ==
  /\ h \in HeapTypes /\ Chained(h, R)
  /\ h.units[arena] = 1 /\ \A b \in R : b + h.units[b] \notin R

LEMMA RingFacts ==
  ASSUME NEW h, NEW R, RingOK(h, R)
  PROVE  /\ h \in HeapTypes /\ R \subseteq Addrs /\ arena \in R /\ arena = 0 /\ h.slobfree \in R
         /\ \A x \in R : x \in Nat /\ h.next[x] \in R /\ Follows(R, x, h.next[x])
                         /\ h.units[x] \in Nat
  BY AddrFacts DEF RingOK, Chained, HeapTypes

(* Where slob_free inserts a block.                                        *)
Cursor(h, b) == Walk(h)[Min({k \in DOMAIN Walk(h) : Between(h, Walk(h)[k], b)})]

LEMMA CursorIs ==
  ASSUME NEW h, NEW R, Chained(h, R), NEW b \in Addrs, b \notin R
  PROVE  /\ Cursor(h, b) \in R /\ Cursor(h, b) < b
         /\ b < h.next[Cursor(h, b)] \/ h.next[Cursor(h, b)] = arena
  <1> DEFINE D == {k \in DOMAIN Walk(h) : Between(h, Walk(h)[k], b)}
  <1>0. Limit \in Nat /\ arena = 0 /\ R \subseteq Addrs /\ arena \in R /\ b \in Nat
        /\ b # 0 /\ \A x \in R : x \in Nat
    BY AddrFacts DEF Chained
  <1>1. \E c \in R : Between(h, c, b)
    <2> DEFINE S == {x \in R : x < b}
    <2>1. arena \in S
      BY <1>0
    <2>7. S \in SUBSET Addrs
      BY <1>0
    <2> HIDE DEF S
    <2>2. PICK c \in S : \A x \in S : x <= c
      BY <2>1, <2>7, HighestIn
    <2>3. c \in R /\ c < b /\ h.next[c] \in R /\ Follows(R, c, h.next[c])
      BY <2>2 DEF S, Chained
    <2>4. h.next[c] # b /\ h.next[c] \in Nat /\ c \in Nat
      BY <1>0, <2>3
    <2>5. CASE c < h.next[c]
      <3>1. ~(h.next[c] < b)
        <4>1. SUFFICES ASSUME h.next[c] < b PROVE FALSE
          OBVIOUS
        <4>2. h.next[c] \in S
          BY <2>3, <4>1 DEF S
        <4>3. h.next[c] <= c
          BY <2>2, <4>2
        <4> QED
          BY <2>4, <2>5, <4>3
      <3>2. b < h.next[c]
        BY <1>0, <2>4, <3>1
      <3> QED
        BY <2>3, <3>2 DEF Between
    <2>6. CASE c >= h.next[c]
      BY <1>0, <2>3, <2>4, <2>6 DEF Between
    <2> QED
      BY <2>4, <2>5, <2>6
  <1>2. D # {} /\ D \in SUBSET Nat
    <2>1. PICK c \in R : Between(h, c, b)
      BY <1>1
    <2>2. R = RingOf(h)
      BY RingIs
    <2>3. PICK k \in 0..Limit : c = Walk(h)[k]
      BY <2>1, <2>2 DEF RingOf
    <2>4. DOMAIN Walk(h) = 0..Limit
      BY WalkDomain
    <2>5. k \in D
      BY <2>1, <2>3, <2>4
    <2>6. D \subseteq 0..Limit
      BY <2>4
    <2> HIDE DEF D
    <2> QED
      BY <1>0, <2>5, <2>6
  <1>3. Min(D) \in D
    <2> HIDE DEF D
    <2> QED
      BY <1>2, MinIn
  <1>4. Cursor(h, b) \in R /\ Between(h, Cursor(h, b), b)
    <2>1. DOMAIN Walk(h) = 0..Limit
      BY WalkDomain
    <2>2. Min(D) \in 0..Limit /\ Between(h, Walk(h)[Min(D)], b)
      BY <1>3, <2>1
    <2>3. Cursor(h, b) = Walk(h)[Min(D)]
      BY DEF Cursor
    <2> HIDE DEF D
    <2> QED
      BY <2>2, <2>3, WalkStays
  <1>5. PICK c \in R : c = Cursor(h, b)
    BY <1>4
  <1>6. h.next[c] \in R /\ Follows(R, c, h.next[c]) /\ Between(h, c, b) /\ c # b
    BY <1>4, <1>5 DEF Chained
  <1>7. c < b /\ (b < h.next[c] \/ h.next[c] = arena)
    <2>1. PICK d \in R : d = h.next[c]
      BY <1>6
    <2>2. c \in Nat /\ d \in Nat /\ d # b
      BY <1>0
    <2>3. (c < b /\ b < d) \/ (c >= d /\ (b > c \/ b < d))
      BY <1>6, <2>1 DEF Between
    <2>4. c < d \/ d = arena
      BY <1>6, <2>1 DEF Follows
    <2> QED
      BY <1>0, <2>1, <2>2, <2>3, <2>4
  <1> QED
    BY <1>5, <1>7

(* The block b of u units goes between cur and nxt and joins what it       *)
(* touches, to a block from lo to hi, before nn.                           *)
Freed(h, g, b, u, cur, nxt, lo, hi, nn) ==
  /\ nxt = h.next[cur]
  /\ lo = IF cur + h.units[cur] = b THEN cur ELSE b
  /\ hi = IF b + u = nxt THEN nxt + h.units[nxt] ELSE b + u
  /\ nn = IF b + u = nxt THEN h.next[nxt] ELSE nxt
  /\ g \in HeapTypes /\ g.slobfree = cur
  /\ g.units[lo] = hi - lo /\ g.next[lo] = nn
  /\ lo # cur => g.next[cur] = b
  /\ \A x \in Addrs : /\ x # b /\ x # lo => g.units[x] = h.units[x]
                      /\ x # b /\ x # cur => g.next[x] = h.next[x]

LEMMA FreedIs ==
  ASSUME NEW h, NEW R, RingOK(h, R), NEW b \in Addrs, NEW u \in Nat \ {0},
         NEW cur \in R, cur = Cursor(h, b), cur # b, h.next[cur] # b
  PROVE  \E lo, hi, nn : Freed(h, slob_free(h, b, u), b, u, cur, h.next[cur], lo, hi, nn)
  <1>1. PICK nxt, put : /\ nxt = h.next[cur]
                        /\ put = [h EXCEPT !.units[b] = u, !.slobfree = cur]
    OBVIOUS
  <1>2. PICK ahead, g : ahead = join_next(put, b, nxt) /\ g = join_prev(ahead, cur, b)
    OBVIOUS
  <1>4. g = slob_free(h, b, u)
    BY <1>1, <1>2 DEF slob_free, Cursor
  <1>3. g = IF Touches(ahead, cur, b)
            THEN [ahead EXCEPT !.units[cur] = @ + ahead.units[b], !.next[cur] = ahead.next[b]]
            ELSE [ahead EXCEPT !.next[cur] = b]
    BY <1>2 DEF join_prev
  <1>5. /\ h \in HeapTypes /\ cur \in Addrs /\ nxt \in Addrs
        /\ cur # b /\ nxt # b
    BY <1>1, RingFacts
  <1>6. /\ put \in HeapTypes /\ put.units = [h.units EXCEPT ![b] = u] /\ put.next = h.next
        /\ put.slobfree = cur
    BY <1>1, <1>5 DEF HeapTypes
  <1>7. PICK v, m : /\ v = IF b + u = nxt THEN u + h.units[nxt] ELSE u
                    /\ m = IF b + u = nxt THEN h.next[nxt] ELSE nxt
    OBVIOUS
  <1>8. /\ ahead.units = [h.units EXCEPT ![b] = v] /\ ahead.next = [h.next EXCEPT ![b] = m]
        /\ ahead.slobfree = cur /\ ahead \in HeapTypes
    <2>1. Touches(put, b, nxt) <=> b + u = nxt
      BY <1>5, <1>6 DEF Touches, HeapTypes
    <2>2. v \in Nat /\ m \in Addrs /\ put.units[b] = u
      BY <1>5, <1>6, <1>7 DEF HeapTypes
    <2>3. ahead = [put EXCEPT !.units[b] = v, !.next[b] = m]
      <3>1. CASE b + u = nxt
        <4>1. ahead = [put EXCEPT !.units[b] = @ + put.units[nxt], !.next[b] = put.next[nxt]]
              /\ v = u + h.units[nxt] /\ m = h.next[nxt]
          BY <1>2, <1>7, <2>1, <3>1 DEF join_next
        <4>2. put.units[nxt] = h.units[nxt] /\ put.next[nxt] = h.next[nxt]
          BY <1>5, <1>6 DEF HeapTypes
        <4> QED
          BY <2>2, <4>1, <4>2
      <3>2. CASE b + u # nxt
        <4>1. ahead = [put EXCEPT !.next[b] = nxt] /\ v = u /\ m = nxt
          BY <1>2, <1>7, <2>1, <3>2 DEF join_next
        <4>2. put.units = [put.units EXCEPT ![b] = u]
          BY <1>5, <1>6, <2>2 DEF HeapTypes
        <4> QED
          BY <1>6, <4>1, <4>2 DEF HeapTypes
      <3> QED
        BY <3>1, <3>2
    <2> QED
      BY <1>5, <1>6, <2>2, <2>3 DEF HeapTypes
  <1>9. PICK lo, hi : /\ lo = IF cur + h.units[cur] = b THEN cur ELSE b
                      /\ hi = IF b + u = nxt THEN nxt + h.units[nxt] ELSE b + u
    OBVIOUS
  <1>10. Touches(ahead, cur, b) <=> cur + h.units[cur] = b
    BY <1>5, <1>8 DEF Touches, HeapTypes
  <1>11. hi = b + v /\ v \in Nat /\ m \in Addrs /\ b \in Nat /\ cur \in Nat
         /\ h.units[cur] \in Nat
    BY <1>5, <1>7, <1>9, AddrFacts DEF HeapTypes
  <1>12. Freed(h, g, b, u, cur, nxt, lo, hi, m)
    <2>1. CASE cur + h.units[cur] = b
      <3>1. lo = cur /\ hi - lo = h.units[cur] + v
        BY <1>9, <1>11, <2>1
      <3>2. g = [ahead EXCEPT !.units[cur] = h.units[cur] + v, !.next[cur] = m]
        BY <1>3, <1>5, <1>8, <1>10, <2>1 DEF HeapTypes
      <3>3. /\ g.units = [[h.units EXCEPT ![b] = v] EXCEPT ![cur] = h.units[cur] + v]
            /\ g.next = [[h.next EXCEPT ![b] = m] EXCEPT ![cur] = m]
            /\ g.slobfree = cur
        BY <1>5, <1>8, <1>11, <3>2 DEF HeapTypes
      <3>4. h.units[cur] + v \in Nat
        BY <1>11
      <3>5. g \in HeapTypes
        BY <1>5, <1>8, <1>11, <3>2, <3>4 DEF HeapTypes
      <3> QED
        BY <1>1, <1>5, <1>7, <1>9, <1>11, <3>1, <3>3, <3>5 DEF Freed, HeapTypes
    <2>2. CASE cur + h.units[cur] # b
      <3>1. lo = b /\ hi - lo = v
        BY <1>9, <1>11, <2>2
      <3>2. g = [ahead EXCEPT !.next[cur] = b]
        BY <1>3, <1>10, <2>2
      <3>3. /\ g.units = [h.units EXCEPT ![b] = v]
            /\ g.next = [[h.next EXCEPT ![b] = m] EXCEPT ![cur] = b]
            /\ g.slobfree = cur /\ g \in HeapTypes
        BY <1>5, <1>8, <1>11, <3>2 DEF HeapTypes
      <3> QED
        BY <1>1, <1>5, <1>7, <1>9, <1>11, <3>1, <3>3 DEF Freed, HeapTypes
    <2> QED
      BY <2>1, <2>2
  <1> QED
    BY <1>1, <1>4, <1>12
(* The free blocks do not overlap, and b to b + u is free of them.         *)
Disjoint(h, R) ==
  \A c \in R : h.units[c] \in Nat \ {0} /\ \A d \in R : c < d => c + h.units[c] <= d
Room(h, R, b, u) ==
  /\ b \in Nat /\ u \in Nat \ {0} /\ PageUnits <= b /\ b + u <= Limit
  /\ \A c \in R : c + h.units[c] <= b \/ b + u <= c

NewRing(R, b, u, nxt, lo) == {x \in R \cup {lo} : b + u = nxt => x # nxt}

LEMMA RingWith ==
  ASSUME NEW h, NEW R, RingOK(h, R), Disjoint(h, R), NEW b, NEW u, Room(h, R, b, u),
         NEW g, NEW cur \in R, NEW nxt, NEW lo, NEW hi, NEW nn,
         Freed(h, g, b, u, cur, nxt, lo, hi, nn),
         cur < b, b < nxt \/ nxt = arena
  PROVE  /\ RingOK(g, NewRing(R, b, u, nxt, lo))
         /\ lo # arena /\ lo \in Nat /\ hi \in Nat /\ lo <= b /\ b + u <= hi
         /\ b \notin R /\ b \in Addrs
  <1> DEFINE R2 == NewRing(R, b, u, nxt, lo)
  <1>1. /\ b \in Nat /\ u \in Nat /\ u >= 1 /\ b >= 3 /\ b \in Addrs /\ b + u <= Limit
        /\ \A c \in R : c + h.units[c] <= b \/ b + u <= c
    <2>1. b \in Nat /\ u \in Nat \ {0} /\ b + u <= Limit /\ PageUnits <= b
      BY DEF Room
    <2>2. b \in 0..(Limit - 1)
      BY <2>1, AddrFacts
    <2>3. b \in Addrs
      BY <2>2, SlobSizes
    <2> QED
      BY <2>1, <2>3, AddrFacts DEF Room
  <1>2. /\ arena = 0 /\ arena \in R /\ R \subseteq Addrs /\ h \in HeapTypes
        /\ \A x \in R : /\ x \in Nat /\ h.next[x] \in R /\ Follows(R, x, h.next[x])
                        /\ h.units[x] \in Nat /\ h.units[x] >= 1
        /\ h.units[arena] = 1 /\ \A x \in R : x + h.units[x] \notin R
    BY RingFacts DEF RingOK, Disjoint
  <1>3. \A x \in R, y \in R : x < y => x + h.units[x] <= y
    BY DEF Disjoint
  <1>4. b \notin R
    <2>1. SUFFICES ASSUME b \in R PROVE FALSE
      OBVIOUS
    <2> QED
      BY <1>1, <1>2, <2>1
  <1>5. /\ nxt = h.next[cur] /\ nxt \in R /\ Follows(R, cur, nxt) /\ nxt # b
        /\ cur \in Nat /\ nxt \in Nat
    BY <1>2, <1>4 DEF Freed
  <1>6. cur + h.units[cur] <= b
    BY <1>1, <1>2, <1>5
  <1>7. /\ lo = IF cur + h.units[cur] = b THEN cur ELSE b
        /\ hi = IF b + u = nxt THEN nxt + h.units[nxt] ELSE b + u
        /\ nn = IF b + u = nxt THEN h.next[nxt] ELSE nxt
        /\ g \in HeapTypes /\ g.slobfree = cur /\ g.units[lo] = hi - lo /\ g.next[lo] = nn
        /\ (lo # cur => g.next[cur] = b)
        /\ \A x \in Addrs : /\ x # b /\ x # lo => g.units[x] = h.units[x]
                            /\ x # b /\ x # cur => g.next[x] = h.next[x]
    BY DEF Freed
  <1>8. lo = cur => cur # arena
    BY <1>1, <1>2, <1>4, <1>7
  <1>9. lo # arena /\ lo \in Nat /\ hi \in Nat /\ lo <= b /\ b + u <= hi
    BY <1>1, <1>2, <1>5, <1>7, <1>8
  (* What is between cur and nxt. *)
  <1>10. \A x \in R : x <= cur \/ (b + u <= x /\ nxt <= x /\ nxt # arena /\ b < nxt)
    <2>1. SUFFICES ASSUME NEW x \in R, ~(x <= cur)
                   PROVE  b + u <= x /\ nxt <= x /\ nxt # arena /\ b < nxt
      OBVIOUS
    <2>2. x \in Nat /\ nxt <= x /\ nxt # arena
      BY <1>2, <1>5, <2>1 DEF Follows
    <2>3. b < nxt
      BY <2>2
    <2>4. b + u <= x
      BY <1>1, <1>2, <1>5, <2>2, <2>3
    <2> QED
      BY <2>2, <2>3, <2>4
  <1>11. b + u = nxt => nxt # arena /\ nxt # cur /\ nxt # lo
    BY <1>1, <1>2, <1>5, <1>7
  <1>12. \A x : x \in R2 <=> (x \in R \/ x = lo) /\ (b + u = nxt => x # nxt)
    BY DEF NewRing
  <1>13. cur \in R2 /\ arena \in R2 /\ lo \in R2 /\ R2 \subseteq Addrs
    BY <1>1, <1>2, <1>5, <1>7, <1>11, <1>12
  <1>14. lo = cur \/ lo = b
    BY <1>7
  <1> HIDE DEF R2
  <1>15. ASSUME NEW x \in R2 PROVE g.next[x] \in R2 /\ Follows(R2, x, g.next[x])
    <2>1. CASE x = lo
      <3>1. g.next[x] = nn
        BY <1>7, <2>1
      <3>2. CASE b + u = nxt
        <4>1. nn = h.next[nxt] /\ nn \in R /\ Follows(R, nxt, nn) /\ nn \in Nat
          BY <1>2, <1>5, <1>7, <3>2
        <4>2. nn # nxt
          BY <1>2, <1>5, <1>11, <3>2, <4>1 DEF Follows
        <4>3. nn \in R2
          BY <1>12, <4>1, <4>2
        <4>4. \A y \in R2 : y \in Nat /\ (y <= lo \/ nxt < y) /\ (y \in R \/ y = lo)
          <5>1. SUFFICES ASSUME NEW y \in R, y # nxt
                         PROVE  y \in Nat /\ (y <= lo \/ nxt < y)
            BY <1>9, <1>12, <3>2
          <5>2. y \in Nat /\ (y <= cur \/ nxt <= y)
            BY <1>2, <1>10
          <5>3. cur <= lo
            BY <1>1, <1>5, <1>6, <1>14
          <5> QED
            BY <1>5, <1>9, <5>1, <5>2, <5>3
        <4>5. lo < nxt
          BY <1>1, <1>9, <3>2
        <4>6. CASE nxt < nn /\ \A z \in R : z <= nxt \/ nn <= z
          <5>1. \A y \in R2 : y <= lo \/ nn <= y
            BY <1>5, <4>4, <4>5, <4>6, <1>9
          <5>2. lo < nn
            BY <1>5, <1>9, <4>1, <4>5, <4>6
          <5> QED
            BY <2>1, <3>1, <4>3, <5>1, <5>2 DEF Follows
        <4>7. CASE nn = arena /\ \A z \in R : z <= nxt
          <5>1. \A y \in R2 : y <= lo
            BY <1>5, <4>4, <4>5, <4>7, <1>9
          <5> QED
            BY <2>1, <3>1, <4>3, <4>7, <5>1 DEF Follows
        <4> QED
          BY <4>1, <4>6, <4>7 DEF Follows
      <3>3. CASE b + u # nxt
        <4>1. nn = nxt /\ nxt \in R2
          BY <1>5, <1>7, <1>12, <3>3
        <4>2. \A y \in R2 : y <= lo \/ (nxt <= y /\ nxt # arena)
          <5>1. SUFFICES ASSUME NEW y \in R PROVE y <= lo \/ (nxt <= y /\ nxt # arena)
            BY <1>9, <1>12
          <5>2. y \in Nat /\ (y <= cur \/ (nxt <= y /\ nxt # arena))
            BY <1>2, <1>10
          <5>3. cur <= lo
            BY <1>1, <1>5, <1>14
          <5> QED
            BY <1>5, <1>9, <5>2, <5>3
        <4>3. CASE nxt = arena
          BY <2>1, <3>1, <4>1, <4>2, <4>3 DEF Follows
        <4>4. CASE nxt # arena
          <5>1. lo < nxt
            BY <1>1, <1>5, <1>9, <4>4
          <5> QED
            BY <2>1, <3>1, <4>1, <4>2, <5>1 DEF Follows
        <4> QED
          BY <4>3, <4>4
      <3> QED
        BY <3>2, <3>3
    <2>2. CASE x = cur /\ lo # cur
      <3>1. g.next[x] = b /\ lo = b
        BY <1>7, <1>14, <2>2
      <3>2. \A y \in R2 : y <= cur \/ b <= y
        <4>1. SUFFICES ASSUME NEW y \in R PROVE y <= cur \/ b <= y
          BY <1>1, <1>12, <3>1
        <4>2. y \in Nat /\ (y <= cur \/ b + u <= y)
          BY <1>2, <1>10
        <4> QED
          BY <1>1, <4>2
      <3> QED
        BY <1>13, <2>2, <3>1, <3>2 DEF Follows
    <2>3. CASE x # lo /\ x # cur
      <3>1. x \in R /\ x # b /\ x \in Addrs /\ x \in Nat
        BY <1>2, <1>4, <1>12, <2>3
      <3>2. PICK y \in R : y = h.next[x] /\ Follows(R, x, y)
        BY <1>2, <3>1
      <3>3. g.next[x] = y
        BY <1>7, <2>3, <3>1, <3>2
      <3>4. y # nxt
        <4>1. Chained(h, R)
          BY DEF RingOK
        <4> QED
          BY <1>5, <2>3, <3>1, <3>2, <4>1, NextOnce
      <3>5. y \in R2 /\ y \in Nat
        BY <1>2, <1>12, <3>2, <3>4
      <3>6. CASE x < y /\ \A z \in R : z <= x \/ y <= z
        <4>1. b <= x \/ y <= b
          <5>1. CASE cur <= x
            BY <1>1, <1>5, <1>10, <2>3, <3>1, <5>1
          <5>2. CASE y <= cur
            BY <1>1, <1>5, <3>5, <5>2
          <5> QED
            BY <3>6, <5>1, <5>2
        <4>2. \A z \in R2 : z <= x \/ y <= z
          BY <1>12, <1>14, <3>6, <4>1
        <4> QED
          BY <3>3, <3>5, <3>6, <4>2 DEF Follows
      <3>7. CASE y = arena /\ \A z \in R : z <= x
        <4>1. cur <= x
          BY <3>7
        <4>2. b <= x
          BY <1>1, <1>5, <1>10, <2>3, <3>1, <4>1
        <4>3. \A z \in R2 : z <= x
          BY <1>12, <1>14, <3>7, <4>2
        <4> QED
          BY <3>3, <3>5, <3>7, <4>3 DEF Follows
      <3> QED
        BY <3>2, <3>6, <3>7 DEF Follows
    <2> QED
      BY <2>1, <2>2, <2>3
  <1>16. Chained(g, R2)
    BY <1>7, <1>13, <1>15 DEF Chained
  <1>17. g.units[arena] = 1
    BY <1>1, <1>2, <1>7, <1>9, AddrFacts
  <1>18. ASSUME NEW x \in R2 PROVE x + g.units[x] \notin R2
    <2>1. CASE x = lo
      <3>1. x + g.units[x] = hi
        BY <1>7, <1>9, <2>1
      <3>2. hi # lo
        BY <1>1, <1>9
      <3>3. hi \in R => b + u # nxt /\ FALSE
        <4>1. SUFFICES ASSUME hi \in R PROVE FALSE
          OBVIOUS
        <4>2. CASE b + u = nxt
          BY <1>2, <1>5, <1>7, <4>1, <4>2
        <4>3. CASE b + u # nxt
          <5>1. hi = b + u /\ nxt <= hi /\ nxt # arena /\ b < nxt /\ nxt # hi
            BY <1>1, <1>5, <1>7, <1>10, <4>1, <4>3
          <5>2. b + u <= nxt
            BY <1>1, <1>2, <1>5, <5>1
          <5> QED
            BY <1>1, <1>5, <5>1, <5>2
        <4> QED
          BY <4>2, <4>3
      <3> QED
        BY <1>12, <3>1, <3>2, <3>3
    <2>2. CASE x # lo
      <3>1. x \in R /\ x \in Addrs /\ x # b /\ x \in Nat
        BY <1>2, <1>4, <1>12, <2>2
      <3>2. g.units[x] = h.units[x]
        BY <1>7, <2>2, <3>1
      <3>3. x + h.units[x] \notin R
        BY <1>2, <3>1
      <3>4. x + h.units[x] # lo
        <4>1. SUFFICES ASSUME x + h.units[x] = lo PROVE FALSE
          OBVIOUS
        <4>2. lo = b
          BY <1>14, <3>3, <4>1
        <4>3. CASE x = cur
          BY <1>7, <4>1, <4>2, <4>3, <2>2
        <4>4. CASE x # cur
          <5>1. x < b
            BY <1>2, <3>1, <4>1, <4>2
          <5>2. x < cur
            BY <1>1, <1>5, <1>10, <3>1, <4>4, <5>1
          <5>3. x + h.units[x] <= cur
            BY <1>3, <3>1, <5>2
          <5> QED
            BY <1>5, <1>1, <4>1, <4>2, <5>3
        <4> QED
          BY <4>3, <4>4
      <3> QED
        BY <1>12, <3>2, <3>3, <3>4
    <2> QED
      BY <2>1, <2>2
  <1>19. RingOK(g, R2)
    BY <1>7, <1>16, <1>17, <1>18 DEF RingOK
  <1> QED
    BY <1>1, <1>4, <1>9, <1>19 DEF R2
(* slob_free puts the piece s back: the ring keeps its order, what touches *)
(* is one block, and the other pieces of memory are as they were.          *)
LEMMA FreePieces ==
  ASSUME NEW h, NEW R, RingOK(h, R), NEW P, Tiles(FreeParts(h, R) \cup P)
  PROVE  /\ Disjoint(h, R)
         /\ \A p \in P : p.kind # "free" =>
              /\ Room(h, R, p.at, p.len)
              /\ \A q \in P : q.at = p.at => q = p
  <1> DEFINE W == FreeParts(h, R) \cup P
  <1>1. /\ arena = 0 /\ arena \in R /\ h.units[arena] = 1
        /\ \A x \in R : x \in Nat /\ h.units[x] \in Nat
    BY RingFacts DEF RingOK
  <1>2. PageUnits \in Nat /\ PageUnits >= 3 /\ Limit \in Nat
    BY AddrFacts
  <1>3. /\ \A p \in W : /\ p.at \in Nat /\ p.len \in Nat \ {0}
                        /\ PageUnits <= p.at /\ p.at + p.len <= Limit
        /\ \A p, q \in W : p # q => Beside(p, q)
    BY DEF Fills, Tiles
  <1>4. \A x \in R : x # arena => /\ FreePart(h, x) \in W /\ FreePart(h, x).at = x
                                  /\ FreePart(h, x).len = h.units[x]
                                  /\ FreePart(h, x).kind = "free"
    BY DEF FreeParts, FreePart, Part
  <1> HIDE DEF W
  <1>5. Disjoint(h, R)
    <2>1. ASSUME NEW c \in R PROVE h.units[c] \in Nat \ {0}
      BY <1>1, <1>3, <1>4
    <2>2. ASSUME NEW c \in R, NEW d \in R, c < d PROVE c + h.units[c] <= d
      <3>1. c \in Nat /\ d \in Nat /\ d # arena /\ h.units[c] \in Nat /\ h.units[d] \in Nat \ {0}
        BY <1>1, <2>1, <2>2
      <3>2. PageUnits <= d
        BY <1>3, <1>4, <3>1
      <3>3. CASE c = arena
        BY <1>1, <1>2, <3>1, <3>2, <3>3
      <3>4. CASE c # arena
        <4>1. Beside(FreePart(h, c), FreePart(h, d))
          BY <1>3, <1>4, <2>2, <3>1, <3>4
        <4>2. c + h.units[c] <= d \/ d + h.units[d] <= c
          BY <1>4, <3>1, <3>4, <4>1 DEF Beside
        <4> QED
          BY <2>2, <3>1, <4>2
      <3> QED
        BY <3>3, <3>4
    <2> QED
      BY <2>1, <2>2 DEF Disjoint
  <1>6. ASSUME NEW p \in P, p.kind # "free"
        PROVE  Room(h, R, p.at, p.len) /\ \A q \in P : q.at = p.at => q = p
    <2>1. p \in W
      BY DEF W
    <2>2. /\ p.at \in Nat /\ p.len \in Nat \ {0} /\ PageUnits <= p.at /\ p.at + p.len <= Limit
      BY <1>3, <2>1
    <2>3. ASSUME NEW c \in R PROVE c + h.units[c] <= p.at \/ p.at + p.len <= c
      <3>1. CASE c = arena
        BY <1>1, <1>2, <2>2, <3>1
      <3>2. CASE c # arena
        <4>1. FreePart(h, c) # p
          BY <1>4, <1>6, <3>2
        <4>2. Beside(FreePart(h, c), p)
          BY <1>3, <1>4, <2>1, <3>2, <4>1
        <4> QED
          BY <1>4, <3>2, <4>2 DEF Beside
      <3> QED
        BY <3>1, <3>2
    <2>4. ASSUME NEW q \in P, q.at = p.at PROVE q = p
      <3>1. q \in W /\ q.len \in Nat \ {0}
        BY <1>3 DEF W
      <3>2. ~Beside(q, p)
        BY <2>2, <2>4, <3>1 DEF Beside
      <3> QED
        BY <1>3, <2>1, <3>1, <3>2
    <2> QED
      BY <2>2, <2>3, <2>4 DEF Room
  <1> QED
    BY <1>5, <1>6

Released(h, P, s, g) ==
  \E S : /\ RingOK(g, S) /\ Tiles(FreeParts(g, S) \cup P)
         /\ \A p \in P : g.units[p.at] = h.units[p.at]
         /\ \E c \in S \ {arena} : g.units[c] >= s.len

LEMMA SlobFree ==
  ASSUME NEW h, NEW R, RingOK(h, R), NEW P, \A p \in P : p.kind # "free",
         NEW s, s.kind # "free", s \notin P, Tiles(FreeParts(h, R) \cup (P \cup {s})),
         NEW g, g = slob_free(h, s.at, s.len)
  PROVE  Released(h, P, s, g)
  <1>1. PICK b, u : b = s.at /\ u = s.len
    OBVIOUS
  <1>2. Disjoint(h, R) /\ Room(h, R, b, u) /\ \A p \in P : p.at # b
    BY <1>1, FreePieces
  <1>3. /\ arena = 0 /\ arena \in R /\ R \subseteq Addrs /\ h \in HeapTypes
        /\ \A x \in R : /\ x \in Nat /\ h.next[x] \in R /\ Follows(R, x, h.next[x])
                        /\ h.units[x] \in Nat /\ h.units[x] >= 1
        /\ h.units[arena] = 1
    BY <1>2, RingFacts DEF RingOK, Disjoint
  <1>4. /\ b \in Nat /\ u \in Nat \ {0} /\ b >= 3 /\ b \in Addrs /\ b \notin R
        /\ \A c \in R : c + h.units[c] <= b \/ b + u <= c
    <2>1. /\ b \in Nat /\ u \in Nat \ {0} /\ b + u <= Limit /\ PageUnits <= b
          /\ \A c \in R : c + h.units[c] <= b \/ b + u <= c
      BY <1>2 DEF Room
    <2>2. b \in 0..(Limit - 1)
      BY <2>1, AddrFacts
    <2>3. b \in Addrs
      BY <2>2, SlobSizes
    <2>4. b \notin R
      <3>1. SUFFICES ASSUME b \in R PROVE FALSE
        OBVIOUS
      <3> QED
        BY <1>3, <2>1, <3>1
    <2> QED
      BY <2>1, <2>3, <2>4, AddrFacts
  <1>5. PICK cur \in R : /\ cur = Cursor(h, b) /\ cur < b
                         /\ b < h.next[cur] \/ h.next[cur] = arena
    BY <1>4, CursorIs DEF RingOK
  <1>6. PICK nxt, lo, hi, nn : nxt = h.next[cur] /\ Freed(h, g, b, u, cur, nxt, lo, hi, nn)
    <2>1. cur # b /\ h.next[cur] # b
      BY <1>3, <1>4, <1>5
    <2> QED
      BY <1>1, <1>4, <1>5, <2>1, FreedIs
  <1>7. PICK S : S = NewRing(R, b, u, nxt, lo)
    OBVIOUS
  <1>8. RingOK(g, S) /\ lo # arena /\ lo \in Nat /\ hi \in Nat /\ lo <= b /\ b + u <= hi
    BY <1>2, <1>5, <1>6, <1>7, RingWith
  <1>9. /\ lo = IF cur + h.units[cur] = b THEN cur ELSE b
        /\ hi = IF b + u = nxt THEN nxt + h.units[nxt] ELSE b + u
        /\ g \in HeapTypes /\ g.units[lo] = hi - lo
        /\ \A x \in Addrs : x # b /\ x # lo => g.units[x] = h.units[x]
    BY <1>6 DEF Freed
  <1>10. \A x : x \in S <=> (x \in R \/ x = lo) /\ (b + u = nxt => x # nxt)
    BY <1>7 DEF NewRing
  <1>11. lo \in S /\ b + u # arena /\ nxt \in R
    <2>1. lo # nxt \/ b + u # nxt
      BY <1>4, <1>8
    <2> QED
      BY <1>3, <1>4, <1>6, <1>10, <2>1
  <1> DEFINE F == FreeParts(h, R)
             W == F \cup (P \cup {s})
             A == IF b + u = nxt THEN {FreePart(h, nxt)} ELSE {}
             B == IF lo = cur THEN {FreePart(h, cur)} ELSE {}
             Q == {s} \cup A \cup B
             N == {FreePart(g, lo)}
  <1>12. /\ b + u = nxt => nxt # arena /\ FreePart(h, nxt) \in F
         /\ lo = cur => cur # arena /\ FreePart(h, cur) \in F
    BY <1>8, <1>11 DEF FreeParts
  <1>13. Q \subseteq W
    BY <1>12
  <1>14. Fills(Q, lo, hi)
    <2>1. Fills({s}, b, b + u)
      BY <1>1, <1>4 DEF Fills
    <2>2. Fills({s} \cup A, b, hi)
      <3>1. CASE b + u = nxt
        <4>1. FreePart(h, nxt).at = b + u /\ FreePart(h, nxt).len = h.units[nxt]
          BY <3>1 DEF FreePart, Part
        <4>2. h.units[nxt] \in Nat \ {0} /\ b + u \in Nat /\ b < b + u
          BY <1>3, <1>4, <1>11
        <4>3. Fills({s} \cup {FreePart(h, nxt)}, b, b + u + h.units[nxt])
          BY <1>4, <2>1, <4>1, <4>2, PartAfter
        <4> QED
          BY <1>9, <3>1, <4>3
      <3>2. CASE b + u # nxt
        <4>1. A = {} /\ hi = b + u
          BY <1>9, <3>2
        <4> HIDE DEF A
        <4> QED
          BY <2>1, <4>1
      <3> QED
        BY <3>1, <3>2
    <2> HIDE DEF A
    <2>3. CASE lo = cur
      <3>1. FreePart(h, cur).at = cur /\ FreePart(h, cur).len = h.units[cur]
            /\ cur + h.units[cur] = b
        BY <1>3, <1>4, <1>5, <1>9, <2>3 DEF FreePart, Part
      <3>2. h.units[cur] \in Nat \ {0} /\ cur \in Nat /\ b < hi
        BY <1>3, <1>4, <1>8
      <3>3. PICK p, P1 : p = FreePart(h, cur) /\ P1 = {s} \cup A
        OBVIOUS
      <3>4. Fills(P1, b, hi) /\ p.at = cur /\ p.len = h.units[cur]
        BY <2>2, <3>1, <3>3
      <3>5. b \in Nat /\ hi \in Nat /\ p.at + p.len = b /\ p.at \in Nat /\ p.len \in Nat \ {0}
        BY ONLY <1>8, <3>1, <3>2, <3>4, <1>4
      <3>6. Fills(P1 \cup {p}, p.at, hi)
        BY ONLY <3>2, <3>4, <3>5, PartBefore
      <3> QED
        BY <2>3, <3>3, <3>4, <3>6
    <2>4. CASE lo # cur
      <3>1. Q = {s} \cup A /\ lo = b
        BY <1>9, <2>4
      <3> HIDE DEF Q
      <3> QED
        BY <2>2, <3>1
    <2> QED
      BY <2>3, <2>4
  <1>15. Fills(N, lo, hi) /\ lo < hi
    <2>1. lo < hi /\ hi - lo \in Nat \ {0} /\ lo + (hi - lo) = hi
      BY <1>4, <1>8
    <2>2. FreePart(g, lo) = Part("free", lo, lo, hi - lo)
      BY <1>9 DEF FreePart
    <2> QED
      BY <1>8, <2>1, <2>2, OnePart
  <1>16. Fills((W \ Q) \cup N, PageUnits, Limit)
    <2>1. Fills(W, PageUnits, Limit) /\ PageUnits \in Int /\ Limit \in Int
      BY AddrFacts DEF Tiles
    <2> HIDE DEF W, Q, N
    <2> QED
      BY <1>8, <1>13, <1>14, <1>15, <2>1, Exchange
  <1>17. (W \ Q) \cup N = FreeParts(g, S) \cup P
    <2>1. \A p \in F : p.kind = "free"
      BY DEF FreeParts, FreePart, Part
    <2>2. \A p \in A \cup B \cup N : p.kind = "free"
      BY DEF FreePart, Part
    <2>3. W \ Q = (F \ (A \cup B)) \cup P
      <3> HIDE DEF F, A, B, N
      <3> QED
        BY <2>1, <2>2
    <2>4. (F \ (A \cup B)) \cup N = FreeParts(g, S)
      <3>1. \A x \in R : x # arena /\ x # lo => FreePart(g, x) = FreePart(h, x)
        <4>1. SUFFICES ASSUME NEW x \in R, x # lo PROVE g.units[x] = h.units[x]
          BY DEF FreePart
        <4> QED
          BY <1>3, <1>4, <1>9, <4>1
      <3>2. \A x, y : FreePart(h, x) = FreePart(h, y) => x = y
        BY DEF FreePart, Part
      <3>3. \A x \in S \ {arena} : FreePart(g, x) \in (F \ (A \cup B)) \cup N
        <4>1. SUFFICES ASSUME NEW x \in S, x # arena, x # lo
                       PROVE  FreePart(g, x) \in F \ (A \cup B)
          OBVIOUS
        <4>2. x \in R /\ (b + u = nxt => x # nxt)
          BY <1>10, <4>1
        <4>3. FreePart(g, x) = FreePart(h, x) /\ FreePart(h, x) \in F
          BY <3>1, <4>1, <4>2 DEF FreeParts
        <4> QED
          BY <3>2, <4>1, <4>2, <4>3
      <3>4. \A p \in (F \ (A \cup B)) \cup N : p \in FreeParts(g, S)
        <4>1. FreePart(g, lo) \in FreeParts(g, S)
          BY <1>8, <1>11 DEF FreeParts
        <4>2. SUFFICES ASSUME NEW p \in F \ (A \cup B) PROVE p \in FreeParts(g, S)
          BY <4>1
        <4>3. PICK x \in R : x # arena /\ p = FreePart(h, x)
          BY DEF FreeParts
        <4>4. (b + u = nxt => x # nxt) /\ (lo = cur => x # cur)
          BY <4>2, <4>3
        <4>5. x # lo
          BY <1>4, <1>9, <4>4
        <4>6. p = FreePart(g, x) /\ x \in S
          BY <1>10, <3>1, <4>3, <4>4, <4>5
        <4> QED
          BY <4>3, <4>6 DEF FreeParts
      <3>5. \A p \in FreeParts(g, S) : \E x \in S \ {arena} : p = FreePart(g, x)
        BY DEF FreeParts
      <3> HIDE DEF F, A, B, N
      <3> QED
        BY <3>3, <3>4, <3>5
    <2> HIDE DEF F, A, B, N
    <2> QED
      BY <2>3, <2>4
  <1>18. ASSUME NEW p \in P PROVE g.units[p.at] = h.units[p.at]
    <2>1. p.kind # "free" /\ Room(h, R, p.at, p.len)
      BY FreePieces
    <2>2. p.at \in Addrs
      <3>1. p.at \in Nat /\ p.len \in Nat \ {0} /\ p.at + p.len <= Limit
        BY <2>1 DEF Room
      <3>2. p.at \in 0..(Limit - 1)
        BY <3>1, AddrFacts
      <3> QED
        BY <3>2, SlobSizes
    <2>3. p.at # cur
      <3>1. SUFFICES ASSUME p.at = cur PROVE FALSE
        OBVIOUS
      <3>2. cur + h.units[cur] <= p.at \/ p.at + p.len <= cur
        BY <2>1 DEF Room
      <3>3. p.at \in Nat /\ p.len \in Nat \ {0}
        BY <2>1 DEF Room
      <3> QED
        BY <1>3, <3>1, <3>2, <3>3
    <2> QED
      BY <1>2, <1>9, <2>2, <2>3
  <1>19. g.units[lo] >= s.len
    BY <1>1, <1>4, <1>8, <1>9
  <1>20. Tiles(FreeParts(g, S) \cup P)
    BY <1>16, <1>17 DEF Tiles
  <1> QED
    BY <1>8, <1>11, <1>18, <1>19, <1>20 DEF Released
-----------------------------------------------------------------------------
(* What slob_alloc cuts off.                                               *)
LEMMA FittingIs ==
  ASSUME NEW h, NEW R, Chained(h, R), NEW units
  PROVE  /\ \A c \in R : h.units[c] >= units => Fitting(h, units) # {}
         /\ Fitting(h, units) # {} =>
              \E prev, cur \in R :
                /\ prev = Walk(h)[Min(Fitting(h, units)) - 1]
                /\ cur = Walk(h)[Min(Fitting(h, units))]
                /\ h.next[prev] = cur /\ h.units[cur] >= units
  <1>1. PICK last : last = Min({k \in DOMAIN Walk(h) \ {0} : Walk(h)[k] = h.slobfree})
    OBVIOUS
  <1>2. last \in 1..Limit /\ R = {Walk(h)[k] : k \in 1..last} /\ Limit \in Nat
    BY <1>1, WalkRound, AddrFacts
  <1>3. PICK F : F = Fitting(h, units)
    OBVIOUS
  <1>4. F = {k \in 1..last : h.units[Walk(h)[k]] >= units}
    BY <1>1, <1>3 DEF Fitting
  <1>5. \A c \in R : h.units[c] >= units => F # {}
    BY <1>2, <1>4
  <1>6. ASSUME F # {}
        PROVE  \E prev, cur \in R :
                 /\ prev = Walk(h)[Min(F) - 1] /\ cur = Walk(h)[Min(F)]
                 /\ h.next[prev] = cur /\ h.units[cur] >= units
    <2>1. F \in SUBSET Nat
      BY <1>2, <1>4
    <2>2. PICK k \in F : k = Min(F)
      BY <1>6, <2>1, MinIn
    <2>3. k \in 1..last /\ h.units[Walk(h)[k]] >= units
      BY <1>4
    <2>4. k \in 1..Limit /\ k - 1 \in 0..Limit /\ k \in 0..Limit
      BY <1>2, <2>3
    <2>5. Walk(h)[k] \in R /\ Walk(h)[k - 1] \in R
      BY <2>4, WalkStays
    <2>6. Walk(h)[k] = h.next[Walk(h)[k - 1]]
      BY <2>4, SlobWalk
    <2> QED
      BY <2>2, <2>3, <2>5, <2>6
  <1> QED
    BY <1>3, <1>5, <1>6

Cut(h, g, units, prev, cur, rest) ==
  /\ rest = cur + units /\ g \in HeapTypes /\ g.slobfree = prev
  /\ g.next[prev] = IF h.units[cur] = units THEN h.next[cur] ELSE rest
  /\ h.units[cur] # units => g.next[rest] = h.next[cur] /\ g.units[rest] = h.units[cur] - units
  /\ g.units[cur] = units
  /\ \A x \in Addrs : /\ x # cur /\ x # rest => g.units[x] = h.units[x]
                      /\ x # prev /\ x # rest => g.next[x] = h.next[x]
                      /\ h.units[cur] = units /\ x # prev => g.next[x] = h.next[x]
                      /\ h.units[cur] = units => g.units[x] = h.units[x]

LEMMA CutIs ==
  ASSUME NEW h, h \in HeapTypes, NEW units \in Nat, NEW left, NEW r, r = Carve(h, units, left),
         NEW prev \in Addrs, NEW cur \in Addrs, prev # cur,
         prev = Walk(h)[Min(Fitting(h, units)) - 1], cur = Walk(h)[Min(Fitting(h, units))],
         h.units[cur] >= units, NEW rest, rest = cur + units,
         h.units[cur] # units => rest \in Addrs /\ rest # prev /\ rest # cur
  PROVE  r.block = cur /\ r.unused = left /\ Cut(h, r.heap, units, prev, cur, rest)
  <1>1. PICK g : g = IF h.units[cur] = units
                     THEN [h EXCEPT !.next[prev] = h.next[cur], !.slobfree = prev]
                     ELSE [h EXCEPT !.next[prev] = rest, !.units[rest] = h.units[cur] - units,
                                    !.next[rest] = h.next[cur], !.units[cur] = units,
                                    !.slobfree = prev]
    OBVIOUS
  <1>2. r = [block |-> cur, unused |-> left, heap |-> g]
    BY <1>1 DEF Carve
  <1>3. h.units[cur] \in Nat /\ h.next[cur] \in Addrs
    BY DEF HeapTypes
  <1>4. Cut(h, g, units, prev, cur, rest)
    <2>1. CASE h.units[cur] = units
      <3>1. g = [h EXCEPT !.next[prev] = h.next[cur], !.slobfree = prev]
        BY <1>1, <2>1
      <3>2. /\ g.next = [h.next EXCEPT ![prev] = h.next[cur]] /\ g.units = h.units
            /\ g.slobfree = prev /\ g \in HeapTypes
        BY <1>3, <3>1 DEF HeapTypes
      <3> QED
        BY <1>3, <2>1, <3>2 DEF Cut, HeapTypes
    <2>2. CASE h.units[cur] # units
      <3>1. PICK v \in Nat : v = h.units[cur] - units
        BY <1>3
      <3>2. g = [h EXCEPT !.next[prev] = rest, !.units[rest] = v, !.next[rest] = h.next[cur],
                          !.units[cur] = units, !.slobfree = prev]
        BY <1>1, <2>2, <3>1
      <3>3. /\ g.next = [[h.next EXCEPT ![prev] = rest] EXCEPT ![rest] = h.next[cur]]
            /\ g.units = [[h.units EXCEPT ![rest] = v] EXCEPT ![cur] = units]
            /\ g.slobfree = prev
        BY <3>2 DEF HeapTypes
      <3>4. g \in HeapTypes
        BY <1>3, <2>2, <3>2 DEF HeapTypes
      <3> QED
        BY <1>3, <2>2, <3>1, <3>3, <3>4 DEF Cut, HeapTypes
    <2> QED
      BY <2>1, <2>2
  <1> QED
    BY <1>2, <1>4
CutRing(h, R, units, cur, rest) ==
  IF h.units[cur] = units THEN R \ {cur} ELSE (R \ {cur}) \cup {rest}

LEMMA RingWithout ==
  ASSUME NEW h, NEW R, RingOK(h, R), Disjoint(h, R), NEW units \in Nat, units >= 2,
         NEW prev \in R, NEW cur \in R, h.next[prev] = cur, h.units[cur] >= units, cur # arena,
         NEW rest, NEW g, Cut(h, g, units, prev, cur, rest),
         h.units[cur] # units => rest \in Addrs
  PROVE  RingOK(g, CutRing(h, R, units, cur, rest))
  <1>1. PICK S : S = CutRing(h, R, units, cur, rest)
    OBVIOUS
  <1>2. /\ arena = 0 /\ arena \in R /\ R \subseteq Addrs /\ h \in HeapTypes
        /\ \A x \in R : /\ x \in Nat /\ h.next[x] \in R /\ Follows(R, x, h.next[x])
                        /\ h.units[x] \in Nat /\ h.units[x] >= 1
        /\ h.units[arena] = 1 /\ \A x \in R : x + h.units[x] \notin R
    BY RingFacts DEF RingOK, Disjoint
  <1>3. \A x \in R, y \in R : x < y => x + h.units[x] <= y
    BY DEF Disjoint
  <1>4. /\ rest = cur + units /\ g \in HeapTypes /\ g.slobfree = prev
        /\ g.next[prev] = IF h.units[cur] = units THEN h.next[cur] ELSE rest
        /\ (h.units[cur] # units =>
              g.next[rest] = h.next[cur] /\ g.units[rest] = h.units[cur] - units)
        /\ \A x \in Addrs : /\ x # cur /\ x # rest => g.units[x] = h.units[x]
                            /\ x # prev /\ x # rest => g.next[x] = h.next[x]
                            /\ h.units[cur] = units /\ x # prev => g.next[x] = h.next[x]
                            /\ h.units[cur] = units => g.units[x] = h.units[x]
    BY DEF Cut
  <1>5. PICK nn \in R : nn = h.next[cur] /\ Follows(R, cur, nn) /\ nn \in Nat
    BY <1>2
  <1>6. prev < cur /\ prev \in Nat /\ cur \in Nat
        /\ \A x \in R : x <= prev \/ cur <= x
    BY <1>2 DEF Follows
  <1>7. cur # nn
    BY <1>2, <1>5 DEF Follows
  <1>8. h.units[cur] # units => /\ rest \in Nat /\ cur < rest /\ rest < cur + h.units[cur]
                                /\ \A x \in R : x <= cur \/ rest < x
                                /\ rest \notin R
    <2>1. SUFFICES ASSUME h.units[cur] # units
                   PROVE  /\ rest \in Nat /\ cur < rest /\ rest < cur + h.units[cur]
                          /\ \A x \in R : x <= cur \/ rest < x
      BY <1>2
    <2>2. rest \in Nat /\ cur < rest /\ rest < cur + h.units[cur] /\ h.units[cur] \in Nat
      BY <1>2, <1>4, <1>6, <2>1
    <2>3. ASSUME NEW x \in R, ~(x <= cur) PROVE rest < x
      <3>1. x \in Nat /\ cur < x
        BY <1>2, <1>6, <2>3
      <3>2. cur + h.units[cur] <= x
        BY <1>3, <3>1
      <3> QED
        BY <1>6, <2>2, <3>1, <3>2
    <2> QED
      BY <2>2, <2>3
  <1>9. \A x : x \in S <=> (x \in R /\ x # cur) \/ (h.units[cur] # units /\ x = rest)
    BY <1>1 DEF CutRing
  <1>10. prev \in S /\ arena \in S /\ S \subseteq Addrs /\ nn \in S
    BY <1>2, <1>5, <1>6, <1>7, <1>9
  <1>12. ASSUME NEW x \in S PROVE g.next[x] \in S /\ Follows(S, x, g.next[x])
    <2>1. CASE x = prev /\ h.units[cur] = units
      <3>1. g.next[x] = nn
        BY <1>4, <1>5, <2>1
      <3>2. CASE cur < nn /\ \A z \in R : z <= cur \/ nn <= z
        <4>1. \A z \in S : z <= prev \/ nn <= z
          <5>1. SUFFICES ASSUME NEW z \in R, z # cur PROVE z <= prev \/ nn <= z
            BY <1>9, <2>1
          <5> QED
            BY <1>2, <1>5, <1>6, <3>2, <5>1
        <4> QED
          BY <1>5, <1>6, <1>10, <2>1, <3>1, <3>2, <4>1 DEF Follows
      <3>3. CASE nn = arena /\ \A z \in R : z <= cur
        <4>1. \A z \in S : z <= prev
          <5>1. SUFFICES ASSUME NEW z \in R, z # cur PROVE z <= prev
            BY <1>9, <2>1
          <5> QED
            BY <1>2, <1>6, <3>3, <5>1
        <4> QED
          BY <1>10, <2>1, <3>1, <3>3, <4>1 DEF Follows
      <3> QED
        BY <1>5, <3>2, <3>3 DEF Follows
    <2>2. CASE x = prev /\ h.units[cur] # units
      <3>1. g.next[x] = rest /\ rest \in S
        BY <1>4, <1>9, <2>2
      <3>2. \A z \in S : z <= prev \/ rest <= z
        <4>1. SUFFICES ASSUME NEW z \in R, z # cur PROVE z <= prev \/ rest <= z
          BY <1>8, <1>9, <2>2
        <4>2. z \in Nat /\ (z <= prev \/ cur <= z) /\ (z <= cur \/ rest < z)
          BY <1>2, <1>6, <1>8, <2>2
        <4> QED
          BY <1>6, <1>8, <2>2, <4>1, <4>2
      <3> QED
        BY <1>6, <1>8, <2>2, <3>1, <3>2 DEF Follows
    <2>3. CASE x = rest /\ h.units[cur] # units
      <3>1. g.next[x] = nn
        BY <1>4, <1>5, <2>3
      <3>2. CASE cur < nn /\ \A z \in R : z <= cur \/ nn <= z
        <4>1. rest < nn
          BY <1>5, <1>6, <1>8, <2>3, <3>2
        <4>2. \A z \in S : z <= rest \/ nn <= z
          <5>1. SUFFICES ASSUME NEW z \in R PROVE z <= rest \/ nn <= z
            BY <1>8, <1>9, <2>3
          <5> QED
            BY <1>2, <1>6, <1>8, <2>3, <3>2
        <4> QED
          BY <1>10, <2>3, <3>1, <4>1, <4>2 DEF Follows
      <3>3. CASE nn = arena /\ \A z \in R : z <= cur
        <4>1. \A z \in S : z <= rest
          <5>1. SUFFICES ASSUME NEW z \in R PROVE z <= rest
            BY <1>8, <1>9, <2>3
          <5> QED
            BY <1>2, <1>6, <1>8, <2>3, <3>3
        <4> QED
          BY <1>10, <2>3, <3>1, <3>3, <4>1 DEF Follows
      <3> QED
        BY <1>5, <3>2, <3>3 DEF Follows
    <2>4. CASE x # prev /\ ~(x = rest /\ h.units[cur] # units)
      <3>1. x \in R /\ x # cur /\ x \in Addrs /\ x \in Nat
        BY <1>2, <1>9, <2>4
      <3>2. PICK y \in R : y = h.next[x] /\ Follows(R, x, y)
        BY <1>2, <3>1
      <3>3. g.next[x] = y
        BY <1>4, <2>4, <3>1, <3>2
      <3>4. y # cur
        <4>1. Chained(h, R)
          BY DEF RingOK
        <4> QED
          BY <2>4, <3>1, <3>2, <4>1, NextOnce
      <3>5. y \in S /\ y \in Nat
        BY <1>2, <1>9, <3>2, <3>4
      <3>6. CASE x < y /\ \A z \in R : z <= x \/ y <= z
        <4>1. h.units[cur] # units => rest <= x \/ y <= rest
          <5>1. SUFFICES ASSUME h.units[cur] # units PROVE rest <= x \/ y <= rest
            OBVIOUS
          <5>2. cur <= x \/ y <= cur
            BY <3>6
          <5>3. CASE cur <= x
            BY <1>6, <1>8, <3>1, <5>1, <5>3
          <5>4. CASE y <= cur
            BY <1>6, <1>8, <3>5, <5>1, <5>4
          <5> QED
            BY <5>2, <5>3, <5>4
        <4>2. \A z \in S : z <= x \/ y <= z
          BY <1>9, <3>6, <4>1
        <4> QED
          BY <3>3, <3>5, <3>6, <4>2 DEF Follows
      <3>7. CASE y = arena /\ \A z \in R : z <= x
        <4>1. h.units[cur] # units => rest <= x
          BY <1>6, <1>8, <3>1, <3>7
        <4>2. \A z \in S : z <= x
          BY <1>9, <3>7, <4>1
        <4> QED
          BY <3>3, <3>5, <3>7, <4>2 DEF Follows
      <3> QED
        BY <3>2, <3>6, <3>7 DEF Follows
    <2> QED
      BY <2>1, <2>2, <2>3, <2>4
  <1>13. Chained(g, S)
    BY <1>4, <1>10, <1>12 DEF Chained
  <1>14. g.units[arena] = 1
    BY <1>2, <1>4, <1>8, AddrFacts
  <1>15. ASSUME NEW x \in S PROVE x + g.units[x] \notin S
    <2>1. CASE x = rest /\ h.units[cur] # units
      <3>1. x + g.units[x] = cur + h.units[cur]
        BY <1>2, <1>4, <1>6, <1>8, <2>1
      <3>2. cur + h.units[cur] \notin R /\ cur + h.units[cur] # rest
        BY <1>2, <1>6, <1>8, <2>1
      <3> QED
        BY <1>9, <3>1, <3>2
    <2>2. CASE ~(x = rest /\ h.units[cur] # units)
      <3>1. x \in R /\ x # cur /\ x \in Addrs /\ x \in Nat
        BY <1>2, <1>9, <2>2
      <3>2. g.units[x] = h.units[x]
        BY <1>4, <2>2, <3>1
      <3>3. h.units[cur] # units => x + h.units[x] # rest
        <4>1. SUFFICES ASSUME h.units[cur] # units, x + h.units[x] = rest PROVE FALSE
          OBVIOUS
        <4>2. h.units[x] \in Nat /\ h.units[x] >= 1
          BY <1>2, <3>1
        <4>3. CASE x < cur
          <5>1. x + h.units[x] <= cur
            BY <1>3, <3>1, <4>3
          <5> QED
            BY <1>6, <1>8, <4>1, <5>1
        <4>4. CASE cur < x
          <5>1. rest < x
            BY <1>8, <3>1, <4>1, <4>4, <1>6
          <5> QED
            BY <1>8, <3>1, <4>1, <4>2, <5>1
        <4> QED
          BY <1>6, <3>1, <4>3, <4>4
      <3> QED
        BY <1>2, <1>9, <3>1, <3>2, <3>3
    <2> QED
      BY <2>1, <2>2
  <1>16. RingOK(g, S)
    BY <1>4, <1>13, <1>14, <1>15 DEF RingOK
  <1> QED
    BY <1>1, <1>16

(* slob_alloc cuts a block of as many units off the ring as it is asked    *)
(* for, and the other pieces of memory are as they were.                   *)
Held(b, units) == Part("held", 0, b, units)

Carved(h, P, units, left, r) ==
  /\ r.unused = left /\ r.block \in Addrs /\ r.block # arena
  /\ r.heap.units[r.block] = units
  /\ \E S : /\ RingOK(r.heap, S)
            /\ Tiles(FreeParts(r.heap, S) \cup (P \cup {Held(r.block, units)}))
  /\ \A p \in P : r.heap.units[p.at] = h.units[p.at]

LEMMA SlobCarve ==
  ASSUME NEW h, NEW R, RingOK(h, R), NEW P, \A p \in P : p.kind # "free",
         Tiles(FreeParts(h, R) \cup P), NEW units \in Nat, units >= 2, NEW left,
         Fitting(h, units) # {}, NEW r, r = Carve(h, units, left)
  PROVE  Carved(h, P, units, left, r)
  <1>1. Disjoint(h, R)
    BY FreePieces
  <1>2. PICK prev \in R, cur \in R :
           /\ prev = Walk(h)[Min(Fitting(h, units)) - 1]
           /\ cur = Walk(h)[Min(Fitting(h, units))]
           /\ h.next[prev] = cur /\ h.units[cur] >= units
    BY FittingIs DEF RingOK
  <1>3. /\ arena = 0 /\ arena \in R /\ R \subseteq Addrs /\ h \in HeapTypes
        /\ \A x \in R : /\ x \in Nat /\ h.next[x] \in R /\ Follows(R, x, h.next[x])
                        /\ h.units[x] \in Nat /\ h.units[x] >= 1
        /\ h.units[arena] = 1
    BY <1>1, RingFacts DEF RingOK, Disjoint
  <1>4. cur # arena /\ cur \in Nat
    BY <1>2, <1>3
  <1>5. prev # cur
    BY <1>2, <1>3, <1>4 DEF Follows
  <1> DEFINE c == FreePart(h, cur)
             F == FreeParts(h, R)
             W == F \cup P
  <1>6. c \in F /\ c.at = cur /\ c.len = h.units[cur] /\ c.kind = "free"
    BY <1>4 DEF FreeParts, FreePart, Part
  <1>7. cur + h.units[cur] <= Limit /\ h.units[cur] \in Nat
    <2>1. c \in W
      BY <1>6
    <2> HIDE DEF c, W
    <2>2. c.at + c.len <= Limit
      BY <2>1 DEF Tiles, Fills, W
    <2> QED
      BY <1>3, <1>6, <2>2
  <1>8. PICK rest : rest = cur + units
    OBVIOUS
  <1>9. h.units[cur] # units =>
          /\ rest \in Addrs /\ rest # cur /\ rest # prev /\ rest \notin R /\ rest # arena
          /\ rest \in Nat
    <2>1. SUFFICES ASSUME h.units[cur] # units
                   PROVE  rest \in Addrs /\ rest # cur /\ rest \notin R /\ rest # arena
                          /\ rest \in Nat
      OBVIOUS
    <2>2. rest \in Nat /\ cur < rest /\ rest < cur + h.units[cur]
      BY <1>2, <1>4, <1>7, <1>8, <2>1
    <2>3. rest \in 0..(Limit - 1)
      BY <1>4, <1>7, <2>2, AddrFacts
    <2>4. rest \in Addrs
      BY <2>3, SlobSizes
    <2>5. rest \notin R
      <3>1. SUFFICES ASSUME rest \in R PROVE FALSE
        OBVIOUS
      <3>2. cur + h.units[cur] <= rest
        BY <1>1, <2>2, <3>1 DEF Disjoint
      <3> QED
        BY <1>4, <1>7, <2>2, <3>2
    <2> QED
      BY <1>3, <1>4, <2>2, <2>4, <2>5
  <1>10. PICK g : g = r.heap
    OBVIOUS
  <1>11. r.block = cur /\ r.unused = left /\ Cut(h, g, units, prev, cur, rest)
    <2>1. prev \in Addrs /\ cur \in Addrs
      BY <1>3
    <2> QED
      BY <1>2, <1>3, <1>5, <1>8, <1>9, <1>10, <2>1, CutIs
  <1>12. PICK S : S = CutRing(h, R, units, cur, rest)
    OBVIOUS
  <1>13. RingOK(g, S)
    BY <1>1, <1>2, <1>4, <1>9, <1>11, <1>12, RingWithout
  <1>14. /\ h.units[cur] # units => g.units[rest] = h.units[cur] - units
         /\ g.units[cur] = units
         /\ \A x \in Addrs : /\ x # cur /\ x # rest => g.units[x] = h.units[x]
                             /\ h.units[cur] = units => g.units[x] = h.units[x]
    BY <1>11 DEF Cut
  <1> DEFINE e == Held(cur, units)
             A == IF h.units[cur] = units THEN {} ELSE {FreePart(g, rest)}
             N == {e} \cup A
             Q == {c}
  <1>15. e.at = cur /\ e.len = units /\ e.kind = "held"
    BY DEF Held, Part
  <1>16. Fills(Q, cur, cur + h.units[cur])
    <2>1. c = Part("free", cur, cur, h.units[cur]) /\ h.units[cur] \in Nat \ {0}
      BY <1>3 DEF FreePart
    <2> QED
      BY <1>4, <2>1, OnePart
  <1>17. Fills(N, cur, cur + h.units[cur])
    <2>0. units \in Nat \ {0}
      OBVIOUS
    <2>1. Fills({e}, cur, cur + units) /\ units \in Nat \ {0}
      BY <1>4, <2>0, OnePart DEF Held
    <2>2. CASE h.units[cur] = units
      <3>1. N = {e}
        BY <2>2
      <3> HIDE DEF N, e
      <3> QED
        BY <2>1, <2>2, <3>1
    <2>3. CASE h.units[cur] # units
      <3>1. FreePart(g, rest).at = cur + units /\ FreePart(g, rest).len = h.units[cur] - units
        BY <1>8, <1>14, <2>3 DEF FreePart, Part
      <3>2. h.units[cur] - units \in Nat \ {0} /\ cur + units \in Nat /\ cur < cur + units
        BY <1>2, <1>4, <1>7, <2>3
      <3> HIDE DEF e
      <3>3. Fills({e} \cup {FreePart(g, rest)}, cur, cur + units + (h.units[cur] - units))
        BY <1>4, <2>1, <3>1, <3>2, PartAfter
      <3>4. cur + units + (h.units[cur] - units) = cur + h.units[cur]
        BY <1>4, <1>7
      <3>5. N = {e} \cup {FreePart(g, rest)}
        BY <2>3
      <3> HIDE DEF N
      <3> QED
        BY <3>3, <3>4, <3>5
    <2> QED
      BY <2>2, <2>3
  <1>18. Fills((W \ Q) \cup N, PageUnits, Limit)
    <2>1. Fills(W, PageUnits, Limit) /\ PageUnits \in Int /\ Limit \in Int /\ Q \in SUBSET W
      BY <1>6, AddrFacts DEF Tiles
    <2>2. cur + h.units[cur] \in Nat /\ cur < cur + h.units[cur]
      BY <1>2, <1>3, <1>4, <1>7
    <2> HIDE DEF W, Q, N
    <2> QED
      BY <1>4, <1>16, <1>17, <2>1, <2>2, Exchange
  <1>19. (W \ Q) \cup N = FreeParts(g, S) \cup (P \cup {e})
    <2>1. \A x : x \in S <=> (x \in R /\ x # cur) \/ (h.units[cur] # units /\ x = rest)
      BY <1>9, <1>12 DEF CutRing
    <2>2. \A x \in R : x # cur => FreePart(g, x) = FreePart(h, x)
      <3>1. SUFFICES ASSUME NEW x \in R, x # cur PROVE g.units[x] = h.units[x]
        BY DEF FreePart
      <3> QED
        BY <1>3, <1>9, <1>14, <3>1
    <2>3. \A x, y : FreePart(h, x) = FreePart(h, y) => x = y
      BY DEF FreePart, Part
    <2>4. W \ Q = (F \ Q) \cup P
      BY <1>6
    <2>5. (F \ Q) \cup A = FreeParts(g, S)
      <3>1. \A x \in S \ {arena} : FreePart(g, x) \in (F \ Q) \cup A
        <4>1. SUFFICES ASSUME NEW x \in R, x # cur, x # arena PROVE FreePart(g, x) \in F \ Q
          BY <2>1
        <4>2. FreePart(g, x) = FreePart(h, x) /\ FreePart(h, x) \in F
          BY <2>2, <4>1 DEF FreeParts
        <4> QED
          BY <2>3, <4>1, <4>2
      <3>2. \A p \in (F \ Q) \cup A : p \in FreeParts(g, S)
        <4>1. h.units[cur] # units => FreePart(g, rest) \in FreeParts(g, S)
          BY <1>9, <2>1 DEF FreeParts
        <4>2. SUFFICES ASSUME NEW p \in F \ Q PROVE p \in FreeParts(g, S)
          BY <4>1
        <4>3. PICK x \in R : x # arena /\ p = FreePart(h, x)
          BY DEF FreeParts
        <4>4. x # cur
          BY <4>2, <4>3
        <4>5. p = FreePart(g, x) /\ x \in S
          BY <2>1, <2>2, <4>3, <4>4
        <4> QED
          BY <4>3, <4>5 DEF FreeParts
      <3>3. \A p \in FreeParts(g, S) : \E x \in S \ {arena} : p = FreePart(g, x)
        BY DEF FreeParts
      <3> HIDE DEF F, A, Q
      <3> QED
        BY <3>1, <3>2, <3>3
    <2> HIDE DEF F, W, A, Q, e
    <2> QED
      BY <2>4, <2>5
  <1>20. ASSUME NEW p \in P PROVE g.units[p.at] = h.units[p.at]
    <2>1. p.kind # "free" /\ Room(h, R, p.at, p.len)
      BY FreePieces
    <2>2. /\ p.at \in Nat /\ p.len \in Nat \ {0} /\ p.at + p.len <= Limit
          /\ (cur + h.units[cur] <= p.at \/ p.at + p.len <= cur)
      BY <2>1 DEF Room
    <2>3. p.at \in 0..(Limit - 1)
      BY <2>2, AddrFacts
    <2>4. p.at \in Addrs
      BY <2>3, SlobSizes
    <2>5. p.at # cur
      BY <1>3, <1>4, <1>7, <2>2
    <2>6. h.units[cur] # units => p.at # rest
      <3>1. SUFFICES ASSUME h.units[cur] # units, p.at = rest PROVE FALSE
        OBVIOUS
      <3>2. rest < cur + h.units[cur] /\ cur < rest
        BY <1>2, <1>4, <1>7, <1>8, <3>1
      <3> QED
        BY <1>4, <1>7, <1>9, <2>2, <3>1, <3>2
    <2> QED
      BY <1>14, <2>4, <2>5, <2>6
  <1>21. Tiles(FreeParts(g, S) \cup (P \cup {e}))
    BY <1>18, <1>19 DEF Tiles
  <1> QED
    BY <1>3, <1>4, <1>10, <1>11, <1>13, <1>14, <1>20, <1>21 DEF Carved
-----------------------------------------------------------------------------
(* The memory of a state: the free blocks of the ring, and the rest.       *)
SmallPart(h, t) == Part("small", t, t.block - 1, h.units[t.block - 1])
EntryPart(e) == Part("entry", e, e.bb, SLOB_UNITS(BIGBLOCK))
BigPart(e) == Part("big", e, PageAt(e.pages), PageAt(Shift[e.order]))
PagePart(p) == Part("page", p, PageAt(p), PageUnits)
SmallOf(B, K) == {t \in K : \A e \in B : PageAt(e.pages) # t.block}
Blocks(h, B, K) ==
  {SmallPart(h, t) : t \in SmallOf(B, K)} \cup {EntryPart(e) : e \in B} \cup {BigPart(e) : e \in B}
PageParts(U) == {PagePart(p) : p \in U}
HeapParts(h, R, B, U, K) == FreeParts(h, R) \cup (Blocks(h, B, K) \cup PageParts(U))

(* The ring is in order, the memory is divided among its owners, each has  *)
(* as much as was asked for, and no two have been given the same address.  *)
HeapRecords(B, U, K) ==
  /\ U \subseteq SlobPages
  /\ B \subseteq [bb : Nat, order : Nat, pages : Nat] /\ IsFiniteSet(B)
  /\ K \subseteq [block : Nat, size : Nat \ {0}] /\ IsFiniteSet(K)
  /\ \A t, u \in K : t.block = u.block => t = u
RoomEnough(h, B, K) ==
  /\ \A t \in SmallOf(B, K) : t.size <= (h.units[t.block - 1] - 1) * SLOB_UNIT
  /\ \A t \in K, e \in B : PageAt(e.pages) = t.block => t.size <= Shift[e.order] * PAGE_SIZE
HeapState(h, B, U, K) ==
  /\ RingOK(h, RingOf(h)) /\ Tiles(HeapParts(h, RingOf(h), B, U, K))
  /\ HeapRecords(B, U, K) /\ RoomEnough(h, B, K)
HeapInv == HeapState(heap, bigblocks, unused, taken)
-----------------------------------------------------------------------------
(* How many units a size takes.                                            *)
LEMMA UnitsFor ==
  ASSUME NEW size \in Nat, size > SLOB_UNIT, size + SLOB_UNIT < PAGE_SIZE
  PROVE  /\ SLOB_UNITS(size) \in Nat /\ 2 <= SLOB_UNITS(size) /\ SLOB_UNITS(size) <= PageUnits
         /\ size <= SLOB_UNITS(size) * SLOB_UNIT
  <1>1. /\ SLOB_UNIT \in Nat /\ SLOB_UNIT >= 1 /\ PageUnits \in Nat
        /\ PAGE_SIZE = PageUnits * SLOB_UNIT
    BY SlobSizes
  <1>2. PICK x \in Nat : x = size + SLOB_UNIT - 1
    BY <1>1
  <1>3. PICK u \in Int : u = x \div SLOB_UNIT
    BY <1>1
  <1>4. u * SLOB_UNIT <= x /\ x < u * SLOB_UNIT + SLOB_UNIT
    BY <1>1, <1>3
  <1>5. u >= 2
    <2>1. SUFFICES ASSUME u <= 1 PROVE FALSE
      OBVIOUS
    <2>2. u * SLOB_UNIT <= SLOB_UNIT
      BY <1>1, <2>1
    <2> QED
      BY <1>1, <1>2, <1>4, <2>2
  <1>6. u <= PageUnits
    <2>1. SUFFICES ASSUME u > PageUnits PROVE FALSE
      BY <1>1
    <2>2. u * SLOB_UNIT >= PageUnits * SLOB_UNIT
      BY <1>1, <2>1
    <2> QED
      BY <1>1, <1>2, <1>4, <2>2
  <1>7. size <= u * SLOB_UNIT
    <2>1. u * SLOB_UNIT \in Int
      BY <1>1
    <2> QED
      BY <1>1, <1>2, <1>4, <2>1
  <1> QED
    BY <1>2, <1>3, <1>5, <1>6, <1>7 DEF SLOB_UNITS

LEMMA SmallUnits ==
  ASSUME NEW size \in Nat \ {0}, size + 2 * SLOB_UNIT < PAGE_SIZE,
         NEW u, u = SLOB_UNITS(size + SLOB_UNIT)
  PROVE  u \in Nat /\ 2 <= u /\ u <= PageUnits /\ size <= (u - 1) * SLOB_UNIT
  <1>1. SLOB_UNIT \in Nat /\ PAGE_SIZE \in Nat
    BY SlobSizes, SlobAssumption
  <1>2. PICK x \in Nat : x = size + SLOB_UNIT /\ x > SLOB_UNIT /\ x + SLOB_UNIT < PAGE_SIZE
    BY <1>1
  <1>3. u \in Nat /\ 2 <= u /\ u <= PageUnits /\ x <= u * SLOB_UNIT
    BY <1>2, UnitsFor
  <1>4. (u - 1) * SLOB_UNIT = u * SLOB_UNIT - SLOB_UNIT /\ u * SLOB_UNIT \in Int
    BY <1>1, <1>3
  <1> QED
    BY <1>1, <1>2, <1>3, <1>4

LEMMA EntryUnits ==
  /\ SLOB_UNITS(BIGBLOCK) \in Nat /\ 2 <= SLOB_UNITS(BIGBLOCK)
  /\ SLOB_UNITS(BIGBLOCK) <= PageUnits
  BY UnitsFor, SlobAssumption

(* So many pages are enough for a big block.                               *)
LEMMA OrderIs ==
  ASSUME NEW size \in Sizes
  PROVE  find_order(size) \in Nat /\ size <= Shift[find_order(size)] * PAGE_SIZE
  <1> DEFINE D == {k \in 0..size : size \div Shift[k] <= PAGE_SIZE}
  <1>1. /\ size \in Nat \ {0} /\ PAGE_SIZE \in Nat \ {0}
        /\ \A k \in 0..size : ~(PAGE_SIZE * Shift[k] < size /\ size < (PAGE_SIZE + 1) * Shift[k])
    BY SlobAssumption
  <1>2. size \in D
    <2>1. Shift[size] \in Nat \ {0} /\ size < Shift[size]
      BY <1>1, ShiftGrows
    <2>2. size \div Shift[size] = 0
      <3>1. PICK s \in Nat \ {0} : s = Shift[size]
        BY <2>1
      <3>2. PICK r \in Int : r = size \div s
        BY <1>1, <3>1
      <3>3. r * s <= size /\ size < r * s + s
        <4>1. size \in Int /\ s \in Nat \ {0}
          BY <1>1, <3>1
        <4> HIDE <1>1
        <4> QED
          BY <3>2, <4>1
      <3>4. ~(r >= 1)
        <4>1. SUFFICES ASSUME r >= 1 PROVE FALSE
          OBVIOUS
        <4>2. r * s >= s
          BY <3>1, <4>1
        <4> QED
          BY <1>1, <2>1, <3>1, <3>3, <4>2
      <3>5. ~(r <= -1)
        <4>1. SUFFICES ASSUME r <= -1 PROVE FALSE
          OBVIOUS
        <4>2. r * s + s <= 0
          BY <3>1, <4>1
        <4> QED
          BY <1>1, <3>3, <4>2
      <3> QED
        BY <3>1, <3>2, <3>4, <3>5
    <2> QED
      BY <1>1, <2>2
  <1>3. PICK k \in D : k = Min(D)
    <2>1. D \in SUBSET Nat
      BY <1>1
    <2> HIDE DEF D
    <2> QED
      BY <1>2, <2>1, MinIn
  <1>4. k = find_order(size)
    BY <1>3 DEF find_order
  <1>5. k \in 0..size /\ size \div Shift[k] <= PAGE_SIZE /\ k \in Nat
    BY <1>1
  <1>6. PICK s \in Nat \ {0} : s = Shift[k]
    BY <1>5, ShiftGrows
  <1>7. PICK r \in Int : r = size \div s
    BY <1>1, <1>6
  <1>8. size < r * s + s /\ r <= PAGE_SIZE
    BY <1>1, <1>5, <1>6, <1>7
  <1>9. size < (PAGE_SIZE + 1) * s
    <2>1. r * s <= PAGE_SIZE * s /\ (PAGE_SIZE + 1) * s = PAGE_SIZE * s + s
      BY <1>1, <1>6, <1>7, <1>8
    <2> QED
      BY <1>1, <1>6, <1>7, <1>8, <2>1
  <1>10. ~(PAGE_SIZE * s < size)
    BY <1>1, <1>5, <1>6, <1>9
  <1>11. PAGE_SIZE * s = s * PAGE_SIZE /\ s * PAGE_SIZE \in Int
    BY <1>1, <1>6
  <1> QED
    BY <1>1, <1>4, <1>5, <1>6, <1>10, <1>11

(* No two owners of an address.                                            *)
LEMMA SameOwner ==
  ASSUME NEW W, NEW lo, NEW hi, Fills(W, lo, hi), NEW p \in W, NEW q \in W, NEW a \in Int,
         p.at <= a, a < p.at + p.len, q.at <= a, a < q.at + q.len
  PROVE  p = q
  <1>1. /\ p.at \in Nat /\ p.len \in Nat /\ q.at \in Nat /\ q.len \in Nat
        /\ p # q => Beside(p, q)
    BY DEF Fills
  <1> QED
    BY <1>1 DEF Beside

(* A piece changes its owner.                                              *)
LEMMA Renamed ==
  ASSUME NEW W, NEW p, p \notin W, Tiles(W \cup {p}), NEW k, NEW x
  PROVE  Tiles(W \cup {Part(k, x, p.at, p.len)})
  <1>1. p.at \in Nat /\ p.len \in Nat \ {0}
    BY DEF Tiles, Fills
  <1>2. PICK q : q = Part(k, x, p.at, p.len)
    OBVIOUS
  <1>3. Fills({q}, p.at, p.at + p.len)
    BY <1>1, <1>2, OnePart
  <1>4. Fills({p}, p.at, p.at + p.len)
    BY <1>1 DEF Fills
  <1>5. PICK lo \in Nat, hi \in Nat : lo = p.at /\ hi = p.at + p.len /\ lo < hi
    BY <1>1
  <1>6. Fills(W \cup {p}, PageUnits, Limit) /\ PageUnits \in Int /\ Limit \in Int
    BY AddrFacts DEF Tiles
  <1>7. PICK P, Q, N : P = W \cup {p} /\ Q = {p} /\ N = {q}
    OBVIOUS
  <1>8. Fills((P \ Q) \cup N, PageUnits, Limit)
    <2>1. Fills(P, PageUnits, Limit) /\ Fills(Q, lo, hi) /\ Fills(N, lo, hi) /\ Q \in SUBSET P
      BY <1>3, <1>4, <1>5, <1>6, <1>7
    <2> QED
      BY <1>5, <1>6, <2>1, Exchange
  <1>9. (P \ Q) \cup N = W \cup {q}
    BY <1>7
  <1> QED
    BY <1>2, <1>8, <1>9 DEF Tiles

(* Pages side by side are a piece of memory.                               *)
LEMMA PageRun ==
  ASSUME NEW p \in Nat, NEW m \in Nat \ {0}
  PROVE  Fills(PageParts(p..(p + m - 1)), PageAt(p), PageAt(p) + PageAt(m))
  <1> DEFINE I == p..(p + m - 1)
  <1>1. \A q \in Nat : PagePart(q).at = PageAt(q) /\ PagePart(q).len = PageUnits
    BY DEF PagePart, Part
  <1>2. \A q \in I : q \in Nat /\ p <= q /\ q < p + m
    OBVIOUS
  <1>3. /\ PageUnits \in Nat \ {0} /\ p + m \in Nat
        /\ \A i \in Nat : PageAt(i) \in Nat
        /\ PageAt(p + m) = PageAt(p) + PageAt(m)
    <2>1. PageUnits \in Nat \ {0}
      BY AddrFacts
    <2>2. ASSUME NEW i \in Nat PROVE PageAt(i) \in Nat
      <3>1. i * PageUnits \in Nat
        BY <2>1
      <3> QED
        BY <3>1 DEF PageAt
    <2> QED
      BY <2>1, <2>2, PagePlaces
  <1>4. \A i \in Nat, j \in Nat : i < j => PageAt(i) + PageUnits <= PageAt(j)
    BY PagePlaces
  <1>5. ASSUME NEW q \in I
        PROVE  PageAt(p) <= PageAt(q) /\ PageAt(q) + PageUnits <= PageAt(p + m)
    <2>1. p = q \/ PageAt(p) + PageUnits <= PageAt(q)
      BY <1>2, <1>4
    <2>2. PageAt(q) + PageUnits <= PageAt(p + m)
      BY <1>2, <1>3, <1>4
    <2> QED
      BY <1>2, <1>3, <2>1, <2>2
  <1>6. ASSUME NEW q \in I, NEW r \in I, q # r PROVE Beside(PagePart(q), PagePart(r))
    <2>1. PageAt(q) + PageUnits <= PageAt(r) \/ PageAt(r) + PageUnits <= PageAt(q)
      BY <1>2, <1>4, <1>6
    <2> QED
      BY <1>1, <1>2, <2>1 DEF Beside
  <1>7. ASSUME NEW a \in PageAt(p)..(PageAt(p + m) - 1)
        PROVE  \E q \in I : PageAt(q) <= a /\ a < PageAt(q) + PageUnits
    <2>1. a \in Nat /\ PageAt(p) <= a /\ a < PageAt(p + m)
      BY <1>3
    <2>2. PICK q \in Nat : PageAt(q) <= a /\ a < PageAt(q) + PageUnits
      BY <2>1, PageOf
    <2>3. ~(q < p)
      BY <1>3, <1>4, <2>1, <2>2
    <2>4. ~(p + m <= q)
      <3>1. SUFFICES ASSUME p + m <= q PROVE FALSE
        OBVIOUS
      <3>2. p + m = q \/ PageAt(p + m) + PageUnits <= PageAt(q)
        BY <1>3, <1>4, <3>1
      <3> QED
        BY <1>3, <2>1, <2>2, <3>2
    <2> QED
      BY <2>2, <2>3, <2>4
  <1>8. \A x \in PageParts(I) : \E q \in I : x = PagePart(q)
    BY DEF PageParts
  <1>9. \A q \in I : PagePart(q) \in PageParts(I)
    BY DEF PageParts
  <1>10. PICK l, h : l = PageAt(p) /\ h = PageAt(p + m)
    OBVIOUS
  <1> HIDE DEF I
  <1>11. Fills(PageParts(I), l, h)
    <2>1. \A x \in PageParts(I) : x.at \in Nat /\ x.len \in Nat \ {0} /\ l <= x.at
                                  /\ x.at + x.len <= h
      BY <1>1, <1>2, <1>3, <1>5, <1>8, <1>10
    <2>2. \A x \in PageParts(I), y \in PageParts(I) : x # y => Beside(x, y)
      BY <1>6, <1>8
    <2>3. \A a \in l..(h - 1) : \E x \in PageParts(I) : x.at <= a /\ a < x.at + x.len
      BY <1>1, <1>2, <1>7, <1>9, <1>10
    <2> QED
      BY <2>1, <2>2, <2>3 DEF Fills
  <1> QED
    BY <1>3, <1>10, <1>11 DEF I
-----------------------------------------------------------------------------
(* The parts of a state.                                                   *)
LEMMA PartFields ==
  \A k, x, a, l : /\ Part(k, x, a, l).kind = k /\ Part(k, x, a, l).of = x
                  /\ Part(k, x, a, l).at = a /\ Part(k, x, a, l).len = l
  BY DEF Part

LEMMA SmallFields ==
  \A h, t : /\ SmallPart(h, t).at = t.block - 1 /\ SmallPart(h, t).len = h.units[t.block - 1]
            /\ SmallPart(h, t).kind = "small" /\ SmallPart(h, t).of = t
  BY PartFields DEF SmallPart

LEMMA EntryFields ==
  \A e : /\ EntryPart(e).at = e.bb /\ EntryPart(e).len = SLOB_UNITS(BIGBLOCK)
         /\ EntryPart(e).kind = "entry" /\ EntryPart(e).of = e
  BY PartFields DEF EntryPart

LEMMA BigFields ==
  \A e : /\ BigPart(e).at = PageAt(e.pages) /\ BigPart(e).len = PageAt(Shift[e.order])
         /\ BigPart(e).kind = "big" /\ BigPart(e).of = e
  BY PartFields DEF BigPart

LEMMA PageFields ==
  \A p : /\ PagePart(p).at = PageAt(p) /\ PagePart(p).len = PageUnits
         /\ PagePart(p).kind = "page" /\ PagePart(p).of = p
  BY PartFields DEF PagePart

LEMMA HeldFields ==
  \A b, u : Held(b, u).at = b /\ Held(b, u).len = u /\ Held(b, u).kind = "held"
  BY PartFields DEF Held

LEMMA BlockKinds ==
  ASSUME NEW h, NEW B, NEW K, NEW U
  PROVE  /\ \A p \in Blocks(h, B, K) : p.kind \in {"small", "entry", "big"}
         /\ \A p \in PageParts(U) : p.kind = "page"
         /\ \A p : PagePart(p) \in PageParts(U) <=> p \in U
  <1>1. ASSUME NEW p \in Blocks(h, B, K) PROVE p.kind \in {"small", "entry", "big"}
    <2>1. CASE \E t \in SmallOf(B, K) : p = SmallPart(h, t)
      BY <2>1, SmallFields
    <2>2. CASE \E e \in B : p = EntryPart(e) \/ p = BigPart(e)
      BY <2>2, EntryFields, BigFields
    <2> QED
      BY <2>1, <2>2 DEF Blocks
  <1>2. ASSUME NEW p \in PageParts(U) PROVE p.kind = "page" /\ p.of \in U
    <2>1. PICK q \in U : p = PagePart(q)
      BY DEF PageParts
    <2> QED
      BY <2>1, PageFields
  <1>3. \A p : p \in U => PagePart(p) \in PageParts(U)
    BY DEF PageParts
  <1>4. \A p : PagePart(p).of = p
    BY PageFields
  <1> QED
    BY <1>1, <1>2, <1>3, <1>4

LEMMA PagesSplit ==
  ASSUME NEW U, NEW I \in SUBSET U
  PROVE  /\ PageParts(U) = PageParts(U \ I) \cup PageParts(I)
         /\ PageParts(U) \ PageParts(I) = PageParts(U \ I)
  <1>0. \A q : PagePart(q).of = q
    BY PageFields
  <1>1. ASSUME NEW x \in PageParts(U \ I) PROVE x.of \notin I
    <2>1. PICK q \in U \ I : x = PagePart(q)
      BY DEF PageParts
    <2> QED
      BY <1>0, <2>1
  <1>2. ASSUME NEW x \in PageParts(I) PROVE x.of \in I
    <2>1. PICK q \in I : x = PagePart(q)
      BY DEF PageParts
    <2> QED
      BY <1>0, <2>1
  <1>3. PageParts(U) = PageParts(U \ I) \cup PageParts(I)
    BY DEF PageParts
  <1> QED
    BY <1>1, <1>2, <1>3

(* The blocks are the same when their headers are.                         *)
LEMMA SameHeader ==
  ASSUME NEW h, NEW g, NEW B, NEW K, \A p \in Blocks(h, B, K) : g.units[p.at] = h.units[p.at],
         NEW t \in SmallOf(B, K)
  PROVE  g.units[t.block - 1] = h.units[t.block - 1]
  <1>1. SmallPart(h, t) \in Blocks(h, B, K) /\ SmallPart(h, t).at = t.block - 1
    BY SmallFields DEF Blocks
  <1> QED
    BY <1>1

LEMMA SameBlocks ==
  ASSUME NEW h, NEW g, NEW B, NEW K, \A p \in Blocks(h, B, K) : g.units[p.at] = h.units[p.at]
  PROVE  /\ Blocks(g, B, K) = Blocks(h, B, K)
         /\ \A t \in SmallOf(B, K) : g.units[t.block - 1] = h.units[t.block - 1]
  <1>1. ASSUME NEW t \in SmallOf(B, K) PROVE g.units[t.block - 1] = h.units[t.block - 1]
    BY SameHeader
  <1>2. \A t \in SmallOf(B, K) : SmallPart(g, t) = SmallPart(h, t)
    BY <1>1 DEF SmallPart
  <1>3. {SmallPart(g, t) : t \in SmallOf(B, K)} = {SmallPart(h, t) : t \in SmallOf(B, K)}
    BY <1>2
  <1> QED
    BY <1>1, <1>3 DEF Blocks

(* What slob_alloc ends with.                                              *)
Allocated(P, units, r) ==
  /\ r.block \in Nat \ {0} /\ r.heap.units[r.block] = units /\ r.unused \subseteq unused
  /\ \A p \in P : r.heap.units[p.at] = heap.units[p.at]
  /\ \E S : /\ RingOK(r.heap, S)
            /\ Tiles(FreeParts(r.heap, S)
                     \cup ((P \cup PageParts(r.unused)) \cup {Held(r.block, units)}))
NotAllocated(r) == r.block = NoBlock /\ r.heap = heap /\ r.unused = unused

LEMMA SlobAlloc ==
  ASSUME NEW R, RingOK(heap, R), NEW P, \A p \in P : p.kind \in {"small", "entry", "big"},
         Tiles(FreeParts(heap, R) \cup (P \cup PageParts(unused))),
         NEW size, NEW units \in Nat, units = SLOB_UNITS(size), 2 <= units, units <= PageUnits,
         NEW r \in slob_alloc(size)
  PROVE  Allocated(P, units, r) \/ NotAllocated(r)
  <1>0. units \in Nat /\ units >= 2 /\ units <= PageUnits
    OBVIOUS
  <1>1. CASE Fitting(heap, units) # {}
    <2>1. r = Carve(heap, units, unused)
      BY <1>1 DEF slob_alloc
    <2>5. PICK Q : Q = P \cup PageParts(unused)
      OBVIOUS
    <2>2. \A p \in Q : p.kind # "free"
      BY <2>5, BlockKinds
    <2>6. PICK left, h : left = unused /\ h = heap
      OBVIOUS
    <2>7. RingOK(h, R) /\ Tiles(FreeParts(h, R) \cup Q) /\ Fitting(h, units) # {}
          /\ r = Carve(h, units, left)
      BY <1>1, <2>1, <2>5, <2>6
    <2>3. Carved(h, Q, units, left, r)
      BY ONLY <2>2, <2>7, <1>0, SlobCarve
    <2>4. r.block \in Nat \ {0}
      BY <2>3, AddrFacts DEF Carved
    <2> QED
      BY <2>3, <2>4, <2>5, <2>6 DEF Allocated, Carved
  <1>2. CASE Fitting(heap, units) = {} /\ unused = {}
    <2>1. r = [block |-> NoBlock, heap |-> heap, unused |-> unused]
      BY <1>2 DEF slob_alloc
    <2> QED
      BY <2>1 DEF NotAllocated
  <1>3. CASE Fitting(heap, units) = {} /\ unused # {}
    <2>1. PICK p \in unused :
             r = Carve(slob_free(heap, p * PageUnits, PageUnits), units, unused \ {p})
      BY <1>3 DEF slob_alloc
    <2>2. PICK left, g : left = unused \ {p} /\ g = slob_free(heap, p * PageUnits, PageUnits)
      OBVIOUS
    <2>14. PICK s, Q, h : s = PagePart(p) /\ Q = P \cup PageParts(left) /\ h = heap
      OBVIOUS
    <2>3. s.at = p * PageUnits /\ s.len = PageUnits /\ s.kind = "page"
      BY <2>14, PageFields DEF PageAt
    <2>4. s \notin Q /\ \A q \in Q : q.kind # "free"
      BY <2>2, <2>3, <2>14, BlockKinds
    <2>5. P \cup PageParts(unused) = Q \cup {s}
      <3>1. PICK I \in SUBSET unused : I = {p}
        OBVIOUS
      <3>4. PageParts(unused) = PageParts(unused \ I) \cup PageParts(I)
        BY PagesSplit
      <3>2. PageParts({p}) = {s}
        BY <2>14 DEF PageParts
      <3> QED
        BY <2>2, <2>14, <3>1, <3>2, <3>4
    <2>6. g = slob_free(h, s.at, s.len)
      BY <2>2, <2>3, <2>14
    <2>7. RingOK(h, R) /\ Tiles(FreeParts(h, R) \cup (Q \cup {s}))
      BY <2>5, <2>14
    <2>8. PICK S : /\ RingOK(g, S) /\ Tiles(FreeParts(g, S) \cup Q)
                   /\ \A q \in Q : g.units[q.at] = h.units[q.at]
                   /\ \E c \in S \ {arena} : g.units[c] >= s.len
      <3>1. s.kind # "free"
        BY <2>3
      <3>2. Released(h, Q, s, g)
        BY ONLY <2>4, <2>6, <2>7, <3>1, SlobFree
      <3> QED
        BY <3>2 DEF Released
    <2>9. Fitting(g, units) # {}
      <3>1. PICK c \in S : g.units[c] >= PageUnits
        BY <2>3, <2>8
      <3>2. g.units[c] \in Nat /\ PageUnits \in Nat
        BY <2>8, RingFacts, AddrFacts
      <3>3. g.units[c] >= units
        BY <3>1, <3>2
      <3> QED
        BY <2>8, <3>3, FittingIs DEF RingOK
    <2>10. r = Carve(g, units, left)
      BY <2>1, <2>2
    <2>11. Carved(g, Q, units, left, r)
      BY ONLY <1>0, <2>4, <2>8, <2>9, <2>10, SlobCarve
    <2>12. r.block \in Nat \ {0}
      BY <2>11, AddrFacts DEF Carved
    <2>13. \A q \in P : r.heap.units[q.at] = heap.units[q.at]
      BY <2>8, <2>11, <2>14 DEF Carved
    <2> QED
      BY <2>2, <2>11, <2>12, <2>13, <2>14 DEF Allocated, Carved
  <1> QED
    BY <1>1, <1>2, <1>3

(* The heap of a state and of a state that follows.                        *)
LEMMA StateOf ==
  ASSUME NEW h, NEW B, NEW U, NEW K, HeapState(h, B, U, K)
  PROVE  \E R : /\ RingOK(h, R) /\ R = RingOf(h)
                /\ Tiles(FreeParts(h, R) \cup (Blocks(h, B, K) \cup PageParts(U)))
  BY DEF HeapState, HeapParts

Divided(h, B, U, K) ==
  \E R : RingOK(h, R) /\ Tiles(FreeParts(h, R) \cup (Blocks(h, B, K) \cup PageParts(U)))

LEMMA DividedIs ==
  ASSUME NEW h, NEW B, NEW U, NEW K, Divided(h, B, U, K)
  PROVE  RingOK(h, RingOf(h)) /\ Tiles(HeapParts(h, RingOf(h), B, U, K))
  <1>1. PICK R : RingOK(h, R) /\ Tiles(FreeParts(h, R) \cup (Blocks(h, B, K) \cup PageParts(U)))
    BY DEF Divided
  <1>2. RingOf(h) = R
    BY <1>1, RingIs DEF RingOK
  <1> QED
    BY <1>1, <1>2 DEF HeapParts

(* Every block that has been given out lies in a piece of memory.          *)
LEMMA BlockPlaces ==
  ASSUME NEW h, NEW B, NEW U, NEW K, HeapState(h, B, U, K), NEW t \in K
  PROVE  /\ t.block \in Nat
         /\ \E p \in Blocks(h, B, K) : p.at <= t.block /\ t.block < p.at + p.len
         /\ t \in SmallOf(B, K) =>
              SmallPart(h, t).at <= t.block /\ t.block < SmallPart(h, t).at + SmallPart(h, t).len
  <1>1. t.block \in Nat /\ t.size \in Nat \ {0}
    BY DEF HeapState, HeapRecords
  <1>2. PICK R : /\ RingOK(h, R) /\ R = RingOf(h)
                 /\ Tiles(FreeParts(h, R) \cup (Blocks(h, B, K) \cup PageParts(U)))
    BY StateOf
  <1>3. \A p \in Blocks(h, B, K) : p.at \in Nat /\ p.len \in Nat \ {0}
    BY <1>2 DEF Tiles, Fills
  <1>4. ASSUME t \in SmallOf(B, K)
        PROVE  /\ SmallPart(h, t) \in Blocks(h, B, K)
               /\ SmallPart(h, t).at <= t.block
               /\ t.block < SmallPart(h, t).at + SmallPart(h, t).len
    <2>1. SmallPart(h, t) \in Blocks(h, B, K)
      BY <1>4 DEF Blocks
    <2>5. PICK p \in Blocks(h, B, K) : p = SmallPart(h, t)
      BY <2>1
    <2>6. p.at = t.block - 1 /\ p.len = h.units[t.block - 1]
      BY <2>5, SmallFields
    <2>2. PICK u \in Nat : u = h.units[t.block - 1] /\ t.block - 1 \in Nat
      BY <1>3, <2>6
    <2>3. t.size <= (u - 1) * SLOB_UNIT
      BY <1>4, <2>2 DEF HeapState, RoomEnough
    <2>4. u >= 2
      <3>1. SUFFICES ASSUME u <= 1 PROVE FALSE
        BY <2>2
      <3>2. SLOB_UNIT \in Nat
        BY SlobSizes
      <3>3. (u - 1) * SLOB_UNIT <= 0
        BY <2>2, <3>1, <3>2
      <3> QED
        BY <1>1, <2>2, <2>3, <3>2, <3>3
    <2>7. p.at <= t.block /\ t.block < p.at + p.len
      BY <1>1, <2>2, <2>4, <2>6
    <2> QED
      BY <2>1, <2>5, <2>7
  <1>5. ASSUME t \notin SmallOf(B, K)
        PROVE  \E p \in Blocks(h, B, K) : p.at <= t.block /\ t.block < p.at + p.len
    <2>1. PICK e \in B : PageAt(e.pages) = t.block
      BY <1>5 DEF SmallOf
    <2>2. BigPart(e) \in Blocks(h, B, K) /\ BigPart(e).at = t.block
      BY <2>1, BigFields DEF Blocks
    <2> QED
      BY <1>1, <1>3, <2>2
  <1> QED
    BY <1>1, <1>4, <1>5
-----------------------------------------------------------------------------
(* What a call makes of a state.                                           *)
LEMMA FreeKinds ==
  ASSUME NEW h, NEW R
  PROVE  \A p \in FreeParts(h, R) : p.kind = "free"
  <1>1. SUFFICES ASSUME NEW p \in FreeParts(h, R) PROVE p.kind = "free"
    OBVIOUS
  <1>2. PICK b : p = Part("free", b, b, h.units[b])
    BY DEF FreeParts, FreePart
  <1> QED
    BY <1>2, PartFields

(* A new piece holds no address that has been given out.                   *)
LEMMA Fresh ==
  ASSUME NEW h, NEW B, NEW U, NEW K, HeapState(h, B, U, K),
         NEW W, Tiles(W), NEW x \in W, \A p \in Blocks(h, B, K) : p \in W /\ p # x,
         NEW a \in Nat, x.at <= a, a < x.at + x.len
  PROVE  (\A t \in K : t.block # a) /\ (\A e \in B : PageAt(e.pages) # a)
  <1>1. ASSUME NEW p \in Blocks(h, B, K) PROVE ~(p.at <= a /\ a < p.at + p.len)
    <2>1. SUFFICES ASSUME p.at <= a, a < p.at + p.len PROVE FALSE
      OBVIOUS
    <2>2. p \in W /\ p # x /\ a \in Int /\ Fills(W, PageUnits, Limit)
      BY DEF Tiles
    <2> QED
      BY ONLY <2>1, <2>2, x \in W, x.at <= a, a < x.at + x.len, SameOwner
  <1>2. ASSUME NEW t \in K PROVE t.block # a
    BY <1>1, BlockPlaces
  <1>3. ASSUME NEW e \in B PROVE PageAt(e.pages) # a
    <2>1. PICK p \in Blocks(h, B, K) : p = BigPart(e)
      BY DEF Blocks
    <2>2. p.at = PageAt(e.pages) /\ p.at \in Nat /\ p.len \in Nat \ {0}
      BY <2>1, BigFields DEF Tiles, Fills
    <2> QED
      BY <1>1, <2>2
  <1> QED
    BY <1>2, <1>3

(* Nothing is given out, and the ring may have a page more.                *)
LEMMA NothingGiven ==
  ASSUME NEW h, NEW B, NEW U, NEW K, HeapState(h, B, U, K), NEW V \in SUBSET U, NEW g,
         \A p \in Blocks(h, B, K) : g.units[p.at] = h.units[p.at],
         NEW S, RingOK(g, S), Tiles(FreeParts(g, S) \cup (Blocks(h, B, K) \cup PageParts(V)))
  PROVE  HeapState(g, B, V, K)
  <1>0. \A p \in Blocks(h, B, K) : g.units[p.at] = h.units[p.at]
    OBVIOUS
  <1>5. Blocks(g, B, K) = Blocks(h, B, K)
    BY ONLY <1>0, SameBlocks
  <1>1. /\ Blocks(g, B, K) = Blocks(h, B, K)
        /\ \A t \in SmallOf(B, K) : g.units[t.block - 1] = h.units[t.block - 1]
    BY ONLY <1>0, <1>5, SameBlocks
  <1>2. Divided(g, B, V, K)
    BY <1>1 DEF Divided
  <1>3. HeapRecords(B, V, K)
    BY DEF HeapState, HeapRecords
  <1>4. RoomEnough(g, B, K)
    BY <1>1 DEF HeapState, RoomEnough
  <1> QED
    BY <1>2, <1>3, <1>4, DividedIs DEF HeapState

(* A block with its header is given out.                                   *)
LEMMA SmallGiven ==
  ASSUME NEW h, NEW B, NEW U, NEW K, HeapState(h, B, U, K), NEW V \in SUBSET U, NEW g,
         \A p \in Blocks(h, B, K) : g.units[p.at] = h.units[p.at],
         NEW b \in Nat \ {0}, NEW units \in Nat, units >= 2, g.units[b] = units,
         NEW S, RingOK(g, S),
         Tiles(FreeParts(g, S) \cup ((Blocks(h, B, K) \cup PageParts(V)) \cup {Held(b, units)})),
         NEW size \in Nat \ {0}, size <= (units - 1) * SLOB_UNIT,
         NEW t, t = [block |-> b + 1, size |-> size]
  PROVE  HeapState(g, B, V, K \cup {t})
  <1>1. PICK L, F, P : L = K \cup {t} /\ F = FreeParts(g, S) /\ P = Blocks(h, B, K)
    OBVIOUS
  <1>2. PICK W : W = F \cup (P \cup PageParts(V))
    OBVIOUS
  <1>3. PICK x : x = Held(b, units)
    OBVIOUS
  <1>4. x.at = b /\ x.len = units /\ x.kind = "held"
    BY <1>3, HeldFields
  <1>5. Tiles(W \cup {x})
    <2>1. F \cup ((P \cup PageParts(V)) \cup {x}) = W \cup {x}
      BY <1>2
    <2> QED
      BY <1>1, <1>3, <2>1
  <1>6. x \notin W
    <2>1. \A p \in F : p.kind = "free"
      BY <1>1, FreeKinds
    <2>2. \A p \in P : p.kind \in {"small", "entry", "big"}
      BY <1>1, BlockKinds
    <2>3. \A p \in PageParts(V) : p.kind = "page"
      BY BlockKinds
    <2> QED
      BY <1>2, <1>4, <2>1, <2>2, <2>3
  <1>7. (\A u \in K : u.block # b + 1) /\ (\A e \in B : PageAt(e.pages) # b + 1)
    <2>1. \A p \in Blocks(h, B, K) : p \in W \cup {x} /\ p # x
      BY <1>1, <1>2, <1>6
    <2>2. b + 1 \in Nat /\ x.at <= b + 1 /\ b + 1 < x.at + x.len
      BY <1>4
    <2>3. PICK Z : Z = W \cup {x}
      OBVIOUS
    <2>4. Tiles(Z) /\ x \in Z /\ \A p \in Blocks(h, B, K) : p \in Z /\ p # x
      BY <1>5, <2>1, <2>3
    <2>5. HeapState(h, B, U, K)
      OBVIOUS
    <2> QED
      BY ONLY <2>2, <2>4, <2>5, Fresh
  <1>8. t.block = b + 1 /\ t.size = size /\ t.block - 1 = b
    OBVIOUS
  <1>9. SmallOf(B, L) = SmallOf(B, K) \cup {t}
    BY <1>1, <1>7, <1>8 DEF SmallOf
  <1>10. /\ Blocks(g, B, K) = P
         /\ \A u \in SmallOf(B, K) : g.units[u.block - 1] = h.units[u.block - 1]
    BY <1>1, SameBlocks
  <1>11. Tiles(W \cup {SmallPart(g, t)})
    <2>1. SmallPart(g, t) = Part("small", t, x.at, x.len)
      BY <1>4, <1>8 DEF SmallPart
    <2> QED
      BY <1>5, <1>6, <2>1, Renamed
  <1>12. Blocks(g, B, L) = P \cup {SmallPart(g, t)}
    <2>1. {SmallPart(g, u) : u \in SmallOf(B, L)}
          = {SmallPart(g, u) : u \in SmallOf(B, K)} \cup {SmallPart(g, t)}
      BY <1>9
    <2> QED
      BY <1>10, <2>1 DEF Blocks
  <1>13. Divided(g, B, V, L)
    <2>1. W \cup {SmallPart(g, t)} = F \cup (Blocks(g, B, L) \cup PageParts(V))
      BY <1>2, <1>12
    <2> QED
      BY <1>1, <1>11, <2>1 DEF Divided
  <1>14. HeapRecords(B, V, L)
    <2>1. t \in [block : Nat, size : Nat \ {0}]
      OBVIOUS
    <2>2. HeapRecords(B, U, K)
      BY DEF HeapState
    <2>3. IsFiniteSet(L)
      BY <1>1, <2>2, FS_AddElement DEF HeapRecords
    <2>4. \A u, v \in L : u.block = v.block => u = v
      BY <1>1, <1>7, <1>8, <2>2 DEF HeapRecords
    <2> QED
      BY <1>1, <2>1, <2>2, <2>3, <2>4 DEF HeapRecords
  <1>15. RoomEnough(g, B, L)
    <2>1. RoomEnough(h, B, K)
      BY DEF HeapState
    <2>2. \A u \in SmallOf(B, L) : u.size <= (g.units[u.block - 1] - 1) * SLOB_UNIT
      BY <1>8, <1>9, <1>10, <2>1 DEF RoomEnough
    <2>3. \A u \in L, e \in B : PageAt(e.pages) = u.block => u.size <= Shift[e.order] * PAGE_SIZE
      BY <1>1, <1>7, <1>8, <2>1 DEF RoomEnough
    <2> QED
      BY <2>2, <2>3 DEF RoomEnough
  <1> QED
    BY <1>1, <1>13, <1>14, <1>15, DividedIs DEF HeapState

LEMMA PageNumbers ==
  ASSUME NEW m \in Nat
  PROVE  PageAt(m) \in Nat /\ (m # 0 => PageAt(m) \in Nat \ {0} /\ PageAt(m) >= PageUnits)
  <1>1. PageUnits \in Nat \ {0} /\ PageAt(0) = 0
    BY AddrFacts, PagePlaces
  <1>2. CASE m = 0
    BY <1>1, <1>2
  <1>3. CASE m # 0
    <2>1. m \in Int /\ 0 \in Int /\ 0 < m
      BY <1>3
    <2>2. PageAt(0) + PageUnits <= PageAt(m)
      BY <2>1, PagePlaces
    <2>3. PageAt(m) \in Int
      BY <2>1, PagePlaces
    <2> QED
      BY <1>1, <2>2, <2>3
  <1> QED
    BY <1>2, <1>3

(* Pages are given out, with an entry in bigblocks.                        *)
LEMMA BigGiven ==
  ASSUME NEW h, NEW B, NEW U, NEW K, HeapState(h, B, U, K), NEW V \in SUBSET U, NEW g,
         \A p \in Blocks(h, B, K) : g.units[p.at] = h.units[p.at],
         NEW b \in Nat \ {0}, NEW units, units = SLOB_UNITS(BIGBLOCK),
         NEW S, RingOK(g, S),
         Tiles(FreeParts(g, S) \cup ((Blocks(h, B, K) \cup PageParts(V)) \cup {Held(b, units)})),
         NEW k \in Nat, NEW first \in Nat, NEW I \in SUBSET V, I = first..(first + Shift[k] - 1),
         NEW size \in Nat \ {0}, size <= Shift[k] * PAGE_SIZE,
         NEW e, e = [bb |-> b, order |-> k, pages |-> first],
         NEW t, t = [block |-> PageAt(first), size |-> size]
  PROVE  HeapState(g, B \cup {e}, V \ I, K \cup {t})
  <1>1. PICK C, L, F, P : /\ C = B \cup {e} /\ L = K \cup {t}
                          /\ F = FreeParts(g, S) /\ P = Blocks(h, B, K)
    OBVIOUS
  <1>2. PICK W, x, y, z : /\ W = F \cup (P \cup PageParts(V))
                          /\ x = Held(b, units) /\ y = EntryPart(e) /\ z = BigPart(e)
    OBVIOUS
  <1>3. PICK m \in Nat \ {0} : m = Shift[k]
    BY ShiftGrows
  <1>4. /\ x.at = b /\ x.len = units /\ x.kind = "held"
        /\ y = Part("entry", e, b, units) /\ y.kind = "entry"
        /\ z = Part("big", e, PageAt(first), PageAt(m)) /\ z.kind = "big"
    <2>1. e.bb = b /\ e.order = k /\ e.pages = first
      OBVIOUS
    <2>2. x.at = b /\ x.len = units /\ x.kind = "held"
      BY ONLY <1>2, HeldFields
    <2>3. y.kind = "entry" /\ z.kind = "big"
      BY ONLY <1>2, EntryFields, BigFields
    <2>4. y = Part("entry", e, b, units)
      BY <1>2, <2>1 DEF EntryPart
    <2>5. z = Part("big", e, PageAt(first), PageAt(m))
      BY <1>2, <1>3, <2>1 DEF BigPart
    <2> QED
      BY <2>2, <2>3, <2>4, <2>5
  <1>5. /\ \A p \in F : p.kind = "free"
        /\ \A p \in P : p.kind \in {"small", "entry", "big"}
        /\ \A p \in PageParts(V) : p.kind = "page"
        /\ \A p : PagePart(p) \in PageParts(I) <=> p \in I
    <2>1. \A p \in F : p.kind = "free"
      BY ONLY <1>1, FreeKinds
    <2>2. \A p \in P : p.kind \in {"small", "entry", "big"}
      BY ONLY <1>1, BlockKinds
    <2>3. \A p \in PageParts(V) : p.kind = "page"
      BY ONLY BlockKinds
    <2>4. \A p : PagePart(p) \in PageParts(I) <=> p \in I
      BY ONLY BlockKinds
    <2> QED
      BY <2>1, <2>2, <2>3, <2>4
  <1>6. Tiles(W \cup {y})
    <2>1. F \cup ((P \cup PageParts(V)) \cup {x}) = W \cup {x}
      BY <1>2
    <2>2. Tiles(W \cup {x})
      BY <1>1, <1>2, <2>1
    <2>3. x \notin W
      BY <1>2, <1>4, <1>5
    <2> QED
      BY ONLY <1>4, <2>2, <2>3, Renamed
  <1>7. /\ PageParts(V) = PageParts(V \ I) \cup PageParts(I)
        /\ PageParts(V) \ PageParts(I) = PageParts(V \ I)
    BY PagesSplit
  <1>8. Tiles(((W \cup {y}) \ PageParts(I)) \cup {z})
    <2>1. PICK lo \in Nat, hi \in Nat : /\ lo = PageAt(first) /\ hi = PageAt(first) + PageAt(m)
                                        /\ lo < hi
      <3>1. PageAt(first) \in Nat /\ PageAt(m) \in Nat \ {0}
        BY PageNumbers
      <3> QED
        BY ONLY <3>1
    <2>2. I = first..(first + m - 1)
      BY <1>3
    <2>3. Fills(PageParts(I), lo, hi)
      BY <2>1, <2>2, PageRun
    <2>4. Fills({z}, lo, hi)
      <3>1. PageAt(first) \in Nat /\ PageAt(m) \in Nat \ {0}
        BY PageNumbers
      <3> QED
        BY ONLY <1>4, <2>1, <3>1, OnePart
    <2>5. PICK Y, Q, N : Y = W \cup {y} /\ Q = PageParts(I) /\ N = {z}
      OBVIOUS
    <2>6. /\ Fills(Y, PageUnits, Limit) /\ PageUnits \in Int /\ Limit \in Int
          /\ Q \in SUBSET Y /\ Fills(Q, lo, hi) /\ Fills(N, lo, hi)
      <3>1. Fills(Y, PageUnits, Limit)
        BY <1>6, <2>5 DEF Tiles
      <3>2. PageUnits \in Int /\ Limit \in Int
        BY AddrFacts
      <3>3. Q \in SUBSET Y
        BY ONLY <1>2, <1>7, <2>5
      <3> QED
        BY <2>3, <2>4, <2>5, <3>1, <3>2, <3>3
    <2>7. Fills((Y \ Q) \cup N, PageUnits, Limit)
      BY ONLY <2>1, <2>6, Exchange
    <2> QED
      BY <2>5, <2>7 DEF Tiles
  <1>9. (\A u \in K : u.block # PageAt(first)) /\ (\A c \in B : PageAt(c.pages) # PageAt(first))
    <2>1. PICK q : q = PagePart(first)
      OBVIOUS
    <2>2. first \in I
      BY <1>3
    <2>3. PICK Y : Y = W \cup {y}
      OBVIOUS
    <2>4. Tiles(Y) /\ q \in Y
      BY <1>2, <1>5, <1>6, <1>7, <2>1, <2>2, <2>3
    <2>5. q.kind = "page" /\ q.at = PageAt(first) /\ q.len = PageUnits
      BY <2>1, PageFields
    <2>6. \A p \in Blocks(h, B, K) : p \in Y /\ p # q
      BY <1>1, <1>2, <1>5, <2>3, <2>5
    <2>7. PICK a \in Nat : a = PageAt(first) /\ q.at <= a /\ a < q.at + q.len
      <3>1. PageAt(first) \in Nat
        BY PageNumbers
      <3>2. PageUnits \in Nat \ {0}
        BY AddrFacts
      <3> QED
        BY ONLY <2>5, <3>1, <3>2
    <2>8. HeapState(h, B, U, K)
      OBVIOUS
    <2> QED
      BY ONLY <2>4, <2>6, <2>7, <2>8, Fresh
  <1>10. t.block = PageAt(first) /\ t.size = size /\ e.pages = first /\ e.order = k /\ e.bb = b
    OBVIOUS
  <1>11. SmallOf(C, L) = SmallOf(B, K)
    BY <1>1, <1>9, <1>10 DEF SmallOf
  <1>12. /\ Blocks(g, B, K) = P
         /\ \A u \in SmallOf(B, K) : g.units[u.block - 1] = h.units[u.block - 1]
    <2>1. \A p \in Blocks(h, B, K) : g.units[p.at] = h.units[p.at]
      OBVIOUS
    <2> QED
      BY ONLY <1>1, <2>1, SameBlocks
  <1>13. Blocks(g, C, L) = P \cup {y, z}
    <2>1. {EntryPart(c) : c \in C} = {EntryPart(c) : c \in B} \cup {y}
      BY <1>1, <1>2
    <2>2. {BigPart(c) : c \in C} = {BigPart(c) : c \in B} \cup {z}
      BY <1>1, <1>2
    <2>3. Blocks(g, B, K) = P
      BY <1>12
    <2> QED
      BY ONLY <1>11, <2>1, <2>2, <2>3 DEF Blocks
  <1>14. Divided(g, C, V \ I, L)
    <2>1. ((W \cup {y}) \ PageParts(I)) \cup {z} = F \cup ((P \cup {y, z}) \cup PageParts(V \ I))
      <3>1. \A p \in PageParts(I) : p.kind = "page"
        BY <1>5, <1>7
      <3>2. \A p \in PageParts(I) : p \notin F /\ p \notin P /\ p # y
        BY <1>4, <1>5, <3>1
      <3> QED
        BY ONLY <1>2, <1>7, <3>2
    <2> QED
      BY <1>1, <1>8, <1>13, <2>1 DEF Divided
  <1>15. HeapRecords(C, V \ I, L)
    <2>1. t \in [block : Nat, size : Nat \ {0}] /\ e \in [bb : Nat, order : Nat, pages : Nat]
      BY PageNumbers
    <2>2. HeapRecords(B, U, K)
      BY DEF HeapState
    <2>3. IsFiniteSet(L) /\ IsFiniteSet(C)
      BY <1>1, <2>2, FS_AddElement DEF HeapRecords
    <2>4. \A u, v \in L : u.block = v.block => u = v
      BY <1>1, <1>9, <1>10, <2>2 DEF HeapRecords
    <2> QED
      BY <1>1, <2>1, <2>2, <2>3, <2>4 DEF HeapRecords
  <1>16. RoomEnough(g, C, L)
    <2>1. RoomEnough(h, B, K)
      BY DEF HeapState
    <2>2. \A u \in SmallOf(C, L) : u.size <= (g.units[u.block - 1] - 1) * SLOB_UNIT
      BY <1>11, <1>12, <2>1 DEF RoomEnough
    <2>3. ASSUME NEW u \in L, NEW c \in C, PageAt(c.pages) = u.block
          PROVE  u.size <= Shift[c.order] * PAGE_SIZE
      <3>1. CASE u \in K /\ c \in B
        BY <2>1, <2>3, <3>1 DEF RoomEnough
      <3>2. CASE u = t /\ c = e
        BY <1>10, <3>2
      <3> QED
        BY <1>1, <1>9, <1>10, <2>3, <3>1, <3>2
    <2> QED
      BY <2>2, <2>3 DEF RoomEnough
  <1> QED
    BY <1>1, <1>14, <1>15, <1>16, DividedIs DEF HeapState

(* A block with its header comes back.                                     *)
LEMMA SmallBack ==
  ASSUME NEW h, NEW B, NEW U, NEW K, HeapState(h, B, U, K), NEW t \in SmallOf(B, K),
         NEW g, g = slob_free(h, t.block - 1, h.units[t.block - 1])
  PROVE  HeapState(g, B, U, K \ {t})
  <1>1. PICK R : /\ RingOK(h, R)
                 /\ Tiles(FreeParts(h, R) \cup (Blocks(h, B, K) \cup PageParts(U)))
    BY StateOf
  <1>2. PICK L, P, y : L = K \ {t} /\ P = Blocks(h, B, L) /\ y = SmallPart(h, t)
    OBVIOUS
  <1>3. y.at = t.block - 1 /\ y.len = h.units[t.block - 1] /\ y.kind = "small" /\ y.of = t
    BY ONLY <1>2, SmallFields
  <1>4. t \in K /\ SmallOf(B, L) = SmallOf(B, K) \ {t}
    BY <1>2 DEF SmallOf
  <1>5. Blocks(h, B, K) = P \cup {y}
    <2>1. {SmallPart(h, u) : u \in SmallOf(B, K)}
          = {SmallPart(h, u) : u \in SmallOf(B, L)} \cup {y}
      BY <1>2, <1>4
    <2> QED
      BY <1>2, <2>1 DEF Blocks
  <1>6. y \notin P
    <2>1. \A u \in SmallOf(B, L) : SmallPart(h, u) # y
      <3>1. \A u \in SmallOf(B, L) : u # t
        BY <1>4
      <3>2. \A u : SmallPart(h, u).of = u
        BY ONLY SmallFields
      <3> QED
        BY ONLY <1>3, <3>1, <3>2
    <2>2. \A c \in B : EntryPart(c) # y /\ BigPart(c) # y
      <3>1. \A c : EntryPart(c).kind = "entry" /\ BigPart(c).kind = "big"
        BY ONLY EntryFields, BigFields
      <3> QED
        BY <1>3, <3>1
    <2> QED
      BY <1>2, <2>1, <2>2 DEF Blocks
  <1>7. PICK Q : Q = P \cup PageParts(U)
    OBVIOUS
  <1>8. y \notin Q /\ \A q \in Q : q.kind # "free"
    <2>1. \A p \in P : p.kind \in {"small", "entry", "big"}
      BY ONLY <1>2, BlockKinds
    <2>2. \A p \in PageParts(U) : p.kind = "page"
      BY ONLY BlockKinds
    <2> QED
      BY <1>3, <1>6, <1>7, <2>1, <2>2
  <1>9. PICK S : /\ RingOK(g, S) /\ Tiles(FreeParts(g, S) \cup Q)
                 /\ \A q \in Q : g.units[q.at] = h.units[q.at]
    <2>1. (P \cup {y}) \cup PageParts(U) = Q \cup {y}
      BY <1>7
    <2>2. Tiles(FreeParts(h, R) \cup (Q \cup {y}))
      BY <1>1, <1>5, <2>1
    <2>3. g = slob_free(h, y.at, y.len)
      BY <1>3
    <2>4. y.kind # "free"
      BY <1>3
    <2>5. Released(h, Q, y, g)
      BY ONLY <1>1, <1>8, <2>2, <2>3, <2>4, SlobFree
    <2> QED
      BY <2>5 DEF Released
  <1>10. /\ Blocks(g, B, L) = P
         /\ \A u \in SmallOf(B, L) : g.units[u.block - 1] = h.units[u.block - 1]
    <2>1. \A p \in Blocks(h, B, L) : g.units[p.at] = h.units[p.at]
      BY <1>2, <1>7, <1>9
    <2>2. Blocks(g, B, L) = Blocks(h, B, L)
      BY ONLY <2>1, SameBlocks
    <2>3. \A u \in SmallOf(B, L) : g.units[u.block - 1] = h.units[u.block - 1]
      BY ONLY <2>1, SameHeader
    <2> QED
      BY ONLY <1>2, <2>2, <2>3
  <1>11. Divided(g, B, U, L)
    BY <1>7, <1>9, <1>10 DEF Divided
  <1>12. HeapRecords(B, U, L)
    <2>1. HeapRecords(B, U, K)
      BY DEF HeapState
    <2>2. IsFiniteSet(L)
      BY <1>2, <2>1, FS_Subset DEF HeapRecords
    <2> QED
      BY <1>2, <2>1, <2>2 DEF HeapRecords
  <1>13. RoomEnough(g, B, L)
    <2>1. RoomEnough(h, B, K)
      BY DEF HeapState
    <2> QED
      BY <1>2, <1>4, <1>10, <2>1 DEF RoomEnough
  <1> QED
    BY <1>2, <1>11, <1>12, <1>13, DividedIs DEF HeapState

(* The pages of a big block and its entry come back.                       *)
LEMMA BigBack ==
  ASSUME NEW h, NEW B, NEW U, NEW K, HeapState(h, B, U, K), NEW t \in K,
         NEW e \in B, PageAt(e.pages) = t.block,
         NEW I, I = e.pages..(e.pages + Shift[e.order] - 1),
         NEW g, g = slob_free(h, e.bb, SLOB_UNITS(BIGBLOCK))
  PROVE  HeapState(g, B \ {e}, U \cup I, K \ {t})
  <1>1. PICK R : /\ RingOK(h, R)
                 /\ Tiles(FreeParts(h, R) \cup (Blocks(h, B, K) \cup PageParts(U)))
    BY StateOf
  <1>2. PICK C, L, V : C = B \ {e} /\ L = K \ {t} /\ V = U \cup I
    OBVIOUS
  <1>3. PICK F, P, y, z : /\ F = FreeParts(h, R) /\ P = Blocks(h, C, L)
                          /\ y = EntryPart(e) /\ z = BigPart(e)
    OBVIOUS
  <1>4. HeapRecords(B, U, K) /\ RoomEnough(h, B, K)
    BY DEF HeapState
  <1>5. e.bb \in Nat /\ e.order \in Nat /\ e.pages \in Nat
    BY <1>4 DEF HeapRecords
  <1>6. PICK m \in Nat \ {0}, first \in Nat : m = Shift[e.order] /\ first = e.pages
    BY <1>5, ShiftGrows
  <1>7. /\ y.at = e.bb /\ y.len = SLOB_UNITS(BIGBLOCK) /\ y.kind = "entry" /\ y.of = e
        /\ z.at = PageAt(first) /\ z.len = PageAt(m) /\ z.kind = "big" /\ z.of = e
        /\ z = Part("big", e, PageAt(first), PageAt(m))
    <2>1. y.at = e.bb /\ y.len = SLOB_UNITS(BIGBLOCK) /\ y.kind = "entry" /\ y.of = e
      BY ONLY <1>3, EntryFields
    <2>2. /\ z.at = PageAt(first) /\ z.len = PageAt(m) /\ z.kind = "big" /\ z.of = e
      BY ONLY <1>3, <1>6, BigFields
    <2> QED
      BY <1>3, <1>6, <2>1, <2>2 DEF BigPart
  <1>8. SmallOf(C, L) = SmallOf(B, K)
    <2>1. \A u \in L : u \in K /\ u.block # PageAt(e.pages)
      BY <1>2, <1>4 DEF HeapRecords
    <2> QED
      BY <1>2, <2>1 DEF SmallOf
  <1>9. Blocks(h, B, K) = P \cup {y, z}
    <2>1. {EntryPart(c) : c \in B} = {EntryPart(c) : c \in C} \cup {y}
      BY <1>2, <1>3
    <2>2. {BigPart(c) : c \in B} = {BigPart(c) : c \in C} \cup {z}
      BY <1>2, <1>3
    <2> QED
      BY ONLY <1>3, <1>8, <2>1, <2>2 DEF Blocks
  <1>10. y \notin P /\ z \notin P
    <2>1. \A c : EntryPart(c).kind = "entry" /\ EntryPart(c).of = c
      BY ONLY EntryFields
    <2>2. \A c : BigPart(c).kind = "big" /\ BigPart(c).of = c
      BY ONLY BigFields
    <2>3. \A u : SmallPart(h, u).kind = "small"
      BY ONLY SmallFields
    <2>4. ASSUME NEW p \in P PROVE p # y /\ p # z
      <3>1. CASE \E u \in SmallOf(C, L) : p = SmallPart(h, u)
        BY <1>7, <2>3, <3>1
      <3>2. CASE \E c \in C : p = EntryPart(c)
        BY <1>2, <1>7, <2>1, <3>2
      <3>3. CASE \E c \in C : p = BigPart(c)
        BY <1>2, <1>7, <2>2, <3>3
      <3> QED
        BY <1>3, <3>1, <3>2, <3>3 DEF Blocks
    <2> QED
      BY <2>4
  <1>11. PICK W : W = F \cup (Blocks(h, B, K) \cup PageParts(U))
    OBVIOUS
  <1>12. Tiles(W) /\ z \in W /\ y \in W
    BY <1>1, <1>3, <1>9, <1>11
  <1>13. PageAt(first) \in Nat /\ PageAt(m) \in Nat \ {0}
    BY PageNumbers
  <1>14. Tiles((W \ {z}) \cup PageParts(I))
    <2>1. PICK lo \in Nat, hi \in Nat : /\ lo = PageAt(first) /\ hi = PageAt(first) + PageAt(m)
                                        /\ lo < hi
      BY ONLY <1>13
    <2>2. I = first..(first + m - 1)
      BY <1>6
    <2>3. Fills(PageParts(I), lo, hi)
      BY <2>1, <2>2, PageRun
    <2>4. Fills({z}, lo, hi)
      BY ONLY <1>7, <1>13, <2>1, OnePart
    <2>5. PICK Q, N : Q = {z} /\ N = PageParts(I)
      OBVIOUS
    <2>6. /\ Fills(W, PageUnits, Limit) /\ PageUnits \in Int /\ Limit \in Int
          /\ Q \in SUBSET W /\ Fills(Q, lo, hi) /\ Fills(N, lo, hi)
      <3>1. Fills(W, PageUnits, Limit)
        BY <1>12 DEF Tiles
      <3>2. PageUnits \in Int /\ Limit \in Int
        BY AddrFacts
      <3> QED
        BY ONLY <1>12, <2>3, <2>4, <2>5, <3>1, <3>2
    <2>7. Fills((W \ Q) \cup N, PageUnits, Limit)
      BY ONLY <2>1, <2>6, Exchange
    <2> QED
      BY <2>5, <2>7 DEF Tiles
  <1>15. PICK Q : Q = P \cup PageParts(V)
    OBVIOUS
  <1>16. y \notin Q /\ \A q \in Q : q.kind # "free"
    <2>1. \A p \in P : p.kind \in {"small", "entry", "big"}
      BY ONLY <1>3, BlockKinds
    <2>2. \A p \in PageParts(V) : p.kind = "page"
      BY ONLY BlockKinds
    <2> QED
      BY <1>7, <1>10, <1>15, <2>1, <2>2
  <1>17. (W \ {z}) \cup PageParts(I) = F \cup (Q \cup {y})
    <2>1. PageParts(V) = PageParts(U) \cup PageParts(I)
      BY <1>2 DEF PageParts
    <2>2. \A p \in F : p.kind = "free"
      BY ONLY <1>3, FreeKinds
    <2>3. \A p \in PageParts(U) : p.kind = "page"
      BY ONLY BlockKinds
    <2>4. z \notin F /\ z \notin PageParts(U) /\ y # z
      BY <1>7, <2>2, <2>3
    <2> QED
      BY ONLY <1>9, <1>10, <1>11, <1>15, <2>1, <2>4
  <1>18. PICK S : /\ RingOK(g, S) /\ Tiles(FreeParts(g, S) \cup Q)
                  /\ \A q \in Q : g.units[q.at] = h.units[q.at]
    <2>1. Tiles(FreeParts(h, R) \cup (Q \cup {y}))
      BY ONLY <1>3, <1>14, <1>17
    <2>2. g = slob_free(h, y.at, y.len)
      BY <1>7
    <2>3. y.kind # "free"
      BY <1>7
    <2>4. Released(h, Q, y, g)
      BY ONLY <1>1, <1>16, <2>1, <2>2, <2>3, SlobFree
    <2> QED
      BY <2>4 DEF Released
  <1>19. /\ Blocks(g, C, L) = P
         /\ \A u \in SmallOf(C, L) : g.units[u.block - 1] = h.units[u.block - 1]
    <2>1. \A p \in Blocks(h, C, L) : g.units[p.at] = h.units[p.at]
      BY <1>3, <1>15, <1>18
    <2>2. Blocks(g, C, L) = Blocks(h, C, L)
      BY ONLY <2>1, SameBlocks
    <2>3. \A u \in SmallOf(C, L) : g.units[u.block - 1] = h.units[u.block - 1]
      BY ONLY <2>1, SameHeader
    <2> QED
      BY ONLY <1>3, <2>2, <2>3
  <1>20. Divided(g, C, V, L)
    BY <1>15, <1>18, <1>19 DEF Divided
  <1>21. I \subseteq SlobPages
    <2>1. PageUnits <= PageAt(first) /\ PageAt(first) + PageAt(m) <= Limit
      BY <1>7, <1>12 DEF Tiles, Fills
    <2>2. /\ PageAt(first + m) = PageAt(first) + PageAt(m) /\ PageAt(1) = PageUnits
          /\ PageAt(0) = 0 /\ Limit = PageAt(NPages + 1)
      BY PagePlaces
    <2>3. PageUnits \in Nat \ {0} /\ NPages \in Nat
      BY AddrFacts, SlobSizes
    <2>4. first >= 1
      <3>1. first = 0 => PageAt(first) = 0
        BY <2>2
      <3> QED
        BY <2>1, <2>3, <3>1
    <2>5. ~(NPages + 1 < first + m)
      <3>1. SUFFICES ASSUME NPages + 1 < first + m PROVE FALSE
        OBVIOUS
      <3>2. NPages + 1 \in Int /\ first + m \in Int
        BY <2>3
      <3>3. PageAt(NPages + 1) + PageUnits <= PageAt(first + m)
        BY ONLY <3>1, <3>2, PagePlaces
      <3>4. Limit \in Nat
        BY AddrFacts
      <3> QED
        BY ONLY <1>13, <2>1, <2>2, <2>3, <3>3, <3>4
    <2> QED
      BY <1>6, <2>3, <2>4, <2>5 DEF SlobPages
  <1>22. HeapRecords(C, V, L)
    <2>1. IsFiniteSet(L) /\ IsFiniteSet(C)
      BY <1>2, <1>4, FS_Subset DEF HeapRecords
    <2>2. V \subseteq SlobPages
      BY <1>2, <1>4, <1>21 DEF HeapRecords
    <2> QED
      BY <1>2, <1>4, <2>1, <2>2 DEF HeapRecords
  <1>23. RoomEnough(g, C, L)
    BY <1>2, <1>4, <1>8, <1>19 DEF RoomEnough
  <1> QED
    BY <1>2, <1>20, <1>22, <1>23, DividedIs DEF HeapState
-----------------------------------------------------------------------------
(* The calls.                                                              *)
LEMMA SmallCall ==
  ASSUME HeapInv, NEW size \in Sizes, kmalloc_small(size)
  PROVE  HeapInv'
  <1>1. PICK r \in slob_alloc(size + SLOB_UNIT) :
           /\ heap' = r.heap /\ unused' = r.unused
           /\ taken' = IF r.block = NoBlock THEN taken
                       ELSE taken \cup {[block |-> r.block + 1, size |-> size]}
    BY DEF kmalloc_small
  <1>2. bigblocks' = bigblocks /\ size < PAGE_SIZE - SLOB_UNIT
    BY DEF kmalloc_small
  <1>3. PICK h, B, U, K : h = heap /\ B = bigblocks /\ U = unused /\ K = taken
    OBVIOUS
  <1>4. HeapState(h, B, U, K)
    BY <1>3 DEF HeapInv
  <1>5. PICK R : RingOK(h, R) /\ Tiles(FreeParts(h, R) \cup (Blocks(h, B, K) \cup PageParts(U)))
    BY <1>4, StateOf
  <1>6. size \in Nat \ {0} /\ size + 2 * SLOB_UNIT < PAGE_SIZE
    BY <1>2, SlobAssumption
  <1>7. PICK units \in Nat : /\ units = SLOB_UNITS(size + SLOB_UNIT) /\ units >= 2
                             /\ units <= PageUnits /\ size <= (units - 1) * SLOB_UNIT
    BY <1>6, SmallUnits
  <1>8. PICK P : P = Blocks(h, B, K)
    OBVIOUS
  <1>9. Allocated(P, units, r) \/ NotAllocated(r)
    <2>1. \A p \in P : p.kind \in {"small", "entry", "big"}
      BY ONLY <1>8, BlockKinds
    <2>2. RingOK(heap, R) /\ Tiles(FreeParts(heap, R) \cup (P \cup PageParts(unused)))
      BY ONLY <1>3, <1>5, <1>8
    <2>3. 2 <= units /\ units <= PageUnits /\ units \in Nat
      BY <1>7
    <2>4. PICK wanted : wanted = size + SLOB_UNIT
      OBVIOUS
    <2>5. r \in slob_alloc(wanted) /\ units = SLOB_UNITS(wanted)
      BY ONLY <1>1, <1>7, <2>4
    <2> QED
      BY ONLY <2>1, <2>2, <2>3, <2>5, SlobAlloc
  <1>10. CASE NotAllocated(r)
    BY <1>1, <1>2, <1>10, SMT DEF NotAllocated, HeapInv
  <1>11. CASE Allocated(P, units, r)
    <2>1. PICK g, V, b, t, L : /\ g = r.heap /\ V = r.unused /\ b = r.block
                               /\ t = [block |-> b + 1, size |-> size] /\ L = K \cup {t}
      OBVIOUS
    <2>2. /\ b \in Nat \ {0} /\ g.units[b] = units /\ V \in SUBSET U
          /\ \A p \in Blocks(h, B, K) : g.units[p.at] = h.units[p.at]
      BY <1>3, <1>8, <1>11, <2>1 DEF Allocated
    <2>3. PICK S : /\ RingOK(g, S)
                   /\ Tiles(FreeParts(g, S) \cup ((P \cup PageParts(V)) \cup {Held(b, units)}))
      BY <1>11, <2>1 DEF Allocated
    <2>4. Tiles(FreeParts(g, S) \cup ((Blocks(h, B, K) \cup PageParts(V)) \cup {Held(b, units)}))
      BY ONLY <1>8, <2>3
    <2>5. HeapState(g, B, V, K \cup {t})
      BY ONLY <1>4, <1>6, <1>7, <2>1, <2>2, <2>3, <2>4, SmallGiven
    <2>6. heap' = g /\ bigblocks' = B /\ unused' = V /\ taken' = K \cup {t}
      BY <1>1, <1>2, <1>3, <2>1, <2>2 DEF NoBlock
    <2> QED
      BY <2>5, <2>6, SMT DEF HeapInv
  <1> QED
    BY <1>9, <1>10, <1>11

LEMMA BigCall ==
  ASSUME HeapInv, NEW size \in Sizes, kmalloc_big(size)
  PROVE  HeapInv'
  <1>1. PICK r, m, k, runs :
          /\ r \in slob_alloc(BIGBLOCK) /\ k = find_order(size) /\ m = Shift[k]
          /\ runs = {q \in SlobPages : q..(q + m - 1) \subseteq r.unused}
          /\ IF r.block # NoBlock /\ runs # {}
             THEN \E q \in runs :
                    /\ heap' = r.heap
                    /\ unused' = r.unused \ (q..(q + m - 1))
                    /\ bigblocks' = bigblocks \cup {[bb |-> r.block, order |-> k, pages |-> q]}
                    /\ taken' = taken \cup {[block |-> q * PageUnits, size |-> size]}
             ELSE /\ heap' = IF r.block = NoBlock THEN r.heap
                             ELSE slob_free(r.heap, r.block, SLOB_UNITS(BIGBLOCK))
                  /\ unused' = r.unused /\ bigblocks' = bigblocks /\ taken' = taken
    BY Zenon DEF kmalloc_big
  <1>2. size \in Nat \ {0} /\ k \in Nat /\ size <= Shift[k] * PAGE_SIZE
    BY <1>1, OrderIs, SlobAssumption
  <1>3. PICK h, B, U, K : h = heap /\ B = bigblocks /\ U = unused /\ K = taken
    OBVIOUS
  <1>4. HeapState(h, B, U, K)
    BY <1>3 DEF HeapInv
  <1>5. PICK R : RingOK(h, R) /\ Tiles(FreeParts(h, R) \cup (Blocks(h, B, K) \cup PageParts(U)))
    BY <1>4, StateOf
  <1>7. PICK units \in Nat : /\ units = SLOB_UNITS(BIGBLOCK) /\ 2 <= units /\ units <= PageUnits
    BY EntryUnits
  <1>8. PICK P : P = Blocks(h, B, K)
    OBVIOUS
  <1>9. Allocated(P, units, r) \/ NotAllocated(r)
    <2>1. \A p \in P : p.kind \in {"small", "entry", "big"}
      BY ONLY <1>8, BlockKinds
    <2>2. RingOK(heap, R) /\ Tiles(FreeParts(heap, R) \cup (P \cup PageParts(unused)))
      BY ONLY <1>3, <1>5, <1>8
    <2>5. r \in slob_alloc(BIGBLOCK)
      BY ONLY <1>1
    <2> QED
      BY ONLY <1>7, <2>1, <2>2, <2>5, SlobAlloc
  <1>10. CASE NotAllocated(r)
    <2>1. heap' = heap /\ unused' = unused /\ bigblocks' = bigblocks /\ taken' = taken
      BY <1>1, <1>10, Zenon DEF NotAllocated
    <2> QED
      BY <2>1, SMT DEF HeapInv
  <1>11. CASE Allocated(P, units, r)
    <2>1. PICK g, V, b : g = r.heap /\ V = r.unused /\ b = r.block
      OBVIOUS
    <2>2. /\ b \in Nat \ {0} /\ g.units[b] = units /\ V \in SUBSET U
          /\ \A p \in P : g.units[p.at] = h.units[p.at]
      BY <1>3, <1>11, <2>1 DEF Allocated
    <2>3. PICK S : /\ RingOK(g, S)
                   /\ Tiles(FreeParts(g, S) \cup ((P \cup PageParts(V)) \cup {Held(b, units)}))
      BY <1>11, <2>1 DEF Allocated
    <2>4. r.block # NoBlock
      BY <2>1, <2>2 DEF NoBlock
    <2>5. CASE runs # {}
      <3>1. PICK q \in runs :
              /\ heap' = r.heap /\ unused' = r.unused \ (q..(q + m - 1))
              /\ bigblocks' = bigblocks \cup {[bb |-> r.block, order |-> k, pages |-> q]}
              /\ taken' = taken \cup {[block |-> q * PageUnits, size |-> size]}
        BY <1>1, <2>4, <2>5, Zenon
      <3>2. PICK first \in Nat : first = q
        BY <1>1, SlobSizes DEF SlobPages
      <3>3. PICK I, e, t : /\ I = first..(first + Shift[k] - 1)
                           /\ e = [bb |-> b, order |-> k, pages |-> first]
                           /\ t = [block |-> PageAt(first), size |-> size]
        OBVIOUS
      <3>4. I \in SUBSET V
        BY <1>1, <2>1, <3>2, <3>3
      <3>5. Tiles(FreeParts(g, S) \cup ((Blocks(h, B, K) \cup PageParts(V)) \cup {Held(b, units)}))
            /\ \A p \in Blocks(h, B, K) : g.units[p.at] = h.units[p.at]
        BY ONLY <1>8, <2>2, <2>3
      <3>6. HeapState(g, B \cup {e}, V \ I, K \cup {t})
        BY ONLY <1>2, <1>4, <1>7, <2>2, <2>3, <3>2, <3>3, <3>4, <3>5, BigGiven
      <3>7. /\ heap' = g /\ bigblocks' = B \cup {e} /\ unused' = V \ I
            /\ taken' = K \cup {t}
        BY <1>1, <1>3, <2>1, <3>1, <3>2, <3>3 DEF PageAt
      <3> QED
        BY <3>6, <3>7, SMT DEF HeapInv
    <2>6. CASE runs = {}
      <3>1. PICK f : f = slob_free(g, b, units)
        OBVIOUS
      <3>2. heap' = f /\ bigblocks' = B /\ unused' = V /\ taken' = K
        BY <1>1, <1>3, <1>7, <2>1, <2>4, <2>6, <3>1, Zenon
      <3>3. PICK Q, s : Q = P \cup PageParts(V) /\ s = Held(b, units)
        OBVIOUS
      <3>4. s.at = b /\ s.len = units /\ s.kind = "held"
        BY ONLY <3>3, HeldFields
      <3>5. s \notin Q /\ \A q \in Q : q.kind # "free"
        <4>1. \A p \in P : p.kind \in {"small", "entry", "big"}
          BY ONLY <1>8, BlockKinds
        <4>2. \A p \in PageParts(V) : p.kind = "page"
          BY ONLY BlockKinds
        <4> QED
          BY ONLY <3>3, <3>4, <4>1, <4>2
      <3>6. Tiles(FreeParts(g, S) \cup (Q \cup {s}))
        BY ONLY <2>3, <3>3
      <3>7. f = slob_free(g, s.at, s.len) /\ s.kind # "free"
        BY <3>1, <3>4
      <3>8. Released(g, Q, s, f)
        BY ONLY <2>3, <3>5, <3>6, <3>7, SlobFree
      <3>9. PICK T : /\ RingOK(f, T) /\ Tiles(FreeParts(f, T) \cup Q)
                     /\ \A q \in Q : f.units[q.at] = g.units[q.at]
        BY <3>8 DEF Released
      <3>10. /\ Tiles(FreeParts(f, T) \cup (Blocks(h, B, K) \cup PageParts(V)))
             /\ \A p \in Blocks(h, B, K) : f.units[p.at] = h.units[p.at]
        BY ONLY <1>8, <2>2, <3>3, <3>9
      <3>11. HeapState(f, B, V, K)
        BY ONLY <1>4, <2>2, <3>9, <3>10, NothingGiven
      <3> QED
        BY <3>2, <3>11, SMT DEF HeapInv
    <2> QED
      BY <2>5, <2>6
  <1> QED
    BY <1>9, <1>10, <1>11

LEMMA FreeCall ==
  ASSUME HeapInv, NEW t \in taken, kfree(t)
  PROVE  HeapInv'
  <1>1. PICK h, B, U, K : h = heap /\ B = bigblocks /\ U = unused /\ K = taken
    OBVIOUS
  <1>2. HeapState(h, B, U, K) /\ t \in K
    BY <1>1 DEF HeapInv
  <1>3. PICK big : big = {e \in bigblocks : e.pages * PageUnits = t.block}
    OBVIOUS
  <1>4. /\ taken' = taken \ {t}
        /\ IF big # {}
           THEN \E e \in big :
                  /\ bigblocks' = bigblocks \ {e}
                  /\ unused' = unused \cup e.pages..(e.pages + Shift[e.order] - 1)
                  /\ heap' = slob_free(heap, e.bb, SLOB_UNITS(BIGBLOCK))
           ELSE /\ heap' = slob_free(heap, t.block - 1, heap.units[t.block - 1])
                /\ bigblocks' = bigblocks /\ unused' = unused
    BY <1>3, Zenon DEF kfree
  <1>5. CASE big # {}
    <2>1. PICK e \in big :
            /\ bigblocks' = bigblocks \ {e}
            /\ unused' = unused \cup e.pages..(e.pages + Shift[e.order] - 1)
            /\ heap' = slob_free(heap, e.bb, SLOB_UNITS(BIGBLOCK))
      BY <1>4, <1>5, Zenon
    <2>2. e \in B /\ PageAt(e.pages) = t.block
      BY <1>1, <1>3 DEF PageAt
    <2>3. PICK I, g : /\ I = e.pages..(e.pages + Shift[e.order] - 1)
                      /\ g = slob_free(h, e.bb, SLOB_UNITS(BIGBLOCK))
      OBVIOUS
    <2>4. HeapState(g, B \ {e}, U \cup I, K \ {t})
      BY ONLY <1>2, <2>2, <2>3, BigBack
    <2>5. /\ heap' = g /\ bigblocks' = B \ {e} /\ unused' = U \cup I
          /\ taken' = K \ {t}
      BY <1>1, <1>4, <2>1, <2>3, Zenon
    <2> QED
      BY <2>4, <2>5, SMT DEF HeapInv
  <1>6. CASE big = {}
    <2>1. PICK g : g = slob_free(h, t.block - 1, h.units[t.block - 1])
      OBVIOUS
    <2>2. t \in SmallOf(B, K)
      BY <1>1, <1>2, <1>3, <1>6 DEF SmallOf, PageAt
    <2>3. HeapState(g, B, U, K \ {t})
      BY ONLY <1>2, <2>1, <2>2, SmallBack
    <2>4. heap' = g /\ bigblocks' = B /\ unused' = U /\ taken' = K \ {t}
      BY <1>1, <1>4, <1>6, <2>1, Zenon
    <2> QED
      BY <2>3, <2>4, SMT DEF HeapInv
  <1> QED
    BY <1>5, <1>6

LEMMA SlobStart ==
  ASSUME SlobInit
  PROVE  HeapInv
  <1>1. PICK h : h = heap
    OBVIOUS
  <1>2. /\ h = [units |-> [b \in Addrs |-> IF b = arena THEN 1 ELSE 0],
                next |-> [b \in Addrs |-> arena], slobfree |-> arena]
        /\ bigblocks = {} /\ unused = SlobPages /\ taken = {}
    BY <1>1 DEF SlobInit
  <1>3. PICK R : R = {arena}
    OBVIOUS
  <1>4. arena \in Addrs /\ arena = 0
    BY AddrFacts
  <1>5. /\ h \in HeapTypes /\ h.slobfree = arena /\ h.next[arena] = arena
        /\ h.units[arena] = 1
    BY <1>2, <1>4 DEF HeapTypes
  <1>6. RingOK(h, R)
    <2>1. Follows(R, arena, arena)
      BY <1>3, <1>4 DEF Follows
    <2>2. Chained(h, R)
      BY <1>3, <1>4, <1>5, <2>1 DEF Chained
    <2> QED
      BY <1>3, <1>4, <1>5, <2>2 DEF RingOK
  <1>7. FreeParts(h, R) = {} /\ Blocks(h, bigblocks, taken) = {}
    BY <1>2, <1>3 DEF FreeParts, Blocks, SmallOf
  <1>8. Tiles(PageParts(SlobPages))
    <2>1. NPages \in Nat \ {0} /\ SlobPages = 1..(1 + NPages - 1)
      BY SlobSizes DEF SlobPages
    <2>2. Fills(PageParts(SlobPages), PageAt(1), PageAt(1) + PageAt(NPages))
      <3>1. 1 \in Nat
        OBVIOUS
      <3> QED
        BY ONLY <2>1, <3>1, PageRun
    <2>3. PageAt(1) = PageUnits /\ Limit = PageAt(1) + PageAt(NPages)
      <3>1. PageAt(1) = PageUnits /\ Limit = PageAt(NPages + 1)
            /\ PageAt(NPages + 1) = PageAt(NPages) + PageUnits
            /\ PageAt(NPages) \in Int /\ PageUnits \in Int
        BY <2>1, PagePlaces, AddrFacts
      <3> QED
        BY ONLY <3>1
    <2> QED
      BY ONLY <2>2, <2>3 DEF Tiles
  <1>9. Divided(h, bigblocks, unused, taken)
    <2>1. FreeParts(h, R) \cup (Blocks(h, bigblocks, taken) \cup PageParts(unused))
          = PageParts(SlobPages)
      BY <1>2, <1>7
    <2> QED
      BY <1>6, <1>8, <2>1 DEF Divided
  <1>10. HeapRecords(bigblocks, unused, taken) /\ RoomEnough(h, bigblocks, taken)
    BY <1>2, FS_EmptySet DEF HeapRecords, RoomEnough, SmallOf
  <1> QED
    BY <1>1, <1>9, <1>10, DividedIs DEF HeapState, HeapInv

LEMMA SlobStep ==
  ASSUME HeapInv, [SlobNext]_slob_vars
  PROVE  HeapInv'
  <1>1. CASE UNCHANGED slob_vars
    BY <1>1, SMT DEF slob_vars, HeapInv
  <1>2. CASE SlobNext
    <2>1. CASE \E size \in Sizes : kmalloc_small(size)
      BY <2>1, SmallCall
    <2>2. CASE \E size \in Sizes : kmalloc_big(size)
      BY <2>2, BigCall
    <2>3. CASE \E t \in taken : kfree(t)
      BY <2>3, FreeCall
    <2> QED
      BY <1>2, <2>1, <2>2, <2>3 DEF SlobNext
  <1> QED
    BY <1>1, <1>2

(* The heap is whole in every reachable state: the ring holds the free     *)
(* blocks in the order of their addresses, and the memory is divided among *)
(* the free blocks, what the callers hold and the pages not yet used.      *)
THEOREM SlobInvariant == SlobSpec => []HeapInv
  <1>1. SlobInit => HeapInv
    BY SlobStart
  <1>2. HeapInv /\ [SlobNext]_slob_vars => HeapInv'
    BY SlobStep
  <1> QED
    BY <1>1, <1>2, PTL DEF SlobSpec
-----------------------------------------------------------------------------
(* What HeapOK counts.                                                     *)
LEMMA SameCount ==
  ASSUME NEW S, IsFiniteSet(S), NEW T, NEW f \in [S -> T],
         \A x, y \in S : f[x] = f[y] => x = y, \A y \in T : \E x \in S : f[x] = y
  PROVE  IsFiniteSet(T) /\ Cardinality(T) = Cardinality(S)
  <1>1. f \in Bijection(S, T)
    BY DEF Bijection, Injection, Surjection, IsInjective
  <1>2. ExistsBijection(S, T)
    BY <1>1 DEF ExistsBijection
  <1> QED
    BY <1>2, FS_Bijection

LEMMA SumCount ==
  ASSUME NEW S, IsFiniteSet(S), NEW T, IsFiniteSet(T), \A x \in S : x \notin T
  PROVE  IsFiniteSet(S \cup T) /\ Cardinality(S \cup T) = Cardinality(S) + Cardinality(T)
  <1>1. S \cap T = {}
    OBVIOUS
  <1>2. Cardinality(S) \in Nat /\ Cardinality(T) \in Nat /\ Cardinality(S \cap T) = 0
    <2>1. Cardinality({}) = 0
      BY FS_EmptySet
    <2> QED
      BY <1>1, <2>1, FS_CardinalityType
  <1>3. /\ IsFiniteSet(S \cup T)
        /\ Cardinality(S \cup T) = Cardinality(S) + Cardinality(T) - Cardinality(S \cap T)
    BY FS_Union
  <1> QED
    BY ONLY <1>2, <1>3

LEMMA PartsCount ==
  ASSUME NEW h, NEW R, NEW B, NEW U, NEW K, IsFiniteSet(R), arena \in R,
         IsFiniteSet(B), IsFiniteSet(U), IsFiniteSet(K)
  PROVE  /\ IsFiniteSet(HeapParts(h, R, B, U, K))
         /\ Cardinality(HeapParts(h, R, B, U, K)) =
              Cardinality(R) - 1 + Cardinality(SmallOf(B, K)) + 2 * Cardinality(B)
              + Cardinality(U)
  <1>1. PICK Z, Sm : Z = R \ {arena} /\ Sm = SmallOf(B, K)
    OBVIOUS
  <1>2. IsFiniteSet(Z) /\ Cardinality(Z) = Cardinality(R) - 1
    BY <1>1, FS_RemoveElement
  <1>3. IsFiniteSet(Sm)
    <2>1. Sm \in SUBSET K
      BY <1>1 DEF SmallOf
    <2> QED
      BY <2>1, FS_Subset
  <1>4. PICK A, C, D, E, F : /\ A = FreeParts(h, R) /\ C = {SmallPart(h, t) : t \in Sm}
                             /\ D = {EntryPart(e) : e \in B} /\ E = {BigPart(e) : e \in B}
                             /\ F = PageParts(U)
    OBVIOUS
  <1>5. IsFiniteSet(A) /\ Cardinality(A) = Cardinality(Z)
    <2>1. PICK f : f = [b \in Z |-> FreePart(h, b)]
      OBVIOUS
    <2>2. \A b : FreePart(h, b).of = b
      BY PartFields DEF FreePart
    <2>3. f \in [Z -> A] /\ \A y \in A : \E x \in Z : f[x] = y
      BY <1>1, <1>4, <2>1 DEF FreeParts
    <2>4. \A x, y \in Z : f[x] = f[y] => x = y
      BY ONLY <2>1, <2>2
    <2> QED
      BY ONLY <1>2, <2>3, <2>4, SameCount
  <1>6. IsFiniteSet(C) /\ Cardinality(C) = Cardinality(Sm)
    <2>1. PICK f : f = [t \in Sm |-> SmallPart(h, t)]
      OBVIOUS
    <2>2. \A t : SmallPart(h, t).of = t
      BY SmallFields
    <2>3. f \in [Sm -> C] /\ \A y \in C : \E x \in Sm : f[x] = y
      BY <1>4, <2>1
    <2>4. \A x, y \in Sm : f[x] = f[y] => x = y
      BY ONLY <2>1, <2>2
    <2> QED
      BY ONLY <1>3, <2>3, <2>4, SameCount
  <1>7. IsFiniteSet(D) /\ Cardinality(D) = Cardinality(B)
    <2>1. PICK f : f = [e \in B |-> EntryPart(e)]
      OBVIOUS
    <2>2. \A e : EntryPart(e).of = e
      BY EntryFields
    <2>3. f \in [B -> D] /\ \A y \in D : \E x \in B : f[x] = y
      BY <1>4, <2>1
    <2>4. \A x, y \in B : f[x] = f[y] => x = y
      BY ONLY <2>1, <2>2
    <2>5. IsFiniteSet(B)
      OBVIOUS
    <2> QED
      BY ONLY <2>3, <2>4, <2>5, SameCount
  <1>8. IsFiniteSet(E) /\ Cardinality(E) = Cardinality(B)
    <2>1. PICK f : f = [e \in B |-> BigPart(e)]
      OBVIOUS
    <2>2. \A e : BigPart(e).of = e
      BY BigFields
    <2>3. f \in [B -> E] /\ \A y \in E : \E x \in B : f[x] = y
      BY <1>4, <2>1
    <2>4. \A x, y \in B : f[x] = f[y] => x = y
      BY ONLY <2>1, <2>2
    <2>5. IsFiniteSet(B)
      OBVIOUS
    <2> QED
      BY ONLY <2>3, <2>4, <2>5, SameCount
  <1>9. IsFiniteSet(F) /\ Cardinality(F) = Cardinality(U)
    <2>1. PICK f : f = [p \in U |-> PagePart(p)]
      OBVIOUS
    <2>2. \A p : PagePart(p).of = p
      BY PageFields
    <2>3. f \in [U -> F] /\ \A y \in F : \E x \in U : f[x] = y
      BY <1>4, <2>1 DEF PageParts
    <2>4. \A x, y \in U : f[x] = f[y] => x = y
      BY ONLY <2>1, <2>2
    <2>5. IsFiniteSet(U)
      OBVIOUS
    <2> QED
      BY ONLY <2>3, <2>4, <2>5, SameCount
  <1>10. /\ \A p \in A : p.kind = "free"
         /\ \A p \in C : p.kind = "small"
         /\ \A p \in D : p.kind = "entry"
         /\ \A p \in E : p.kind = "big"
         /\ \A p \in F : p.kind = "page"
    <2>1. \A p \in A : p.kind = "free"
      BY ONLY <1>4, FreeKinds
    <2>2. \A p \in C : p.kind = "small"
      BY ONLY <1>4, SmallFields
    <2>3. \A p \in D : p.kind = "entry"
      BY ONLY <1>4, EntryFields
    <2>4. \A p \in E : p.kind = "big"
      BY ONLY <1>4, BigFields
    <2>5. \A p \in F : p.kind = "page"
      BY ONLY <1>4, BlockKinds
    <2> QED
      BY ONLY <2>1, <2>2, <2>3, <2>4, <2>5
  <1>11. PICK X1, X2, X3, X4 : /\ X1 = C \cup D /\ X2 = X1 \cup E /\ X3 = X2 \cup F
                               /\ X4 = A \cup X3
    OBVIOUS
  <1>12. IsFiniteSet(X1) /\ Cardinality(X1) = Cardinality(C) + Cardinality(D)
    <2>1. \A x \in C : x \notin D
      BY <1>10
    <2> QED
      BY ONLY <1>6, <1>7, <1>11, <2>1, SumCount
  <1>13. IsFiniteSet(X2) /\ Cardinality(X2) = Cardinality(X1) + Cardinality(E)
    <2>1. \A x \in X1 : x \notin E
      BY <1>10, <1>11
    <2> QED
      BY ONLY <1>8, <1>11, <1>12, <2>1, SumCount
  <1>14. IsFiniteSet(X3) /\ Cardinality(X3) = Cardinality(X2) + Cardinality(F)
    <2>1. \A x \in X2 : x \notin F
      BY <1>10, <1>11
    <2> QED
      BY ONLY <1>9, <1>11, <1>13, <2>1, SumCount
  <1>15. IsFiniteSet(X4) /\ Cardinality(X4) = Cardinality(A) + Cardinality(X3)
    <2>1. \A x \in A : x \notin X3
      BY <1>10, <1>11
    <2> QED
      BY ONLY <1>5, <1>11, <1>14, <2>1, SumCount
  <1>16. X4 = HeapParts(h, R, B, U, K)
    BY ONLY <1>1, <1>4, <1>11 DEF HeapParts, Blocks
  <1>17. /\ Cardinality(R) \in Nat /\ Cardinality(Sm) \in Nat /\ Cardinality(B) \in Nat
         /\ Cardinality(U) \in Nat
    BY <1>3, FS_CardinalityType
  <1>18. Cardinality(X4) = Cardinality(R) - 1 + Cardinality(Sm) + 2 * Cardinality(B)
                           + Cardinality(U)
    BY ONLY <1>2, <1>5, <1>6, <1>7, <1>8, <1>9, <1>12, <1>13, <1>14, <1>15, <1>17
  <1> QED
    BY <1>1, <1>15, <1>16, <1>18

ExtentOf(p) == Extent(p.at, p.len)

LEMMA PiecesAre ==
  ASSUME NEW R, R = Ring
  PROVE  Pieces = {ExtentOf(p) : p \in HeapParts(heap, R, bigblocks, unused, taken)}
  <1>1. PICK h, B, U, K : h = heap /\ B = bigblocks /\ U = unused /\ K = taken
    OBVIOUS
  <1>2. PICK Sm : Sm = SmallOf(B, K)
    OBVIOUS
  <1>3. Sm = Small
    BY <1>1, <1>2 DEF SmallOf, Small, PageAt
  <1>4. Pieces = {Extent(b, h.units[b]) : b \in R \ {arena}}
                 \cup {Extent(t.block - 1, h.units[t.block - 1]) : t \in Sm}
                 \cup {Extent(e.bb, SLOB_UNITS(BIGBLOCK)) : e \in B}
                 \cup {Extent(PageAt(e.pages), PageAt(Shift[e.order])) : e \in B}
                 \cup {Extent(PageAt(p), PageUnits) : p \in U}
    BY <1>1, <1>3, Zenon DEF Pieces, PageAt
  <1>5. {Extent(b, h.units[b]) : b \in R \ {arena}} = {ExtentOf(p) : p \in FreeParts(h, R)}
    <2>1. \A b : ExtentOf(FreePart(h, b)) = Extent(b, h.units[b])
      BY PartFields DEF ExtentOf, FreePart
    <2> QED
      BY ONLY <2>1 DEF FreeParts
  <1>6. {Extent(t.block - 1, h.units[t.block - 1]) : t \in Sm}
        = {ExtentOf(p) : p \in {SmallPart(h, t) : t \in Sm}}
    <2>1. \A t : ExtentOf(SmallPart(h, t)) = Extent(t.block - 1, h.units[t.block - 1])
      BY SmallFields DEF ExtentOf
    <2> QED
      BY ONLY <2>1
  <1>7. {Extent(e.bb, SLOB_UNITS(BIGBLOCK)) : e \in B}
        = {ExtentOf(p) : p \in {EntryPart(e) : e \in B}}
    <2>1. \A e : ExtentOf(EntryPart(e)) = Extent(e.bb, SLOB_UNITS(BIGBLOCK))
      BY EntryFields DEF ExtentOf
    <2> QED
      BY ONLY <2>1
  <1>8. {Extent(PageAt(e.pages), PageAt(Shift[e.order])) : e \in B}
        = {ExtentOf(p) : p \in {BigPart(e) : e \in B}}
    <2>1. \A e : ExtentOf(BigPart(e)) = Extent(PageAt(e.pages), PageAt(Shift[e.order]))
      BY BigFields DEF ExtentOf
    <2> QED
      BY ONLY <2>1
  <1>9. {Extent(PageAt(p), PageUnits) : p \in U} = {ExtentOf(p) : p \in PageParts(U)}
    <2>1. \A p : ExtentOf(PagePart(p)) = Extent(PageAt(p), PageUnits)
      BY PageFields DEF ExtentOf
    <2> QED
      BY ONLY <2>1 DEF PageParts
  <1>10. PICK A, C, D, E, F : /\ A = FreeParts(h, R) /\ C = {SmallPart(h, t) : t \in Sm}
                              /\ D = {EntryPart(e) : e \in B} /\ E = {BigPart(e) : e \in B}
                              /\ F = PageParts(U)
    OBVIOUS
  <1>11. HeapParts(h, R, B, U, K) = A \cup ((C \cup D \cup E) \cup F)
    BY ONLY <1>2, <1>10 DEF HeapParts, Blocks
  <1>12. Pieces = {ExtentOf(p) : p \in A} \cup {ExtentOf(p) : p \in C}
                  \cup {ExtentOf(p) : p \in D} \cup {ExtentOf(p) : p \in E}
                  \cup {ExtentOf(p) : p \in F}
    BY ONLY <1>4, <1>5, <1>6, <1>7, <1>8, <1>9, <1>10
  <1>13. {ExtentOf(p) : p \in A} \cup {ExtentOf(p) : p \in C}
           \cup {ExtentOf(p) : p \in D} \cup {ExtentOf(p) : p \in E}
           \cup {ExtentOf(p) : p \in F}
         = {ExtentOf(p) : p \in A \cup ((C \cup D \cup E) \cup F)}
    OBVIOUS
  <1> QED
    BY ONLY <1>1, <1>11, <1>12, <1>13

(* The pieces of memory that fill an interval, as sets of addresses.       *)
Spread(W, X) ==
  /\ UNION X = PageUnits..(Limit - 1)
  /\ \A x, y \in X : x # y => x \cap y = {}
  /\ Cardinality(X) = Cardinality(W)

LEMMA ExtentsFill ==
  ASSUME NEW W, Tiles(W), IsFiniteSet(W), NEW X, X = {ExtentOf(p) : p \in W}
  PROVE  Spread(W, X)
  <1>1. /\ \A p \in W : /\ p.at \in Nat /\ p.len \in Nat \ {0}
                        /\ PageUnits <= p.at /\ p.at + p.len <= Limit
        /\ \A p, q \in W : p # q => Beside(p, q)
        /\ \A a \in PageUnits..(Limit - 1) : \E p \in W : p.at <= a /\ a < p.at + p.len
    BY DEF Tiles, Fills
  <1>2. PageUnits \in Nat /\ Limit \in Nat
    BY AddrFacts
  <1>3. \A p \in W : \A a : a \in ExtentOf(p) <=> a \in Int /\ p.at <= a /\ a < p.at + p.len
    BY <1>1 DEF ExtentOf, Extent
  <1>4. UNION X = PageUnits..(Limit - 1)
    <2>1. ASSUME NEW a \in UNION X PROVE a \in PageUnits..(Limit - 1)
      <3>1. PICK p \in W : a \in ExtentOf(p)
        OBVIOUS
      <3> QED
        BY <1>1, <1>2, <1>3, <3>1
    <2>2. ASSUME NEW a \in PageUnits..(Limit - 1) PROVE a \in UNION X
      <3>1. PICK p \in W : p.at <= a /\ a < p.at + p.len
        BY <1>1
      <3>2. a \in ExtentOf(p)
        BY <1>2, <1>3, <3>1
      <3> QED
        BY <3>2
    <2> QED
      BY <2>1, <2>2
  <1>5. \A p, q \in W : p # q => ExtentOf(p) \cap ExtentOf(q) = {}
    <2>1. SUFFICES ASSUME NEW p \in W, NEW q \in W, p # q,
                          NEW a, a \in ExtentOf(p), a \in ExtentOf(q)
                   PROVE  FALSE
      OBVIOUS
    <2>2. /\ a \in Int /\ p.at <= a /\ a < p.at + p.len /\ q.at <= a /\ a < q.at + q.len
          /\ p.at \in Nat /\ p.len \in Nat /\ q.at \in Nat /\ q.len \in Nat
      BY <1>1, <1>3, <2>1
    <2>3. Beside(p, q)
      BY <1>1, <2>1
    <2> QED
      BY <2>2, <2>3 DEF Beside
  <1>6. \A x, y \in X : x # y => x \cap y = {}
    <2>1. SUFFICES ASSUME NEW p \in W, NEW q \in W, ExtentOf(p) # ExtentOf(q)
                   PROVE  ExtentOf(p) \cap ExtentOf(q) = {}
      OBVIOUS
    <2> QED
      BY <1>5, <2>1
  <1>7. Cardinality(X) = Cardinality(W)
    <2>1. PICK f : f = [p \in W |-> ExtentOf(p)]
      OBVIOUS
    <2>2. f \in [W -> X] /\ \A y \in X : \E x \in W : f[x] = y
      BY <2>1
    <2>3. \A x, y \in W : f[x] = f[y] => x = y
      <3>1. SUFFICES ASSUME NEW p \in W, NEW q \in W, ExtentOf(p) = ExtentOf(q), p # q
                     PROVE  FALSE
        BY <2>1
      <3>2. p.at \in ExtentOf(p)
        BY <1>1, <1>3
      <3> QED
        BY <1>5, <3>1, <3>2
    <2>4. IsFiniteSet(W)
      OBVIOUS
    <2> QED
      BY ONLY <2>2, <2>3, <2>4, SameCount
  <1> QED
    BY <1>4, <1>6, <1>7 DEF Spread

LEMMA NextHigher ==
  ASSUME NEW h, NEW R, RingOK(h, R), NEW b \in R,
         NEW higher, higher = {c \in R : c > b}
  PROVE  h.next[b] = IF higher = {} THEN arena ELSE Min(higher)
  <1>1. /\ arena = 0 /\ \A x \in R : x \in Nat
        /\ h.next[b] \in R /\ Follows(R, b, h.next[b]) /\ b \in Nat
    BY RingFacts
  <1>2. CASE h.next[b] = arena /\ \A x \in R : x <= b
    <2>1. \A x \in R : x \in Nat /\ b \in Nat /\ ~(x > b)
      BY ONLY <1>1, <1>2
    <2>2. ASSUME NEW x \in higher PROVE FALSE
      BY <2>1
    <2>3. higher = {}
      BY ONLY <2>2
    <2> QED
      BY <1>2, <2>3
  <1>3. CASE b < h.next[b] /\ \A x \in R : x <= b \/ h.next[b] <= x
    <2>1. h.next[b] \in higher /\ \A x \in higher : h.next[b] <= x
      BY <1>1, <1>3
    <2>2. higher \in SUBSET Nat /\ higher # {}
      BY <1>1, <2>1
    <2>3. Min(higher) \in higher /\ \A x \in higher : Min(higher) <= x
      BY ONLY <2>2, MinIn
    <2>4. h.next[b] = Min(higher)
      BY <1>1, <2>1, <2>2, <2>3
    <2> QED
      BY <2>2, <2>4
  <1> QED
    BY <1>1, <1>2, <1>3 DEF Follows

LEMMA HeapIsOK ==
  ASSUME HeapInv
  PROVE  HeapOK
  <1>1. PICK h, B, U, K : h = heap /\ B = bigblocks /\ U = unused /\ K = taken
    OBVIOUS
  <1>2. PICK R : R = Ring
    OBVIOUS
  <1>3. RingOf(h) = R
    BY <1>1, <1>2, SlobAddrs DEF Ring, RingOf
  <1>4. /\ RingOK(h, R) /\ Tiles(HeapParts(h, R, B, U, K)) /\ HeapRecords(B, U, K)
        /\ RoomEnough(h, B, K)
    BY <1>1, <1>3 DEF HeapInv, HeapState
  <1>5. R \subseteq Addrs /\ arena \in R /\ \A b \in R : b + h.units[b] \notin R
    BY <1>4, RingFacts DEF RingOK
  <1>6. IsFiniteSet(R) /\ IsFiniteSet(B) /\ IsFiniteSet(U) /\ IsFiniteSet(K)
    <2>1. IsFiniteSet(SlobPages)
      BY SlobSizes, FS_Interval DEF SlobPages
    <2>2. U \in SUBSET SlobPages /\ R \in SUBSET Addrs
      BY <1>4, <1>5 DEF HeapRecords
    <2>3. IsFiniteSet(U) /\ IsFiniteSet(R)
      BY <2>1, <2>2, SlobAddrs, FS_Subset
    <2> QED
      BY <1>4, <2>3 DEF HeapRecords
  <1>7. PICK W, Sm : W = HeapParts(h, R, B, U, K) /\ Sm = SmallOf(B, K)
    OBVIOUS
  <1>8. /\ IsFiniteSet(W)
        /\ Cardinality(W) = Cardinality(R) - 1 + Cardinality(Sm) + 2 * Cardinality(B)
                            + Cardinality(U)
    BY ONLY <1>5, <1>6, <1>7, PartsCount
  <1>9. Pieces = {ExtentOf(p) : p \in W}
    BY <1>1, <1>2, <1>7, PiecesAre
  <1>10. /\ UNION Pieces = PageUnits..(Limit - 1)
         /\ \A x, y \in Pieces : x # y => x \cap y = {}
         /\ Cardinality(Pieces) = Cardinality(W)
    <2>1. Tiles(W)
      BY <1>4, <1>7
    <2>2. PICK X : X = Pieces
      OBVIOUS
    <2>3. X = {ExtentOf(p) : p \in W}
      BY ONLY <1>9, <2>2
    <2>5. IsFiniteSet(W)
      BY <1>8
    <2>4. Spread(W, X)
      BY ONLY <2>1, <2>3, <2>5, ExtentsFill
    <2> QED
      BY ONLY <2>2, <2>4 DEF Spread
  <1>11. PageUnits..(Limit - 1) = Addrs \ Extent(arena, PageUnits)
    BY SlobSizes DEF Extent
  <1>12. Sm = Small
    BY <1>1, <1>7 DEF SmallOf, Small, PageAt
  <1>13. \A b \in R : LET higher == {c \in R : c > b} IN
           /\ h.next[b] = IF higher = {} THEN arena ELSE Min(higher)
           /\ b + h.units[b] \notin R
    BY <1>4, <1>5, NextHigher
  <1>14. \A t \in Sm : t.size <= (h.units[t.block - 1] - 1) * SLOB_UNIT
    BY <1>4, <1>7 DEF RoomEnough
  <1>15. \A t \in K, e \in B : e.pages * PageUnits = t.block => t.size <= Shift[e.order] * PAGE_SIZE
    BY <1>4 DEF RoomEnough, PageAt
  <1>16. Cardinality(Pieces) = Cardinality(Ring) - 1 + Cardinality(Small)
                               + 2 * Cardinality(bigblocks) + Cardinality(unused)
    BY ONLY <1>1, <1>2, <1>8, <1>10, <1>12
  <1>17. UNION Pieces = Addrs \ Extent(arena, PageUnits)
    BY ONLY <1>10, <1>11
  <1> QED
    BY ONLY <1>1, <1>2, <1>10, <1>12, <1>13, <1>14, <1>15, <1>16, <1>17, Zenon DEF HeapOK

(* Nothing is lost, given out twice or cut too short over any sequence of  *)
(* kmalloc and kfree, the ring is in the order of the addresses and no two *)
(* free blocks touch: for every number of pages, size of a page, of a unit *)
(* and of bigblock_t, and for all the sizes that SlobAssumption allows.    *)
THEOREM SlobHeapOK == SlobSpec => []HeapOK
  <1>1. HeapInv => HeapOK
    BY HeapIsOK
  <1> QED
    BY <1>1, SlobInvariant, PTL
=============================================================================
