---------------------------- MODULE KeyboardProofs ----------------------------
(***************************************************************************)
(* The standard input of lab8 is a queue of characters, and none of its    *)
(* readers is forgotten: for every number of readers, every size of the    *)
(* two buffers and every burst of characters.                              *)
(***************************************************************************)
EXTENDS Keyboard, WellFoundedInduction, FiniteSetTheorems, TLAPS

C == CONSBUFSIZE
S == STDIN_BUFSIZE

(* The characters of a ring, from rpos to before wpos, are keys. *)
InRing(r, k) ==
  IF r.rpos <= r.wpos THEN r.rpos <= k /\ k < r.wpos ELSE r.rpos <= k \/ k < r.wpos

Ring == [buf : [0..(C - 1) -> Nat], rpos : 0..(C - 1), wpos : 0..(C - 1)]

RingOK(r) ==
  /\ r \in Ring
  /\ \A k \in 0..(C - 1) : InRing(r, k) => r.buf[k] \in Keys

Reader == [pc : {"out", "asleep", "awake"}, left : Nat, flags : {"interrupted", "kbd"}]

Typed ==
  /\ stdin_buffer \in [0..(S - 1) -> Nat]
  /\ p_rpos \in Nat /\ p_wpos \in Nat
  /\ wait_queue \in Seq(Procs)
  /\ reader \in [Procs -> Reader]

(* Who sleeps has found nothing to read and is in the wait queue, once;    *)
(* who is in it sleeps, or has been killed and has not run since.          *)
Waits ==
  /\ \A p \in Procs : Asleep(p) => Pending = 0 /\ \E k \in 1..Len(wait_queue) : wait_queue[k] = p
  /\ \A k \in 1..Len(wait_queue) :
       reader[wait_queue[k]].pc # "out" /\ reader[wait_queue[k]].flags = "interrupted"
  /\ \A j, k \in 1..Len(wait_queue) : wait_queue[j] = wait_queue[k] => j = k

IInv == RingOK(cons) /\ Typed /\ Pending \in 0..S /\ Waits
-----------------------------------------------------------------------------
LEMMA Sizes == C \in Nat \ {0} /\ S \in Nat \ {0} /\ Keys \subseteq Nat \ {0}
  BY KeyboardAssumption DEF C, S

(* Induction up to n. *)
LEMMA UpTo ==
  ASSUME NEW n \in Nat, NEW T, 0 \in T, \A k \in 1..n : k - 1 \in T => k \in T
  PROVE  \A k \in 0..n : k \in T
  <1> DEFINE D == {k \in 0..n : k \notin T}
  <1>1. SUFFICES ASSUME D # {} PROVE FALSE
    OBVIOUS
  <1>2. D \subseteq Nat
    OBVIOUS
  <1>3. PICK k \in D : \A j \in D : ~(<<j, k>> \in OpToRel(<, Nat))
    BY <1>1, <1>2, NatLessThanWellFounded, WFMin
  <1>4. k \in 1..n /\ k - 1 \in 0..n /\ k - 1 < k /\ k \notin T
    OBVIOUS
  <1>5. k - 1 \in D
    BY <1>4
  <1>6. <<k - 1, k>> \in OpToRel(<, Nat)
    BY <1>2, <1>4, <1>5, SMT DEF OpToRel
  <1> QED
    BY <1>3, <1>5, <1>6

LEMMA NextPlace ==
  ASSUME NEW n \in Nat \ {0}, NEW w \in 0..(n - 1)
  PROVE  (w + 1) % n = IF w + 1 = n THEN 0 ELSE w + 1
  OBVIOUS

(* Places less than a lap apart are different. *)
LEMMA Places ==
  ASSUME NEW n \in Nat \ {0}, NEW a \in Nat, NEW b \in Nat, a < b, b < a + n
  PROVE  a % n # b % n
  <1> DEFINE q == b \div n - a \div n
  <1>1. /\ a = n * (a \div n) + (a % n) /\ a \div n \in Int
        /\ b = n * (b \div n) + (b % n) /\ b \div n \in Int
    OBVIOUS
  <1>2. SUFFICES ASSUME a % n = b % n PROVE FALSE
    OBVIOUS
  <1>3. b - a = n * q /\ q \in Int
    BY <1>1, <1>2
  <1> HIDE DEF q
  <1>4. q > 0
    BY <1>3
  <1>5. n * q >= n
    BY <1>3, <1>4
  <1> QED
    BY <1>3, <1>5

(* A lap later it is the same place. *)
LEMMA SamePlace ==
  ASSUME NEW n \in Nat \ {0}, NEW a \in Nat
  PROVE  (a + n) % n = a % n /\ a % n \in 0..(n - 1)
  <1>1. PICK u, v : u = a % n /\ v = (a + n) % n
    OBVIOUS
  <1>2. PICK x \in Int : a = n * x + u /\ u \in 0..(n - 1)
    <2>1. a = n * (a \div n) + (a % n) /\ a \div n \in Int /\ a % n \in 0..(n - 1)
      OBVIOUS
    <2> QED
      BY <1>1, <2>1
  <1>3. PICK y \in Int : a + n = n * y + v /\ v \in 0..(n - 1)
    <2>1. /\ a + n = n * ((a + n) \div n) + ((a + n) % n)
          /\ (a + n) \div n \in Int /\ (a + n) % n \in 0..(n - 1)
      OBVIOUS
    <2> QED
      BY <1>1, <2>1
  <1>4. n * (1 + x - y) = n + n * x - n * y
    OBVIOUS
  <1>5. PICK z \in Int : z = 1 + x - y
    OBVIOUS
  <1>6. v - u = n * z
    BY <1>2, <1>3, <1>4, <1>5
  <1>7. z >= 1 => n * z >= n
    OBVIOUS
  <1>8. z <= -1 => n * z <= -n
    OBVIOUS
  <1>9. z = 0
    BY <1>2, <1>3, <1>6, <1>7, <1>8
  <1>10. v = u
    BY <1>2, <1>3, <1>6, <1>9
  <1> QED
    BY <1>1, <1>2, <1>10
-----------------------------------------------------------------------------
(* cons_intr: what a burst does to the ring, as a fold on the numbers of   *)
(* its characters.                                                         *)
Put(r, c) == [r EXCEPT !.buf[r.wpos] = c, !.wpos = (@ + 1) % CONSBUFSIZE]

Folds(g, ring, burst, m) ==
  g = [s \in SUBSET (1..m) |->
         IF s = {} THEN ring ELSE Put(g[s \ {Max(s)}], burst[Max(s)])]

LEMMA MaxIs ==
  ASSUME NEW k \in Nat, NEW s \in SUBSET (1..k), k \in s
  PROVE  Max(s) = k
  <1>1. k \in s /\ \A y \in s : k >= y
    OBVIOUS
  <1>2. \A x \in s : (\A y \in s : x >= y) => x = k
    OBVIOUS
  <1> QED
    BY <1>1, <1>2 DEF Max

LEMMA FoldsExists ==
  ASSUME NEW n \in Nat, NEW ring, NEW burst
  PROVE  \E g : Folds(g, ring, burst, n)
  <1> DEFINE T == {m \in 0..n : \E g : Folds(g, ring, burst, m)}
  <1>1. 0 \in T
    <2> DEFINE g == [s \in SUBSET (1..0) |-> ring]
    <2>1. \A s \in SUBSET (1..0) : s = {}
      OBVIOUS
    <2>2. g = [s \in SUBSET (1..0) |->
                 IF s = {} THEN ring ELSE Put(g[s \ {Max(s)}], burst[Max(s)])]
      BY <2>1
    <2>3. Folds(g, ring, burst, 0)
      BY <2>2, Zenon DEF Folds
    <2> HIDE DEF g
    <2> QED
      BY <2>3
  <1>2. ASSUME NEW k \in 1..n, k - 1 \in T PROVE k \in T
    <2>1. PICK g : Folds(g, ring, burst, k - 1)
      BY <1>2
    <2> DEFINE h == [s \in SUBSET (1..k) |->
                       IF k \in s THEN Put(g[s \ {k}], burst[k]) ELSE g[s]]
    <2>2. \A s \in SUBSET (1..k) : k \notin s => s \in SUBSET (1..(k - 1))
      OBVIOUS
    <2>3. \A s \in SUBSET (1..(k - 1)) :
            g[s] = IF s = {} THEN ring ELSE Put(g[s \ {Max(s)}], burst[Max(s)])
      BY <2>1 DEF Folds
    <2>4. \A s \in SUBSET (1..(k - 1)) : s \in SUBSET (1..k) /\ k \notin s /\ h[s] = g[s]
      OBVIOUS
    <2>5. \A s \in SUBSET (1..k) : k \in s => h[s] = Put(g[s \ {k}], burst[k])
      OBVIOUS
    <2>6. h \in [SUBSET (1..k) -> {h[s] : s \in SUBSET (1..k)}] /\ DOMAIN h = SUBSET (1..k)
      OBVIOUS
    <2> HIDE DEF h
    <2>7. ASSUME NEW s \in SUBSET (1..k)
          PROVE  h[s] = IF s = {} THEN ring ELSE Put(h[s \ {Max(s)}], burst[Max(s)])
      <3>1. CASE k \in s
        <4>1. Max(s) = k
          BY <3>1, MaxIs
        <4>2. s \ {k} \in SUBSET (1..(k - 1))
          OBVIOUS
        <4> QED
          BY <2>4, <2>5, <3>1, <4>1, <4>2
      <3>2. CASE k \notin s
        <4>1. s \in SUBSET (1..(k - 1)) /\ s \ {Max(s)} \in SUBSET (1..(k - 1))
          BY <2>2, <3>2
        <4> QED
          BY <2>3, <2>4, <4>1
      <3> QED
        BY <3>1, <3>2
    <2>8. Folds(h, ring, burst, k)
      BY <2>6, <2>7, Zenon DEF Folds
    <2> QED
      BY <2>8
  <1> HIDE DEF T
  <1>3. n \in T
    BY <1>1, <1>2, UpTo
  <1> QED
    BY <1>3 DEF T

LEMMA FoldsIs ==
  ASSUME NEW n \in Nat, NEW burst \in [1..n -> Keys], NEW ring
  PROVE  \E g : Folds(g, ring, burst, n) /\ cons_intr(ring, burst) = g[1..n]
  <1> DEFINE h == CHOOSE g : Folds(g, ring, burst, n)
  <1>1. Folds(h, ring, burst, n)
    BY FoldsExists
  <1>2. DOMAIN burst = 1..n
    OBVIOUS
  <1>3. cons_intr(ring, burst) = h[1..n]
    BY <1>2 DEF cons_intr, FoldLeft, MapThenFoldSet, Folds, Put
  <1> QED
    BY <1>1, <1>3

LEMMA PutOK ==
  ASSUME NEW r, RingOK(r), NEW c \in Keys
  PROVE  RingOK(Put(r, c))
  <1>1. /\ C \in Nat \ {0} /\ c \in Nat
        /\ r \in Ring /\ r.wpos \in 0..(C - 1) /\ r.rpos \in 0..(C - 1)
        /\ r.buf \in [0..(C - 1) -> Nat]
    BY Sizes DEF RingOK, Ring
  <1>2. PICK w : w = (r.wpos + 1) % CONSBUFSIZE
    OBVIOUS
  <1>3. w = (IF r.wpos + 1 = C THEN 0 ELSE r.wpos + 1) /\ w \in 0..(C - 1)
    <2>1. PICK v : v = r.wpos
      OBVIOUS
    <2>2. (v + 1) % C = IF v + 1 = C THEN 0 ELSE v + 1
      BY <1>1, <2>1, NextPlace
    <2>3. w = (v + 1) % C
      BY <1>2, <2>1 DEF C
    <2> QED
      BY <1>1, <2>1, <2>2, <2>3
  <1>4. PICK b : b = [r.buf EXCEPT ![r.wpos] = c]
    OBVIOUS
  <1>5. /\ b \in [0..(C - 1) -> Nat] /\ b[r.wpos] = c
        /\ \A k \in 0..(C - 1) : k # r.wpos => b[k] = r.buf[k]
    BY <1>1, <1>4
  <1>6. Put(r, c) = [r EXCEPT !.buf = b, !.wpos = w]
    BY <1>1, <1>2, <1>4 DEF Put, Ring
  <1>7. Put(r, c) = [buf |-> b, rpos |-> r.rpos, wpos |-> w]
    BY <1>1, <1>6 DEF Ring
  <1>8. PICK s : s = Put(r, c)
    OBVIOUS
  <1>9. s \in Ring /\ s.buf = b /\ s.rpos = r.rpos /\ s.wpos = w
    BY <1>1, <1>3, <1>5, <1>7, <1>8 DEF Ring
  <1>10. ASSUME NEW k \in 0..(C - 1), InRing(s, k) PROVE s.buf[k] \in Keys
    <2>1. CASE k = r.wpos
      BY <1>5, <1>9, <2>1
    <2>2. CASE k # r.wpos
      <3>1. InRing(r, k)
        <4>1. PICK v, u : v = r.wpos /\ u = r.rpos
          OBVIOUS
        <4>2. IF u <= w THEN u <= k /\ k < w ELSE u <= k \/ k < w
          BY <1>9, <1>10, <4>1 DEF InRing
        <4>3. IF u <= v THEN u <= k /\ k < v ELSE u <= k \/ k < v
          BY <1>1, <1>3, <2>2, <4>1, <4>2
        <4> QED
          BY <4>1, <4>3 DEF InRing
      <3> QED
        BY <1>1, <1>5, <1>9, <2>2, <3>1 DEF RingOK
    <2> QED
      BY <2>1, <2>2
  <1> QED
    BY <1>8, <1>9, <1>10 DEF RingOK

(* However long the burst is, what is in the ring are keys. *)
LEMMA BurstOK ==
  ASSUME NEW ring, RingOK(ring), NEW n \in Nat, NEW burst \in [1..n -> Keys]
  PROVE  RingOK(cons_intr(ring, burst))
  <1>1. PICK g : Folds(g, ring, burst, n) /\ cons_intr(ring, burst) = g[1..n]
    BY FoldsIs
  <1> DEFINE T == {k \in 0..n : RingOK(g[1..k])}
  <1>2. \A s \in SUBSET (1..n) :
          g[s] = IF s = {} THEN ring ELSE Put(g[s \ {Max(s)}], burst[Max(s)])
    BY <1>1 DEF Folds
  <1>3. 0 \in T
    <2>1. 1..0 = {} /\ 1..0 \in SUBSET (1..n) /\ 0 \in 0..n
      OBVIOUS
    <2>2. g[1..0] = ring
      BY <1>2, <2>1
    <2> QED
      BY <2>1, <2>2
  <1>4. ASSUME NEW k \in 1..n, k - 1 \in T PROVE k \in T
    <2>1. /\ 1..k \in SUBSET (1..n) /\ 1..k # {} /\ k \in 1..k
          /\ (1..k) \ {k} = 1..(k - 1)
      BY SMTT(30)
    <2>2. Max(1..k) = k
      BY <2>1, MaxIs
    <2>3. g[1..k] = Put(g[1..(k - 1)], burst[k])
      BY <1>2, <2>1, <2>2
    <2>4. burst[k] \in Keys
      OBVIOUS
    <2> QED
      BY <1>4, <2>3, <2>4, PutOK
  <1> HIDE DEF T
  <1>5. n \in T
    BY <1>3, <1>4, UpTo
  <1> QED
    BY <1>1, <1>5 DEF T
-----------------------------------------------------------------------------
(* The queue of n characters from position r of the buffer b. *)
QueueOf(b, r, n) == [k \in 1..n |-> b[(r + k - 1) % S]]

LEMMA QueueOfTyped ==
  ASSUME NEW b \in [0..(S - 1) -> Nat], NEW r \in Nat, NEW n \in 0..S
  PROVE  /\ QueueOf(b, r, n) \in Seq(Nat) /\ Len(QueueOf(b, r, n)) = n
         /\ \A k \in 1..n : /\ r + k - 1 \in Nat /\ (r + k - 1) % S \in 0..(S - 1)
                            /\ QueueOf(b, r, n)[k] = b[(r + k - 1) % S]
  <1>1. n \in Nat /\ S \in Nat \ {0}
    BY Sizes
  <1>2. ASSUME NEW k \in 1..n PROVE r + k - 1 \in Nat /\ (r + k - 1) % S \in 0..(S - 1)
    <2>1. PICK a \in Nat : a = r + k - 1
      BY <1>1
    <2>2. a % S \in 0..(S - 1)
      BY <1>1, SamePlace
    <2> QED
      BY <2>1, <2>2
  <1>3. QueueOf(b, r, n) \in [1..n -> Nat]
    BY <1>2 DEF QueueOf
  <1> QED
    BY <1>1, <1>2, <1>3 DEF QueueOf

LEMMA QueueTaken ==
  ASSUME NEW b \in [0..(S - 1) -> Nat], NEW r \in Nat, NEW n \in 0..S, NEW k \in 1..n
  PROVE  QueueOf(b, r + k, n - k)
           = SubSeq(QueueOf(b, r, n), k + 1, Len(QueueOf(b, r, n)))
  <1> DEFINE q == QueueOf(b, r, n)
             t == QueueOf(b, r + k, n - k)
             u == SubSeq(q, k + 1, Len(q))
  <1>1. n \in Nat /\ k \in Nat /\ n - k \in 0..S /\ r + k \in Nat
    BY Sizes
  <1>2. /\ q \in Seq(Nat) /\ Len(q) = n
        /\ \A i \in 1..n : q[i] = b[(r + i - 1) % S]
    BY QueueOfTyped
  <1>3. /\ t \in Seq(Nat) /\ Len(t) = n - k
        /\ \A i \in 1..(n - k) : t[i] = b[((r + k) + i - 1) % S]
    BY <1>1, QueueOfTyped
  <1> HIDE DEF q, t
  <1>4. u \in Seq(Nat) /\ Len(u) = n - k /\ \A i \in 1..(n - k) : u[i] = q[i + k]
    BY <1>1, <1>2
  <1> HIDE DEF u
  <1>5. ASSUME NEW i \in 1..(n - k) PROVE t[i] = u[i]
    <2>1. i + k \in 1..n /\ r + (i + k) - 1 = (r + k) + i - 1
      BY <1>1
    <2>2. q[i + k] = b[(r + (i + k) - 1) % S]
      BY <1>2, <2>1
    <2> QED
      BY <1>3, <1>4, <2>1, <2>2
  <1>6. t = u
    BY <1>1, <1>3, <1>4, <1>5
  <1> QED
    BY <1>6 DEF t, u, q

(* A character that is stored while there is room comes last. *)
LEMMA QueueStored ==
  ASSUME NEW b \in [0..(S - 1) -> Nat], NEW r \in Nat, NEW n \in 0..(S - 1), NEW c \in Nat
  PROVE  QueueOf([b EXCEPT ![(r + n) % S] = c], r, n + 1) = Append(QueueOf(b, r, n), c)
  <1>1. PICK w \in 0..(S - 1) : w = (r + n) % S
    <2>1. r + n \in Nat /\ S \in Nat \ {0}
      BY Sizes
    <2> QED
      BY <2>1, SamePlace
  <1>2. PICK d \in [0..(S - 1) -> Nat] : d = [b EXCEPT ![w] = c]
    OBVIOUS
  <1> DEFINE q == QueueOf(b, r, n)
             t == QueueOf(d, r, n + 1)
  <1>3. n \in Nat /\ n \in 0..S /\ n + 1 \in 0..S /\ S \in Nat \ {0}
    BY Sizes
  <1>4. /\ q \in Seq(Nat) /\ Len(q) = n
        /\ \A i \in 1..n : (r + i - 1) % S \in 0..(S - 1) /\ q[i] = b[(r + i - 1) % S]
    <2> HIDE DEF q
    <2>1. PICK m \in 0..S : m = n
      BY <1>3
    <2> QED
      BY <2>1, QueueOfTyped DEF q
  <1>5. /\ t \in Seq(Nat) /\ Len(t) = n + 1
        /\ \A i \in 1..(n + 1) : t[i] = d[(r + i - 1) % S]
    <2> HIDE DEF t
    <2>1. PICK m \in 0..S : m = n + 1
      BY <1>3
    <2> QED
      BY <2>1, QueueOfTyped DEF t
  <1> HIDE DEF q, t
  <1>6. t[n + 1] = c
    <2>1. r + (n + 1) - 1 = r + n /\ n + 1 \in 1..(n + 1)
      BY <1>3
    <2> QED
      BY <1>1, <1>2, <1>5, <2>1
  <1>7. ASSUME NEW i \in 1..n PROVE t[i] = q[i]
    <2>1. PICK a \in Nat : a = r + i - 1
      BY <1>3
    <2>2. a < r + n /\ r + n < a + S /\ r + n \in Nat
      BY <1>3, <2>1
    <2>3. a % S # w
      BY <1>1, <1>3, <2>2, Places
    <2>4. i \in 1..(n + 1)
      BY <1>3
    <2> QED
      BY <1>2, <1>4, <1>5, <2>1, <2>3, <2>4
  <1>8. t = Append(q, c)
    BY <1>3, <1>4, <1>5, <1>6, <1>7
  <1> QED
    BY <1>1, <1>2, <1>8 DEF q, t

(* When there is none it takes the place of the first. *)
LEMMA QueueReplaced ==
  ASSUME NEW b \in [0..(S - 1) -> Nat], NEW r \in Nat, NEW c \in Nat
  PROVE  QueueOf([b EXCEPT ![(r + S) % S] = c], r, S) = <<c>> \o Tail(QueueOf(b, r, S))
  <1>1. PICK w \in 0..(S - 1) : w = (r + S) % S /\ w = r % S
    BY Sizes, SamePlace
  <1>2. PICK d \in [0..(S - 1) -> Nat] : d = [b EXCEPT ![w] = c]
    OBVIOUS
  <1> DEFINE q == QueueOf(b, r, S)
             t == QueueOf(d, r, S)
  <1>3. S \in 0..S /\ S \in Nat \ {0}
    BY Sizes
  <1>4. /\ q \in Seq(Nat) /\ Len(q) = S
        /\ \A i \in 1..S : (r + i - 1) % S \in 0..(S - 1) /\ q[i] = b[(r + i - 1) % S]
    BY <1>3, QueueOfTyped, ZenonT(60)
  <1>5. /\ t \in Seq(Nat) /\ Len(t) = S
        /\ \A i \in 1..S : t[i] = d[(r + i - 1) % S]
    BY <1>3, QueueOfTyped, ZenonT(60)
  <1> HIDE DEF q, t
  <1>6. t[1] = c
    <2>1. r + 1 - 1 = r /\ 1 \in 1..S
      BY <1>3
    <2> QED
      BY <1>1, <1>2, <1>5, <2>1
  <1>7. ASSUME NEW i \in 2..S PROVE t[i] = q[i]
    <2>1. PICK a \in Nat : a = r + i - 1
      BY <1>3
    <2>2. a < r + S /\ r + S < a + S /\ r + S \in Nat
      BY <1>3, <2>1
    <2>3. a % S # w
      BY <1>1, <1>3, <2>2, Places
    <2>4. i \in 1..S
      BY <1>3
    <2> QED
      BY <1>2, <1>4, <1>5, <2>1, <2>3, <2>4
  <1>8. t = <<c>> \o Tail(q)
    BY <1>3, <1>4, <1>5, <1>6, <1>7, SMTT(30)
  <1> QED
    BY <1>1, <1>2, <1>8 DEF q, t
-----------------------------------------------------------------------------
LEMMA QueueIs ==
  /\ queue = QueueOf(stdin_buffer, p_rpos, Pending)
  /\ queue' = QueueOf(stdin_buffer', p_rpos', Pending')
  BY DEF queue, QueueOf, S

LEMMA MinOf ==
  ASSUME NEW a \in Nat, NEW b \in Nat
  PROVE  Min({a, b}) = IF a <= b THEN a ELSE b
  <1> DEFINE m == IF a <= b THEN a ELSE b
  <1>1. m \in {a, b} /\ \A y \in {a, b} : m <= y
    OBVIOUS
  <1>2. \A x \in {a, b} : (\A y \in {a, b} : x <= y) => x = m
    OBVIOUS
  <1> HIDE DEF m
  <1>3. Min({a, b}) = m
    BY <1>1, <1>2 DEF Min
  <1> QED
    BY <1>3 DEF m

LEMMA InQueue ==
  ASSUME Typed
  PROVE  Len(wait_queue) \in Nat /\ \A k \in 1..Len(wait_queue) : wait_queue[k] \in Procs
  BY DEF Typed

(* A turn of the loop of dev_stdin_read: the process takes what is there,  *)
(* and leaves or goes to the end of the wait queue.                        *)
LEMMA ReadStep ==
  ASSUME IInv, NEW p \in Procs, NEW n \in Nat, ReadOn(p, n, wait_queue),
         ~Asleep(p), \A k \in 1..Len(wait_queue) : wait_queue[k] # p
  PROVE  IInv' /\ [Queue!Next]_queue
  <1>1. /\ RingOK(cons) /\ Typed /\ Waits /\ Pending \in 0..S
        /\ UNCHANGED <<cons, stdin_buffer, p_wpos>>
        /\ stdin_buffer \in [0..(S - 1) -> Nat] /\ p_rpos \in Nat /\ p_wpos \in Nat
        /\ Pending \in Nat
    BY Sizes DEF IInv, ReadOn, Typed
  <1>2. PICK k \in Nat : k <= n /\ k <= Pending /\ (k = n \/ k = Pending) /\ k = Min({n, Pending})
    <2>1. PICK m \in Nat : m = Pending
      BY <1>1
    <2>2. Min({n, m}) = IF n <= m THEN n ELSE m
      BY MinOf
    <2> QED
      BY <2>1, <2>2
  <1>3. /\ p_rpos' = p_rpos + k
        /\ \/ k = n /\ reader' = [reader EXCEPT ![p] = Out] /\ UNCHANGED wait_queue
           \/ /\ k # n
              /\ reader' = [reader EXCEPT ![p] = [Out EXCEPT !.pc = "asleep", !.left = n - k]]
              /\ wait_queue' = Append(wait_queue, p)
    BY <1>2 DEF ReadOn
  <1>4. Pending' = Pending - k /\ Pending' \in 0..S /\ p_rpos' \in Nat
    BY <1>1, <1>2, <1>3, Sizes DEF Pending
  <1>5. [Queue!Next]_queue
    <2>1. PICK b, r, m : b = stdin_buffer /\ r = p_rpos /\ m = Pending
      OBVIOUS
    <2>2. b \in [0..(S - 1) -> Nat] /\ r \in Nat /\ m \in 0..S /\ m \in Nat
      BY <1>1, <2>1
    <2>3. queue = QueueOf(b, r, m) /\ queue' = QueueOf(b, r + k, m - k)
      BY <1>1, <1>3, <1>4, <2>1, QueueIs
    <2>4. CASE k = 0
      <3>1. r + k = r /\ m - k = m
        BY <2>2, <2>4
      <3>2. queue' = queue
        BY <2>3, <3>1
      <3> QED
        BY <3>2
    <2>5. CASE k # 0
      <3>1. k \in 1..m
        BY <1>2, <2>1, <2>2, <2>5
      <3>2. queue' = SubSeq(queue, k + 1, Len(queue)) /\ Len(queue) = m
        BY <2>2, <2>3, <3>1, QueueTaken, QueueOfTyped
      <3> QED
        BY <3>1, <3>2 DEF Queue!Next, Queue!Take
    <2> QED
      BY <2>4, <2>5
  <1>6. Len(wait_queue) \in Nat /\ wait_queue \in Seq(Procs) /\ reader \in [Procs -> Reader]
    BY <1>1 DEF Typed
  <1>7. \A q \in Procs : Asleep(q) => k = 0 /\ Pending' = 0
    BY <1>1, <1>2, <1>4 DEF Waits
  <1>8. CASE k = n /\ reader' = [reader EXCEPT ![p] = Out] /\ UNCHANGED wait_queue
    <2>1. Out \in Reader /\ Out.pc = "out"
      BY DEF Out, Reader
    <2>2. reader' \in [Procs -> Reader] /\ \A q \in Procs : reader'[q] = IF q = p THEN Out ELSE reader[q]
      BY <1>6, <1>8, <2>1
    <2>3. Waits'
      BY <1>1, <1>6, <1>7, <1>8, <2>1, <2>2, InQueue DEF Waits, Asleep
    <2> QED
      BY <1>1, <1>4, <1>5, <1>8, <2>2, <2>3 DEF IInv, Typed
  <1>9. CASE /\ k # n
             /\ reader' = [reader EXCEPT ![p] = [Out EXCEPT !.pc = "asleep", !.left = n - k]]
             /\ wait_queue' = Append(wait_queue, p)
    <2>1. PICK e : e = [Out EXCEPT !.pc = "asleep", !.left = n - k]
      OBVIOUS
    <2>2. e \in Reader /\ e.pc = "asleep" /\ e.flags = "interrupted"
      <3>1. n - k \in Nat
        BY <1>2
      <3>2. e = [pc |-> "asleep", left |-> n - k, flags |-> "interrupted"]
        BY <2>1 DEF Out
      <3> QED
        BY <3>1, <3>2 DEF Reader
    <2>3. reader' \in [Procs -> Reader] /\ \A q \in Procs : reader'[q] = IF q = p THEN e ELSE reader[q]
      BY <1>6, <1>9, <2>1, <2>2
    <2>4. Pending' = 0
      BY <1>1, <1>2, <1>4, <1>9
    <2>5. /\ wait_queue' \in Seq(Procs) /\ Len(wait_queue') = Len(wait_queue) + 1
          /\ wait_queue'[Len(wait_queue) + 1] = p
          /\ \A i \in 1..Len(wait_queue) : wait_queue'[i] = wait_queue[i]
      BY <1>6, <1>9
    <2>6. \A q \in Procs : Asleep(q)' => \E i \in 1..Len(wait_queue') : wait_queue'[i] = q
      <3> SUFFICES ASSUME NEW q \in Procs, Asleep(q)'
                   PROVE  \E i \in 1..Len(wait_queue') : wait_queue'[i] = q
        OBVIOUS
      <3>1. CASE q = p
        BY <1>6, <2>5, <3>1
      <3>2. CASE q # p
        <4>1. PICK i \in 1..Len(wait_queue) : wait_queue[i] = q
          BY <1>1, <2>3, <3>2 DEF Waits, Asleep
        <4> QED
          BY <1>6, <2>5, <4>1
      <3> QED
        BY <3>1, <3>2
    <2>7. \A i \in 1..Len(wait_queue') :
            i \in 1..Len(wait_queue) \/ (i = Len(wait_queue) + 1 /\ wait_queue'[i] = p)
      BY <1>6, <2>5
    <2>8. \A i \in 1..Len(wait_queue') :
            reader'[wait_queue'[i]].pc # "out" /\ reader'[wait_queue'[i]].flags = "interrupted"
      BY <1>1, <2>2, <2>3, <2>5, <2>7, InQueue DEF Waits
    <2>9. \A i, j \in 1..Len(wait_queue') : wait_queue'[i] = wait_queue'[j] => i = j
      BY <1>1, <2>5, <2>7 DEF Waits
    <2>10. Waits'
      BY <2>4, <2>6, <2>8, <2>9 DEF Waits
    <2> QED
      BY <1>1, <1>4, <1>5, <2>3, <2>5, <2>10 DEF IInv, Typed
  <1> QED
    BY <1>3, <1>8, <1>9

(* A character for stdin: whoever waits is woken, and nobody waits on. *)
LEMMA WriteStep ==
  ASSUME IInv, NEW c \in Keys, dev_stdin_write(c), RingOK(cons)', UNCHANGED p_rpos
  PROVE  IInv' /\ [Queue!Next]_queue
  <1>1. /\ Typed /\ Waits /\ Pending \in 0..S /\ c \in Nat /\ S \in Nat \ {0}
        /\ stdin_buffer \in [0..(S - 1) -> Nat] /\ p_rpos \in Nat /\ p_wpos \in Nat
        /\ wait_queue \in Seq(Procs) /\ reader \in [Procs -> Reader]
    BY Sizes DEF IInv, Typed
  <1>2. PICK b, r, m : b = stdin_buffer /\ r = p_rpos /\ m = Pending
    OBVIOUS
  <1>3. /\ b \in [0..(S - 1) -> Nat] /\ r \in Nat /\ m \in 0..S /\ m \in Nat
        /\ p_wpos = r + m
    BY <1>1, <1>2 DEF Pending
  <1>4. stdin_buffer' = [b EXCEPT ![(r + m) % S] = c]
    BY <1>2, <1>3 DEF dev_stdin_write, S
  <1>5. p_wpos' = (IF m < S THEN p_wpos + 1 ELSE p_wpos) /\ p_rpos' = r
    BY <1>2 DEF dev_stdin_write, Stored, Pending, S
  <1>6. stdin_buffer' \in [0..(S - 1) -> Nat]
    BY <1>1, <1>3, <1>4
  <1>7. Pending' = (IF m < S THEN m + 1 ELSE m) /\ Pending' \in 0..S /\ p_wpos' \in Nat
    BY <1>1, <1>3, <1>5 DEF Pending
  <1>8. [Queue!Next]_queue
    <2>1. queue = QueueOf(b, r, m) /\ Len(queue) = m
      BY <1>2, <1>3, QueueIs, QueueOfTyped
    <2>2. CASE m < S
      <3>1. queue' = QueueOf([b EXCEPT ![(r + m) % S] = c], r, m + 1)
        BY <1>4, <1>5, <1>7, <2>2, QueueIs
      <3>2. m \in 0..(S - 1)
        BY <1>1, <1>3, <2>2
      <3>3. QueueOf([b EXCEPT ![(r + m) % S] = c], r, m + 1) = Append(QueueOf(b, r, m), c)
        <4>1. c \in Nat /\ b \in [0..(S - 1) -> Nat] /\ r \in Nat
          BY <1>1, <1>3
        <4> QED
          BY <3>2, <4>1, QueueStored, Zenon
      <3>4. queue' = Append(queue, c)
        BY <2>1, <3>1, <3>3
      <3> QED
        BY <2>1, <2>2, <3>4 DEF Queue!Next, Queue!Put, S
    <2>3. CASE ~(m < S)
      <3>1. m = S
        BY <1>1, <1>3, <2>3
      <3>2. queue' = QueueOf([b EXCEPT ![(r + S) % S] = c], r, S)
        BY <1>4, <1>5, <1>7, <2>3, <3>1, QueueIs
      <3>3. queue' = <<c>> \o Tail(queue)
        BY <1>1, <1>3, <2>1, <3>1, <3>2, QueueReplaced
      <3> QED
        BY <2>1, <2>3, <3>3 DEF Queue!Next, Queue!Put, S
    <2> QED
      BY <2>2, <2>3
  <1>9. wait_queue' = <<>>
    <2>1. PICK q : q = wait_queue
      OBVIOUS
    <2>2. q \in Seq(Procs) /\ Len(q) \in Nat
      BY <1>1, <2>1
    <2>3. SubSeq(q, Len(q) + 1, Len(q)) = <<>>
      BY <2>2
    <2> QED
      BY <2>1, <2>3 DEF dev_stdin_write, Woken
  <1>10. \A p \in Procs :
           reader'[p] = IF \E k \in 1..Len(wait_queue) : wait_queue[k] = p
                        THEN [reader[p] EXCEPT !.pc = "awake", !.flags = "kbd"] ELSE reader[p]
    BY DEF dev_stdin_write, Woken
  <1>11. reader' \in [Procs -> Reader]
    <2>1. \A p \in Procs : [reader[p] EXCEPT !.pc = "awake", !.flags = "kbd"] \in Reader
      BY <1>1 DEF Reader
    <2>2. DOMAIN reader' = Procs /\ reader' = [p \in Procs |-> reader'[p]]
      BY DEF dev_stdin_write
    <2>3. \A p \in Procs : reader[p] \in Reader
      BY <1>1
    <2>4. ASSUME NEW p \in Procs PROVE reader'[p] \in Reader
      <3>1. CASE \E k \in 1..Len(wait_queue) : wait_queue[k] = p
        <4>1. reader'[p] = [reader[p] EXCEPT !.pc = "awake", !.flags = "kbd"]
          BY <1>10, <3>1
        <4> QED
          BY <2>1, <4>1
      <3>2. CASE ~\E k \in 1..Len(wait_queue) : wait_queue[k] = p
        BY <1>10, <2>3, <3>2
      <3> QED
        BY <3>1, <3>2
    <2> QED
      BY <2>2, <2>4
  <1>12. \A p \in Procs : ~Asleep(p)'
    <2> SUFFICES ASSUME NEW p \in Procs PROVE reader'[p].pc # "asleep"
      BY DEF Asleep
    <2>1. CASE \E k \in 1..Len(wait_queue) : wait_queue[k] = p
      <3>1. reader[p] \in Reader
        BY <1>1
      <3>2. reader'[p] = [reader[p] EXCEPT !.pc = "awake", !.flags = "kbd"]
        BY <1>10, <2>1
      <3> QED
        BY <3>1, <3>2 DEF Reader
    <2>2. CASE ~\E k \in 1..Len(wait_queue) : wait_queue[k] = p
      BY <1>1, <1>10, <2>2 DEF Waits, Asleep
    <2> QED
      BY <2>1, <2>2
  <1>13. Waits'
    BY <1>9, <1>12 DEF Waits
  <1>14. Typed'
    BY <1>1, <1>5, <1>6, <1>7, <1>9, <1>11 DEF Typed
  <1> QED
    BY <1>7, <1>8, <1>13, <1>14 DEF IInv

LEMMA InterruptStep ==
  ASSUME IInv, TimerInterrupt
  PROVE  IInv' /\ [Queue!Next]_queue
  <1>1. PICK burst \in SeqOf(Keys, MaxBurst) :
          LET ring == cons_intr(cons, burst)
          IN  IF ring.rpos = ring.wpos
              THEN /\ cons' = ring
                   /\ UNCHANGED <<stdin_buffer, p_wpos, wait_queue, reader>>
              ELSE /\ cons' = [ring EXCEPT !.rpos = (@ + 1) % CONSBUFSIZE]
                   /\ dev_stdin_write(ring.buf[ring.rpos])
    BY DEF TimerInterrupt, cons_getc
  <1>2. UNCHANGED p_rpos
    BY DEF TimerInterrupt
  <1>3. PICK n \in 0..MaxBurst : burst \in [1..n -> Keys]
    BY DEF SeqOf
  <1>4. PICK ring : ring = cons_intr(cons, burst)
    OBVIOUS
  <1>5. RingOK(ring) /\ C \in Nat \ {0}
    <2>1. PICK old : old = cons
      OBVIOUS
    <2>2. RingOK(old) /\ n \in Nat
      BY <1>3, <2>1 DEF IInv
    <2> QED
      BY <1>3, <1>4, <2>1, <2>2, BurstOK, Sizes
  <1>6. CASE ring.rpos = ring.wpos
    <2>1. cons' = ring /\ UNCHANGED <<stdin_buffer, p_wpos, wait_queue, reader, p_rpos>>
      BY <1>1, <1>2, <1>4, <1>6
    <2>2. RingOK(cons)'
      BY <1>5, <2>1
    <2>3. UNCHANGED queue
      BY <2>1, QueueIs DEF Pending
    <2> QED
      BY <2>1, <2>2, <2>3 DEF IInv, Typed, Waits, Asleep, Pending
  <1>7. CASE ring.rpos # ring.wpos
    <2>1. /\ cons' = [ring EXCEPT !.rpos = (@ + 1) % CONSBUFSIZE]
          /\ dev_stdin_write(ring.buf[ring.rpos])
      BY <1>1, <1>4, <1>7
    <2>2. PICK u, w, b, v : /\ u = ring.rpos /\ w = ring.wpos /\ b = ring.buf
                           /\ v = (u + 1) % CONSBUFSIZE
      OBVIOUS
    <2>3. /\ u \in 0..(C - 1) /\ w \in 0..(C - 1) /\ b \in [0..(C - 1) -> Nat] /\ u # w
          /\ ring = [buf |-> b, rpos |-> u, wpos |-> w]
      BY <1>5, <1>7, <2>2 DEF RingOK, Ring
    <2>4. v = (IF u + 1 = C THEN 0 ELSE u + 1) /\ v \in 0..(C - 1)
      <3>1. (u + 1) % C = IF u + 1 = C THEN 0 ELSE u + 1
        BY <1>5, <2>3, NextPlace
      <3> QED
        BY <1>5, <2>2, <2>3, <3>1 DEF C
    <2>5. cons' = [buf |-> b, rpos |-> v, wpos |-> w]
      BY <2>1, <2>2, <2>3
    <2>6. \A k \in 0..(C - 1) :
            (IF u <= w THEN u <= k /\ k < w ELSE u <= k \/ k < w) => b[k] \in Keys
      BY <1>5, <2>3 DEF RingOK, InRing
    <2>7. b[u] \in Keys
      BY <1>5, <2>3, <2>6
    <2>8. \A k \in 0..(C - 1) :
            (IF v <= w THEN v <= k /\ k < w ELSE v <= k \/ k < w) => b[k] \in Keys
      <3> SUFFICES ASSUME NEW k \in 0..(C - 1),
                          IF v <= w THEN v <= k /\ k < w ELSE v <= k \/ k < w
                   PROVE  IF u <= w THEN u <= k /\ k < w ELSE u <= k \/ k < w
        BY <2>6
      <3> QED
        BY <1>5, <2>3, <2>4
    <2>9. RingOK(cons')
      BY <2>3, <2>4, <2>5, <2>8 DEF RingOK, Ring, InRing
    <2> QED
      BY <1>2, <2>1, <2>2, <2>7, <2>9, WriteStep
  <1> QED
    BY <1>6, <1>7

LEMMA RemoveAtEntries ==
  ASSUME NEW V, NEW s \in Seq(V), NEW i \in 1..Len(s)
  PROVE  /\ RemoveAt(s, i) \in Seq(V)
         /\ Len(RemoveAt(s, i)) = Len(s) - 1
         /\ \A k \in 1..(Len(s) - 1) : RemoveAt(s, i)[k] = IF k < i THEN s[k] ELSE s[k + 1]
  <1> DEFINE a == SubSeq(s, 1, i - 1)
             b == SubSeq(s, i + 1, Len(s))
  <1>1. /\ a \in Seq(V) /\ Len(a) = i - 1
        /\ b \in Seq(V) /\ Len(b) = Len(s) - i
    OBVIOUS
  <1>2. /\ \A k \in 1..(i - 1) : a[k] = s[k]
        /\ \A k \in 1..(Len(s) - i) : b[k] = s[k + i]
    OBVIOUS
  <1>3. RemoveAt(s, i) = a \o b
    BY DEF RemoveAt
  <1> HIDE DEF a, b
  <1>4. /\ a \o b \in Seq(V) /\ Len(a \o b) = Len(s) - 1
        /\ \A k \in 1..(Len(s) - 1) :
             (a \o b)[k] = IF k < i THEN a[k] ELSE b[k - (i - 1)]
    <2>1. a \o b \in Seq(V) /\ Len(a \o b) = Len(a) + Len(b)
      BY <1>1
    <2>2. \A k \in 1..(Len(a) + Len(b)) :
            (a \o b)[k] = IF k <= Len(a) THEN a[k] ELSE b[k - Len(a)]
      BY <1>1
    <2>3. Len(a) + Len(b) = Len(s) - 1 /\ i \in Int /\ Len(s) \in Int
      BY <1>1
    <2>4. \A k \in 1..(Len(s) - 1) : k <= Len(a) <=> k < i
      BY <1>1, <2>3
    <2> QED
      BY <1>1, <2>1, <2>2, <2>3, <2>4
  <1>5. ASSUME NEW k \in 1..(Len(s) - 1) PROVE RemoveAt(s, i)[k] = IF k < i THEN s[k] ELSE s[k + 1]
    <2>1. CASE k < i
      BY <1>2, <1>3, <1>4, <2>1
    <2>2. CASE k >= i
      <3>1. PICK m : m = k - (i - 1)
        OBVIOUS
      <3>2. m \in 1..(Len(s) - i) /\ m + i = k + 1
        BY <2>2, <3>1
      <3>3. b[m] = s[k + 1]
        BY <1>2, <3>2
      <3>4. (a \o b)[k] = b[m] /\ ~(k < i)
        BY <1>4, <2>2, <3>1
      <3> QED
        BY <1>3, <3>3, <3>4
    <2> QED
      BY <2>1, <2>2
  <1> QED
    BY <1>3, <1>4, <1>5

Once(s) == \A j, k \in 1..Len(s) : s[j] = s[k] => j = k

(* t is s without p. *)
Without(t, s, p) ==
  /\ t \in Seq(Procs)
  /\ \A k \in 1..Len(t) : t[k] # p /\ \E j \in 1..Len(s) : t[k] = s[j]
  /\ \A k \in 1..Len(s) : s[k] # p => \E j \in 1..Len(t) : t[j] = s[k]
  /\ Once(t)

(* wait_current_del of a process that is in the queue once, or not. *)
LEMMA RemoveFirstIs ==
  ASSUME NEW s \in Seq(Procs), NEW p, Once(s)
  PROVE  Without(RemoveFirst(s, p), s, p)
  <1> SUFFICES ASSUME NEW t, t = RemoveFirst(s, p),
                      \A j, k \in 1..Len(s) : s[j] = s[k] => j = k
               PROVE  /\ t \in Seq(Procs)
                      /\ \A k \in 1..Len(t) : t[k] # p /\ \E j \in 1..Len(s) : t[k] = s[j]
                      /\ \A k \in 1..Len(s) : s[k] # p => \E j \in 1..Len(t) : t[j] = s[k]
                      /\ \A j, k \in 1..Len(t) : t[j] = t[k] => j = k
    BY DEF Once, Without
  <1>1. CASE ~\E i \in 1..Len(s) : s[i] = p
    BY <1>1 DEF RemoveFirst
  <1>2. CASE \E i \in 1..Len(s) : s[i] = p
    <2>1. PICK i \in 1..Len(s) : s[i] = p
      BY <1>2
    <2>2. {k \in 1..Len(s) : s[k] = p} = {i}
      BY <2>1
    <2>3. Min({i}) = i
      <3>1. i <= i
        OBVIOUS
      <3> QED
        BY <3>1 DEF Min
    <2>4. t = RemoveAt(s, i)
      BY <1>2, <2>2, <2>3 DEF RemoveFirst, SelectInSeq
    <2>5. Len(s) \in Nat
      OBVIOUS
    <2>7. t \in Seq(Procs) /\ Len(t) = Len(s) - 1
      BY <2>4, RemoveAtEntries
    <2>6. \A k \in 1..(Len(s) - 1) : RemoveAt(s, i)[k] = IF k < i THEN s[k] ELSE s[k + 1]
      BY RemoveAtEntries
    <2>8. \A k \in 1..(Len(s) - 1) : t[k] = IF k < i THEN s[k] ELSE s[k + 1]
      BY <2>4, <2>6
    <2>9. \A k \in 1..Len(t) : \E j \in 1..Len(s) :
            j # i /\ t[k] = s[j] /\ j = IF k < i THEN k ELSE k + 1
      BY <2>5, <2>7, <2>8
    <2>10. ASSUME NEW k \in 1..Len(s), s[k] # p PROVE \E j \in 1..Len(t) : t[j] = s[k]
      <3>1. CASE k < i
        BY <2>5, <2>7, <2>8, <3>1
      <3>2. CASE k > i
        <4>1. k - 1 \in 1..Len(t) /\ ~(k - 1 < i) /\ (k - 1) + 1 = k
          BY <2>5, <2>7, <3>2
        <4> QED
          BY <2>7, <2>8, <4>1
      <3> QED
        BY <2>1, <2>10, <3>1, <3>2
    <2>11. ASSUME NEW j \in 1..Len(t), NEW k \in 1..Len(t), t[j] = t[k] PROVE j = k
      <3>1. PICK a \in 1..Len(s) : t[j] = s[a] /\ a = IF j < i THEN j ELSE j + 1
        BY <2>9
      <3>2. PICK b \in 1..Len(s) : t[k] = s[b] /\ b = IF k < i THEN k ELSE k + 1
        BY <2>9
      <3>3. a = b
        BY <2>11, <3>1, <3>2
      <3> QED
        BY <2>5, <2>7, <3>1, <3>2, <3>3
    <2>12. \A k \in 1..Len(t) : t[k] # p /\ \E j \in 1..Len(s) : t[k] = s[j]
      BY <2>1, <2>9
    <2> QED
      BY <2>7, <2>10, <2>11, <2>12
  <1> QED
    BY <1>1, <1>2

(* A process that was killed leaves the wait queue and dev_stdin_read; one *)
(* that the keyboard woke is in no queue and reads on.                     *)
LEMMA ResumeStep ==
  ASSUME IInv, NEW p \in Procs, Resume(p)
  PROVE  IInv' /\ [Queue!Next]_queue
  <1>1. /\ RingOK(cons) /\ Typed /\ Waits /\ Pending \in 0..S
        /\ wait_queue \in Seq(Procs) /\ reader \in [Procs -> Reader]
        /\ Len(wait_queue) \in Nat /\ reader[p].pc = "awake"
    BY DEF IInv, Typed, Resume
  <1>2. PICK s \in Seq(Procs) : s = wait_queue
    BY <1>1
  <1>3. Len(s) \in Nat
    OBVIOUS
  <1>4. CASE reader[p].flags = "kbd"
    <2>1. \A k \in 1..Len(wait_queue) : wait_queue[k] # p
      BY <1>1, <1>4 DEF Waits
    <2>2. RemoveFirst(wait_queue, p) = wait_queue
      BY <2>1 DEF RemoveFirst
    <2>3. ReadOn(p, reader[p].left, wait_queue)
      BY <1>4, <2>2 DEF Resume
    <2>4. PICK n \in Nat : n = reader[p].left
      BY <1>1 DEF Reader
    <2>5. ~Asleep(p)
      BY <1>1 DEF Asleep
    <2> QED
      BY <2>1, <2>3, <2>4, <2>5, ReadStep
  <1>5. CASE reader[p].flags # "kbd"
    <2>1. /\ reader' = [reader EXCEPT ![p] = Out]
          /\ wait_queue' = RemoveFirst(s, p)
          /\ UNCHANGED <<cons, stdin_buffer, p_rpos, p_wpos>>
      BY <1>2, <1>5 DEF Resume, buffer
    <2>2. Out \in Reader /\ Out.pc = "out"
      BY DEF Out, Reader
    <2>3. /\ reader' \in [Procs -> Reader]
          /\ \A q \in Procs : reader'[q] = IF q = p THEN Out ELSE reader[q]
      BY <1>1, <2>1, <2>2
    <2>4. UNCHANGED <<queue, Pending>>
      BY <2>1, QueueIs DEF Pending
    <2>5. \A j, k \in 1..Len(s) : s[j] = s[k] => j = k
      BY <1>1, <1>2 DEF Waits
    <2>6. /\ wait_queue' \in Seq(Procs)
          /\ \A k \in 1..Len(wait_queue') :
               /\ wait_queue'[k] # p
               /\ \E j \in 1..Len(s) : wait_queue'[k] = s[j]
          /\ \A k \in 1..Len(s) : s[k] # p => \E j \in 1..Len(wait_queue') : wait_queue'[j] = s[k]
          /\ \A j, k \in 1..Len(wait_queue') : wait_queue'[j] = wait_queue'[k] => j = k
      <3>1. PICK t : t = wait_queue'
        OBVIOUS
      <3>2. t = RemoveFirst(s, p)
        BY <2>1, <3>1
      <3>3. /\ t \in Seq(Procs)
            /\ \A k \in 1..Len(t) : t[k] # p /\ \E j \in 1..Len(s) : t[k] = s[j]
            /\ \A k \in 1..Len(s) : s[k] # p => \E j \in 1..Len(t) : t[j] = s[k]
            /\ \A j, k \in 1..Len(t) : t[j] = t[k] => j = k
        <4>1. Once(s)
          BY <2>5 DEF Once
        <4>2. Without(t, s, p)
          BY <3>2, <4>1, RemoveFirstIs
        <4> QED
          BY <4>2 DEF Once, Without
      <3> QED
        BY <3>1, <3>3
    <2>7. \A q \in Procs : Asleep(q)' =>
            Pending' = 0 /\ \E k \in 1..Len(wait_queue') : wait_queue'[k] = q
      <3> SUFFICES ASSUME NEW q \in Procs, Asleep(q)'
                   PROVE  Pending' = 0 /\ \E k \in 1..Len(wait_queue') : wait_queue'[k] = q
        OBVIOUS
      <3>1. q # p /\ Asleep(q)
        BY <2>2, <2>3 DEF Asleep
      <3>2. Pending = 0 /\ \E k \in 1..Len(s) : s[k] = q
        BY <1>1, <1>2, <3>1 DEF Waits
      <3> QED
        BY <2>4, <2>6, <3>1, <3>2
    <2>8. ASSUME NEW k \in 1..Len(wait_queue')
          PROVE  reader'[wait_queue'[k]].pc # "out" /\ reader'[wait_queue'[k]].flags = "interrupted"
      <3>1. PICK j \in 1..Len(s) : wait_queue'[k] = s[j] /\ s[j] # p
        BY <2>6
      <3>2. s[j] \in Procs /\ reader'[s[j]] = reader[s[j]]
        BY <2>3, <3>1
      <3> QED
        BY <1>1, <1>2, <3>1, <3>2 DEF Waits
    <2>9. Waits'
      BY <2>6, <2>7, <2>8 DEF Waits
    <2> QED
      BY <1>1, <2>1, <2>3, <2>4, <2>6, <2>9 DEF IInv, Typed
  <1> QED
    BY <1>4, <1>5

LEMMA KillStep ==
  ASSUME IInv, NEW p \in Procs, do_kill(p) \/ Exit(p) \/ UNCHANGED vars
  PROVE  IInv' /\ [Queue!Next]_queue
  <1>1. /\ UNCHANGED <<cons, stdin_buffer, p_rpos, p_wpos, wait_queue>>
        /\ UNCHANGED reader \/ (Asleep(p) /\ reader' = [reader EXCEPT ![p].pc = "awake"])
    BY DEF do_kill, Exit, vars, buffer
  <1>2. UNCHANGED <<queue, Pending>>
    BY <1>1, QueueIs DEF Pending
  <1>3. CASE UNCHANGED reader
    BY <1>1, <1>2, <1>3 DEF IInv, Typed, Waits, Asleep
  <1>4. CASE Asleep(p) /\ reader' = [reader EXCEPT ![p].pc = "awake"]
    <2>1. /\ Typed /\ Waits /\ reader \in [Procs -> Reader] /\ reader[p] \in Reader
      BY DEF IInv, Typed
    <2>2. PICK e : e = [reader[p] EXCEPT !.pc = "awake"]
      OBVIOUS
    <2>3. e \in Reader /\ e.pc = "awake" /\ e.flags = reader[p].flags
      BY <2>1, <2>2 DEF Reader
    <2>4. reader' = [reader EXCEPT ![p] = e]
      BY <1>4, <2>2
    <2>5. /\ reader' \in [Procs -> Reader]
          /\ \A q \in Procs : reader'[q] = IF q = p THEN e ELSE reader[q]
      BY <2>1, <2>3, <2>4
    <2>6. \A q \in Procs : Asleep(q)' => Asleep(q)
      BY <1>4, <2>3, <2>5 DEF Asleep
    <2>7. \A k \in 1..Len(wait_queue) :
            reader'[wait_queue[k]].pc # "out" /\ reader'[wait_queue[k]].flags = "interrupted"
      BY <2>1, <2>3, <2>5, InQueue DEF Waits
    <2>8. Waits'
      BY <1>1, <1>2, <2>1, <2>6, <2>7 DEF Waits
    <2> QED
      BY <1>1, <1>2, <2>1, <2>5, <2>8 DEF IInv, Typed
  <1> QED
    BY <1>1, <1>3, <1>4

LEMMA InvInit ==
  ASSUME Init
  PROVE  IInv /\ Queue!Init
  <1>1. C \in Nat \ {0} /\ S \in Nat \ {0} /\ 0 \in 0..(C - 1) /\ 0 \in 0..S
    BY Sizes
  <1>2. RingOK(cons)
    <2>1. PICK b : b = [k \in 0..(C - 1) |-> 0]
      OBVIOUS
    <2>2. b \in [0..(C - 1) -> Nat]
      BY <2>1
    <2>3. cons = [buf |-> b, rpos |-> 0, wpos |-> 0]
      BY <2>1 DEF Init, NoKey, C
    <2> QED
      BY <1>1, <2>2, <2>3 DEF RingOK, Ring, InRing
  <1>3. Typed
    <2>1. stdin_buffer \in [0..(S - 1) -> Nat]
      BY DEF Init, NoKey, S
    <2>2. Out \in Reader
      BY DEF Out, Reader
    <2> QED
      BY <2>1, <2>2 DEF Init, Typed
  <1>4. Pending = 0 /\ wait_queue = <<>>
    BY DEF Init, Pending
  <1>5. Waits
    BY <1>4 DEF Init, Waits, Asleep, Out
  <1>6. queue = <<>>
    BY <1>4, QueueIs DEF QueueOf
  <1> QED
    BY <1>1, <1>2, <1>3, <1>4, <1>5, <1>6 DEF IInv, Queue!Init

(* Interrupts, kills and other readers between a wakeup and its effect,    *)
(* and bursts that overrun either buffer, leave every reader where the     *)
(* next character finds it, and the characters in the order they came.     *)
THEOREM KeyboardInductive == IInv /\ [Next]_vars => IInv' /\ [Queue!Next]_queue
  <1> SUFFICES ASSUME IInv, [Next]_vars PROVE IInv' /\ [Queue!Next]_queue
    OBVIOUS
  <1>1. CASE TimerInterrupt
    BY <1>1, InterruptStep
  <1>2. ASSUME NEW p \in Procs, dev_stdin_read(p) PROVE IInv' /\ [Queue!Next]_queue
    <2>1. PICK n \in 1..MaxRead : ReadOn(p, n, wait_queue)
      BY <1>2 DEF dev_stdin_read
    <2>2. reader[p].pc = "out" /\ n \in Nat
      BY <1>2, KeyboardAssumption DEF dev_stdin_read
    <2>3. ~Asleep(p) /\ \A k \in 1..Len(wait_queue) : wait_queue[k] # p
      BY <2>2 DEF IInv, Waits, Asleep
    <2> QED
      BY <2>1, <2>2, <2>3, ReadStep
  <1>3. ASSUME NEW p \in Procs, Resume(p) PROVE IInv' /\ [Queue!Next]_queue
    BY <1>3, ResumeStep
  <1>4. ASSUME NEW p \in Procs, do_kill(p) \/ Exit(p) PROVE IInv' /\ [Queue!Next]_queue
    BY <1>4, KillStep
  <1>5. CASE UNCHANGED vars
    <2>1. UNCHANGED <<queue, Pending>>
      BY <1>5, QueueIs DEF vars, Pending
    <2> QED
      BY <1>5, <2>1 DEF vars, IInv, Typed, Waits, Asleep
  <1> QED
    BY <1>1, <1>2, <1>3, <1>4, <1>5 DEF Next

(* A process in a queue without repetition is in it once. *)
LEMMA OncePlace ==
  ASSUME NEW s, NEW p, DOMAIN s = 1..Len(s), NEW k \in 1..Len(s), s[k] = p,
         \A j \in 1..Len(s) : s[j] = p => j = k
  PROVE  Cardinality({j \in DOMAIN s : s[j] = p}) = 1
  <1>1. {j \in DOMAIN s : s[j] = p} = {k}
    OBVIOUS
  <1> QED
    BY <1>1, FS_Singleton

(* No reader sleeps in dev_stdin_read while there is a character to read,  *)
(* and whoever sleeps there is in the wait queue once.                     *)
THEOREM NoReaderEverForgotten == Spec => []NoReaderForgotten
  <1>1. Init => IInv
    BY InvInit
  <1>2. IInv /\ [Next]_vars => IInv'
    BY KeyboardInductive
  <1>3. IInv => NoReaderForgotten
    <2> SUFFICES ASSUME IInv, NEW p \in Procs, Asleep(p)
                 PROVE  Pending = 0 /\ Cardinality({k \in DOMAIN wait_queue : wait_queue[k] = p}) = 1
      BY DEF NoReaderForgotten
    <2>1. PICK s \in Seq(Procs) : s = wait_queue
      BY DEF IInv, Typed
    <2>2. /\ DOMAIN s = 1..Len(s) /\ \A j, k \in 1..Len(s) : s[j] = s[k] => j = k
          /\ Pending = 0 /\ \E k \in 1..Len(s) : s[k] = p
      BY <2>1 DEF IInv, Waits
    <2> QED
      <3>1. Cardinality({k \in DOMAIN s : s[k] = p}) = 1
        <4>1. PICK k \in 1..Len(s) : s[k] = p
          BY <2>2
        <4>2. \A j \in 1..Len(s) : s[j] = p => j = k
          BY <2>2, <4>1
        <4> QED
          BY <2>2, <4>1, <4>2, OncePlace
      <3> QED
        BY <2>1, <2>2, <3>1
  <1> QED
    BY <1>1, <1>2, <1>3, PTL DEF Spec

(* The positions that only grow and the buffer that they wrap around in    *)
(* are the queue of characters of KeyQueue.                                *)
THEOREM QueueRefinement == Spec => QueueSpec
  <1>1. Init => IInv /\ Queue!Init
    BY InvInit
  <1>2. IInv /\ [Next]_vars => IInv' /\ [Queue!Next]_queue
    BY KeyboardInductive
  <1> QED
    BY <1>1, <1>2, PTL DEF Spec, QueueSpec, Queue!Spec
=============================================================================
