---------------------------- MODULE SemaphoreProofs ----------------------------
(***************************************************************************)
(* What the operators of Sched and Semaphore do to the run queue, the      *)
(* timer list and the wait queues, for the proofs about the modules that   *)
(* are built on them.                                                      *)
(***************************************************************************)
EXTENDS Semaphore, WellFoundedInduction, FiniteSetTheorems, TLAPS

LEMMA RemoveAtEntries ==
  ASSUME NEW S, NEW s \in Seq(S), NEW i \in 1..Len(s)
  PROVE  /\ RemoveAt(s, i) \in Seq(S)
         /\ Len(RemoveAt(s, i)) = Len(s) - 1
         /\ \A k \in 1..(Len(s) - 1) : RemoveAt(s, i)[k] = IF k < i THEN s[k] ELSE s[k + 1]
  <1> DEFINE a == SubSeq(s, 1, i - 1)
             b == SubSeq(s, i + 1, Len(s))
  <1>1. /\ a \in Seq(S) /\ Len(a) = i - 1
        /\ b \in Seq(S) /\ Len(b) = Len(s) - i
    OBVIOUS
  <1>2. /\ \A k \in 1..(i - 1) : a[k] = s[k]
        /\ \A k \in 1..(Len(s) - i) : b[k] = s[k + i]
    OBVIOUS
  <1>3. RemoveAt(s, i) = a \o b
    BY DEF RemoveAt
  <1> HIDE DEF a, b
  <1>4. /\ a \o b \in Seq(S) /\ Len(a \o b) = Len(s) - 1
        /\ \A k \in 1..(Len(s) - 1) :
             (a \o b)[k] = IF k < i THEN a[k] ELSE b[k - (i - 1)]
    <2>1. a \o b \in Seq(S) /\ Len(a \o b) = Len(a) + Len(b)
      BY <1>1
    <2>2. \A k \in 1..(Len(a) + Len(b)) :
            (a \o b)[k] = IF k <= Len(a) THEN a[k] ELSE b[k - Len(a)]
      BY <1>1
    <2>3. Len(a) + Len(b) = Len(s) - 1 /\ i \in Int /\ Len(s) \in Int
      BY <1>1
    <2>4. \A k \in 1..(Len(s) - 1) : k <= Len(a) <=> k < i
      BY <1>1, <2>3
    <2> QED
      BY <1>1, <2>1, <2>2, <2>3, <2>4
  <1>5. ASSUME NEW k \in 1..(Len(s) - 1) PROVE RemoveAt(s, i)[k] = IF k < i THEN s[k] ELSE s[k + 1]
    <2>1. CASE k < i
      BY <1>2, <1>3, <1>4, <2>1
    <2>2. CASE k >= i
      <3>1. k - (i - 1) \in 1..(Len(s) - i) /\ (k - (i - 1)) + i = k + 1
        BY <2>2
      <3> QED
        BY <1>2, <1>3, <1>4, <2>2, <3>1
    <2> QED
      BY <2>1, <2>2
  <1> QED
    BY <1>3, <1>4, <1>5

LEMMA EntryIn ==
  ASSUME NEW S, NEW s \in Seq(S), NEW k \in 1..Len(s)
  PROVE  s[k] \in S
  OBVIOUS

(* Every set of numbers that is not empty has a least element. *)
LEMMA LeastNumber ==
  ASSUME NEW S, S \subseteq Nat, S # {}
  PROVE  \E k \in S : \A j \in S : k <= j
  <1>1. PICK k \in S : \A j \in S : ~(<<j, k>> \in OpToRel(<, Nat))
    BY NatLessThanWellFounded, WFMin
  <1>2. ASSUME NEW j \in S, j < k PROVE FALSE
    <2>1. <<j, k>> \in OpToRel(<, Nat)
      BY <1>2, SMT DEF OpToRel
    <2> QED
      BY <1>1, <2>1
  <1> QED
    BY <1>2
-----------------------------------------------------------------------------
(* The processes in the timer list, whatever their expiries are. *)
Timers(t) == \E X : t \in Seq([proc : Procs, expires : X])

TimersTyped == Timers(timer_list)

SchedTyped ==
  /\ state \in [AllProcs -> {"RUNNABLE", "SLEEPING", "ZOMBIE"}]
  /\ wait_state \in [AllProcs -> {"0", "WT_TIMER", "WT_KSEM", "WT_CHILD"}]
  /\ run_list \in Seq(Procs)
  /\ current \in AllProcs
  /\ TimersTyped

(* The run queue holds the processes that are RUNNABLE and do not have the *)
(* CPU, each of them once.                                                 *)
QueueOK ==
  /\ \A k \in 1..Len(run_list) : state[run_list[k]] = "RUNNABLE" /\ run_list[k] # current
  /\ \A p \in Procs : state[p] = "RUNNABLE" /\ p # current =>
                        \E k \in 1..Len(run_list) : run_list[k] = p
  /\ \A j, k \in 1..Len(run_list) : run_list[j] = run_list[k] => j = k

LEMMA FirstEntry ==
  ASSUME NEW S, NEW s \in Seq(S), s # <<>>
  PROVE  Len(s) \in Nat /\ 1 \in 1..Len(s) /\ s[1] \in S
  OBVIOUS

LEMMA SubsetSeq ==
  ASSUME NEW S, NEW T, S \subseteq T, NEW s \in Seq(S)
  PROVE  s \in Seq(T)
  <1>1. s \in [1..Len(s) -> T] /\ Len(s) \in Nat
    OBVIOUS
  <1> QED
    BY <1>1

LEMMA MoreTimers ==
  ASSUME NEW X, NEW e, NEW t \in Seq([proc : Procs, expires : X])
  PROVE  t \in Seq([proc : Procs, expires : X \cup {e}])
  <1>1. [proc : Procs, expires : X] \subseteq [proc : Procs, expires : X \cup {e}]
    OBVIOUS
  <1> QED
    BY <1>1, SubsetSeq

LEMMA Retimed ==
  ASSUME NEW X, NEW Y, NEW e \in Y,
         NEW t \in Seq([proc : Procs, expires : X]), NEW k \in 1..Len(t)
  PROVE  [t[k] EXCEPT !.expires = e] \in [proc : Procs, expires : Y]
  <1>1. t[k] \in [proc : Procs, expires : X]
    BY EntryIn
  <1> QED
    BY <1>1

LEMMA SetExpires ==
  ASSUME NEW t, Timers(t), NEW e, NEW k \in 1..Len(t),
         NEW u, u = [t EXCEPT ![k].expires = e]
  PROVE  Timers(u) /\ Len(u) = Len(t)
  <1>1. PICK X : t \in Seq([proc : Procs, expires : X])
    BY DEF Timers
  <1> DEFINE T == [proc : Procs, expires : X \cup {e}]
             r == [t[k] EXCEPT !.expires = e]
  <1>2. u = [t EXCEPT ![k] = r]
    OBVIOUS
  <1>3. r \in T
    BY <1>1, Retimed
  <1>4. t \in Seq(T)
    BY <1>1, MoreTimers
  <1> HIDE DEF T, r
  <1>5. u \in Seq(T) /\ Len(u) = Len(t)
    BY <1>2, <1>3, <1>4
  <1> QED
    BY <1>5 DEF T, Timers

LEMMA RemoveTimer ==
  ASSUME NEW t, Timers(t), NEW i \in 1..Len(t)
  PROVE  Timers(RemoveAt(t, i))
  <1>1. PICK X : t \in Seq([proc : Procs, expires : X])
    BY DEF Timers
  <1> QED
    BY <1>1, RemoveAtEntries DEF Timers

LEMMA TimersLength ==
  ASSUME NEW t, Timers(t)
  PROVE  Len(t) \in Nat /\ (t # <<>> => 1 \in 1..Len(t) /\ t[1].proc \in Procs /\ Timers(Tail(t)))
  <1>1. PICK X : t \in Seq([proc : Procs, expires : X])
    BY DEF Timers
  <1>2. t # <<>> => 1 \in 1..Len(t) /\ t[1] \in [proc : Procs, expires : X]
    BY <1>1, FirstEntry
  <1>3. t # <<>> => Tail(t) \in Seq([proc : Procs, expires : X])
    BY <1>1
  <1>4. t # <<>> => Timers(Tail(t))
    BY <1>3 DEF Timers
  <1>5. Len(t) \in Nat /\ (t # <<>> => t[1].proc \in Procs)
    BY <1>1, <1>2
  <1> QED
    BY <1>2, <1>4, <1>5

LEMMA AddTimerTyped ==
  ASSUME TimersTyped, NEW p \in Procs, NEW n, add_timer(p, n)
  PROVE  TimersTyped'
  <1>1. PICK X : timer_list \in Seq([proc : Procs, expires : X])
    BY DEF TimersTyped, Timers
  <1> DEFINE len == Len(timer_list)
             places == {k \in 1..(len + 1) : Stops(n, k)}
             at == CHOOSE k \in 1..(len + 1) : Stops(n, k) /\ \A j \in 1..(k - 1) : ~Stops(n, j)
  <1>2. len \in Nat
    BY <1>1
  <1>3. \E k \in 1..(len + 1) : Stops(n, k) /\ \A j \in 1..(k - 1) : ~Stops(n, j)
    <2>1. len + 1 \in places /\ places \subseteq Nat
      BY <1>2 DEF Stops
    <2>2. PICK k \in places : \A j \in places : k <= j
      BY <2>1, LeastNumber
    <2> QED
      BY <1>2, <2>2
  <1>4. at \in 1..(len + 1)
    BY <1>3
  <1> DEFINE left == Left(n)[at]
             rest == timer_list[at].expires - left
             T == [proc : Procs, expires : (X \cup {left}) \cup {rest}]
             new == Timer(p, left)
             next == [timer_list[at] EXCEPT !.expires = rest]
             t == [k \in 1..(len + 1) |->
                     IF k < at THEN timer_list[k]
                     ELSE IF k = at THEN new
                     ELSE IF k = at + 1 THEN next
                     ELSE timer_list[k - 1]]
  <1>5. timer_list' = t
    BY DEF add_timer
  <1> HIDE DEF at, left, rest
  <1>6. timer_list \in Seq(T)
    BY <1>1, MoreTimers
  <1>7. new \in T
    BY DEF Timer
  <1>8. at \in 1..len => next \in T
    BY <1>1, Retimed
  <1> HIDE DEF T
  <1>9. \A k \in 1..len : timer_list[k] \in T
    BY <1>6
  <1> HIDE DEF len, T, new, next
  <1>10. ASSUME NEW k \in 1..(len + 1) PROVE t[k] \in T
    <2>1. CASE k = at
      BY <1>7, <2>1
    <2>2. CASE k < at
      <3>1. k \in 1..len /\ t[k] = timer_list[k]
        BY <1>2, <1>4, <2>2
      <3> QED
        BY <1>9, <3>1
    <2>3. CASE k = at + 1
      <3>1. at \in 1..len /\ t[k] = next
        BY <1>2, <1>4, <2>3
      <3> QED
        BY <1>8, <3>1
    <2>4. CASE k > at + 1
      <3>1. k - 1 \in 1..len /\ t[k] = timer_list[k - 1]
        BY <1>2, <1>4, <2>4
      <3> QED
        BY <1>9, <3>1
    <2> QED
      BY <1>2, <1>4, <2>1, <2>2, <2>3, <2>4
  <1>11. t \in [1..(len + 1) -> T]
    BY <1>10
  <1> HIDE DEF t
  <1>12. t \in Seq(T)
    BY <1>2, <1>11
  <1> QED
    BY <1>5, <1>12 DEF TimersTyped, Timers, T

LEMMA DelTimerTyped ==
  ASSUME TimersTyped, NEW p, del_timer(p)
  PROVE  TimersTyped'
  <1>1. CASE \E i \in 1..Len(timer_list) : timer_list[i].proc = p
    <2>1. PICK i \in 1..Len(timer_list) : timer_list' = RemoveAt(Inherit(i), i)
      BY <1>1 DEF del_timer
    <2>2. Len(timer_list) \in Nat
      BY TimersLength DEF TimersTyped
    <2>3. Timers(Inherit(i)) /\ Len(Inherit(i)) = Len(timer_list)
      <3>1. CASE i < Len(timer_list)
        <4> DEFINE left == timer_list[i + 1].expires + timer_list[i].expires
        <4>1. PICK k \in 1..Len(timer_list) : k = i + 1
          BY <2>2, <3>1
        <4>2. PICK u : u = Inherit(i)
          OBVIOUS
        <4>3. u = [timer_list EXCEPT ![k].expires = left]
          BY <3>1, <4>1, <4>2 DEF Inherit
        <4> HIDE DEF left
        <4>4. Timers(u) /\ Len(u) = Len(timer_list)
          BY <4>3, SetExpires DEF TimersTyped
        <4> QED
          BY <4>2, <4>4
      <3>2. CASE ~(i < Len(timer_list))
        BY <3>2 DEF Inherit, TimersTyped
      <3> QED
        BY <3>1, <3>2
    <2>4. Timers(RemoveAt(Inherit(i), i))
      BY <2>3, RemoveTimer
    <2> QED
      BY <2>1, <2>4 DEF TimersTyped
  <1>2. CASE ~\E i \in 1..Len(timer_list) : timer_list[i].proc = p
    BY <1>2 DEF del_timer, TimersTyped
  <1> QED
    BY <1>1, <1>2

(* The interrupt handler takes a tick from the first timer. *)
LEMMA TickTyped ==
  ASSUME TimersTyped, run_timer_list
  PROVE  TimersTyped'
  <1>1. CASE timer_list = <<>>
    BY <1>1 DEF run_timer_list, TimersTyped
  <1>2. CASE timer_list # <<>>
    <2>1. timer_list' = [timer_list EXCEPT ![1].expires = timer_list[1].expires - 1]
      BY <1>2 DEF run_timer_list
    <2>2. 1 \in 1..Len(timer_list)
      BY <1>2, TimersLength DEF TimersTyped
    <2> QED
      BY <2>1, <2>2, SetExpires DEF TimersTyped
  <1> QED
    BY <1>1, <1>2
-----------------------------------------------------------------------------
(* The boot: every process is in the run queue. *)
LEMMA SchedInitEffect ==
  ASSUME IsFiniteSet(Procs), NEW ready \in [1..Cardinality(Procs) -> Procs],
         \A p \in Procs : Contains(ready, p), SchedInit(ready)
  PROVE  SchedTyped /\ QueueOK
  <1> DEFINE n == Cardinality(Procs)
  <1>1. n \in Nat
    BY FS_CardinalityType
  <1>2. ready \in Seq(Procs) /\ Len(ready) = n
    BY <1>1
  <1>3. \A j, k \in 1..n : ready[j] = ready[k] => j = k
    <2>1. IsFiniteSet(1..n) /\ Cardinality(1..n) = n
      BY <1>1, FS_Interval
    <2>2. ready \in Surjection(1..n, Procs)
      BY <1>2 DEF Surjection, Contains
    <2>3. ready \in Injection(1..n, Procs)
      BY <2>1, <2>2, FS_SurjSameCardinalityImpliesInj
    <2> HIDE DEF n
    <2> QED
      BY <2>3 DEF Injection, IsInjective
  <1>4. /\ state = [p \in AllProcs |-> "RUNNABLE"] /\ wait_state = [p \in AllProcs |-> "0"]
        /\ run_list = ready /\ current = idleproc /\ timer_list = <<>>
    BY DEF SchedInit
  <1>5. SchedTyped
    <2>1. TimersTyped
      BY <1>4 DEF TimersTyped, Timers
    <2> QED
      BY <1>2, <1>4, <2>1 DEF SchedTyped, AllProcs
  <1>6. QueueOK
    <2>1. /\ \A k \in 1..Len(ready) : ready[k] \in Procs
          /\ \A p \in Procs : \E k \in 1..Len(ready) : ready[k] = p
      BY <1>2 DEF Contains
    <2> QED
      BY <1>2, <1>3, <1>4, <2>1, SchedAssumption DEF QueueOK, AllProcs
  <1> QED
    BY <1>5, <1>6

(* schedule() gives the CPU to a process that is RUNNABLE. *)
LEMMA ScheduleEffect ==
  ASSUME SchedTyped, QueueOK, schedule
  PROVE  /\ SchedTyped' /\ QueueOK'
         /\ UNCHANGED <<state, wait_state>>
         /\ current' \in Procs => state[current'] = "RUNNABLE"
  <1>1. run_list \in Seq(Procs) /\ Len(run_list) \in Nat
    BY DEF SchedTyped
  <1>2. /\ Requeued \in Seq(Procs)
        /\ \A k \in 1..Len(Requeued) : state[Requeued[k]] = "RUNNABLE"
        /\ \A p \in Procs : state[p] = "RUNNABLE" => \E k \in 1..Len(Requeued) : Requeued[k] = p
        /\ \A j, k \in 1..Len(Requeued) : Requeued[j] = Requeued[k] => j = k
    <2>1. CASE current # idleproc /\ state[current] = "RUNNABLE"
      <3>1. Requeued = Append(run_list, current) /\ current \in Procs
        BY <2>1 DEF SchedTyped, Requeued, AllProcs
      <3>2. /\ Requeued \in Seq(Procs) /\ Len(Requeued) = Len(run_list) + 1
            /\ Requeued[Len(run_list) + 1] = current
            /\ \A k \in 1..Len(run_list) : Requeued[k] = run_list[k]
        BY <1>1, <3>1
      <3>3. \A p \in Procs : state[p] = "RUNNABLE" => \E k \in 1..Len(Requeued) : Requeued[k] = p
        <4>1. Len(run_list) + 1 \in 1..Len(Requeued) /\ 1..Len(run_list) \subseteq 1..Len(Requeued)
          BY <1>1, <3>2
        <4> QED
          BY <3>2, <4>1 DEF QueueOK
      <3>4. \A k \in 1..Len(Requeued) : k \in 1..Len(run_list) \/ k = Len(run_list) + 1
        BY <1>1, <3>2
      <3>5. \A j, k \in 1..Len(Requeued) : Requeued[j] = Requeued[k] => j = k
        BY <3>2, <3>4 DEF QueueOK
      <3> QED
        BY <2>1, <3>2, <3>3, <3>4, <3>5 DEF QueueOK
    <2>2. CASE ~(current # idleproc /\ state[current] = "RUNNABLE")
      <3>1. Requeued = run_list /\ \A p \in Procs : state[p] = "RUNNABLE" => p # current
        BY <2>2, SchedAssumption DEF Requeued
      <3> QED
        BY <1>1, <3>1 DEF QueueOK
    <2> QED
      BY <2>1, <2>2
  <1>3. UNCHANGED <<state, wait_state>> /\ TimersTyped'
    BY DEF schedule, SchedTyped, TimersTyped
  <1>4. CASE Requeued = <<>>
    <2>1. current' = idleproc /\ run_list' = <<>>
      BY <1>4 DEF schedule
    <2>2. run_list' \in Seq(Procs) /\ Len(run_list') = 0
      BY <2>1
    <2>3. \A p \in Procs : state[p] # "RUNNABLE"
      <3>1. Len(Requeued) = 0
        BY <1>4
      <3> QED
        BY <1>2, <3>1
    <2>4. QueueOK'
      BY <1>3, <2>2, <2>3 DEF QueueOK
    <2> QED
      BY <1>3, <2>1, <2>2, <2>4, SchedAssumption DEF SchedTyped, AllProcs
  <1>5. CASE Requeued # <<>>
    <2>1. current' = Head(Requeued) /\ run_list' = Tail(Requeued)
      BY <1>5 DEF schedule
    <2>2. /\ 1 \in 1..Len(Requeued) /\ current' = Requeued[1] /\ current' \in Procs
          /\ run_list' \in Seq(Procs) /\ Len(run_list') = Len(Requeued) - 1
          /\ \A k \in 1..Len(run_list') : run_list'[k] = Requeued[k + 1] /\ k + 1 \in 1..Len(Requeued)
      BY <1>2, <1>5, <2>1
    <2>3. QueueOK'
      <3>1. \A k \in 1..Len(run_list') : state'[run_list'[k]] = "RUNNABLE" /\ run_list'[k] # current'
        BY <1>2, <1>3, <2>2
      <3>2. \A j, k \in 1..Len(run_list') : run_list'[j] = run_list'[k] => j = k
        BY <1>2, <2>2
      <3>3. ASSUME NEW p \in Procs, state'[p] = "RUNNABLE", p # current'
            PROVE  \E k \in 1..Len(run_list') : run_list'[k] = p
        <4>1. PICK k \in 1..Len(Requeued) : Requeued[k] = p
          BY <1>2, <1>3, <3>3
        <4>2. k - 1 \in 1..Len(run_list') /\ (k - 1) + 1 = k
          BY <1>2, <2>2, <3>3, <4>1
        <4> QED
          BY <2>2, <4>1, <4>2
      <3> QED
        BY <3>1, <3>2, <3>3 DEF QueueOK
    <2> QED
      BY <1>2, <1>3, <2>2, <2>3 DEF SchedTyped, AllProcs
  <1> QED
    BY <1>4, <1>5

(* wakeup_proc(p) makes p RUNNABLE. *)
LEMMA WakeEffect ==
  ASSUME SchedTyped, QueueOK, NEW p \in Procs, wakeup_proc(p),
         UNCHANGED current, TimersTyped'
  PROVE  /\ SchedTyped' /\ QueueOK'
         /\ state' = [state EXCEPT ![p] = "RUNNABLE"]
         /\ wait_state' = IF state[p] = "RUNNABLE" THEN wait_state ELSE [wait_state EXCEPT ![p] = "0"]
  <1>1. run_list \in Seq(Procs) /\ Len(run_list) \in Nat /\ p \in AllProcs
    BY DEF SchedTyped, AllProcs
  <1>2. CASE state[p] = "RUNNABLE"
    BY <1>1, <1>2 DEF wakeup_proc, SchedTyped, QueueOK
  <1>3. CASE state[p] # "RUNNABLE"
    <2>1. /\ state' = [state EXCEPT ![p] = "RUNNABLE"] /\ state'[p] = "RUNNABLE"
          /\ wait_state' = [wait_state EXCEPT ![p] = "0"]
          /\ run_list' = IF Enqueues(p) THEN Append(run_list, p) ELSE run_list
      BY <1>1, <1>3 DEF wakeup_proc, SchedTyped
    <2>2. \A k \in 1..Len(run_list) :
            /\ state'[run_list[k]] = "RUNNABLE" /\ run_list[k] # current /\ run_list[k] # p
      BY <1>1, <1>3, <2>1 DEF QueueOK, SchedTyped, AllProcs
    <2>3. run_list' \in Seq(Procs) /\ QueueOK'
      <3>1. CASE Enqueues(p)
        <4>1. /\ run_list' \in Seq(Procs) /\ Len(run_list') = Len(run_list) + 1
              /\ run_list'[Len(run_list) + 1] = p
              /\ \A k \in 1..Len(run_list) : run_list'[k] = run_list[k]
          BY <1>1, <2>1, <3>1
        <4>2. p # current
          BY <3>1 DEF Enqueues
        <4>3. \A k \in 1..Len(run_list') : state'[run_list'[k]] = "RUNNABLE" /\ run_list'[k] # current'
          BY <1>1, <2>1, <2>2, <4>1, <4>2
        <4>4. \A j, k \in 1..Len(run_list') : run_list'[j] = run_list'[k] => j = k
          BY <1>1, <2>2, <4>1 DEF QueueOK
        <4>5. ASSUME NEW r \in Procs, state'[r] = "RUNNABLE", r # current'
              PROVE  \E k \in 1..Len(run_list') : run_list'[k] = r
          <5>1. CASE r = p
            BY <1>1, <4>1, <5>1
          <5>2. CASE r # p
            <6>1. state[r] = "RUNNABLE"
              BY <1>1, <2>1, <4>5, <5>2 DEF SchedTyped, AllProcs
            <6>2. PICK k \in 1..Len(run_list) : run_list[k] = r
              BY <4>5, <6>1 DEF QueueOK
            <6> QED
              BY <1>1, <4>1, <6>2
          <5> QED
            BY <5>1, <5>2
        <4> QED
          BY <4>1, <4>3, <4>4, <4>5 DEF QueueOK
      <3>2. CASE ~Enqueues(p)
        <4>1. p = current /\ run_list' = run_list
          BY <2>1, <3>2, SchedAssumption DEF Enqueues
        <4>2. \A r \in Procs : r # p => state'[r] = state[r]
          BY <1>1, <2>1 DEF SchedTyped, AllProcs
        <4> QED
          BY <1>1, <2>2, <4>1, <4>2 DEF QueueOK
      <3> QED
        BY <3>1, <3>2
    <2> QED
      BY <1>1, <1>3, <2>1, <2>3 DEF SchedTyped
  <1> QED
    BY <1>2, <1>3
================================================================================
