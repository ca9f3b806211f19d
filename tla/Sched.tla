-------------------------------- MODULE Sched --------------------------------
(***************************************************************************)
(* The scheduling framework of lab7: the round robin run queue of          *)
(* kern/schedule/default_sched_c.c, wakeup_proc, schedule and the timer    *)
(* list of kern/schedule/sched.c.  The operators are the functions; the    *)
(* modules that extend this one say who calls them.                        *)
(*                                                                         *)
(* run_timer_list runs in the timer interrupt.  Its loop takes one action  *)
(* per expired timer; interrupts are off, so nothing else happens until    *)
(* the loop has ended (see Running).                                       *)
(***************************************************************************)
EXTENDS Integers, Sequences, FiniteSets, SequencesExt

CONSTANTS
  Procs,            \* the processes other than idleproc
  idleproc,
  MAX_TIME_SLICE    \* the time slice of the run queue

ASSUME SchedAssumption ==
  /\ idleproc \notin Procs
  /\ MAX_TIME_SLICE \in Nat \ {0}

VARIABLES
  state,         \* proc->state
  wait_state,    \* proc->wait_state
  need_resched,  \* proc->need_resched
  time_slice,    \* proc->time_slice
  run_list,      \* the run queue
  current,
  timer_list,    \* the timers, each with the process that sleeps and expires
  tick,          \* where the timer interrupt is: not "none" inside run_timer_list
  panic          \* "no" until an assertion fails

schedVars == <<state, wait_state, need_resched, time_slice, run_list, current,
               timer_list, tick, panic>>

AllProcs == Procs \cup {idleproc}

(* WT_INTERRUPTED is set in these wait states. *)
Interruptible == {"WT_CHILD", "WT_TIMER"}

Timer(p, n) == [proc |-> p, expires |-> n]

(* The CPU executes the code of current, not the interrupt handler. *)
Running(p) == panic = "no" /\ tick = "none" /\ current = p

(* The processes in ready are in the run queue, idleproc has the CPU. *)
SchedInit(ready) ==
  /\ state = [p \in AllProcs |-> "RUNNABLE"]
  /\ wait_state = [p \in AllProcs |-> "0"]
  /\ need_resched = [p \in AllProcs |-> p = idleproc]
  /\ time_slice = [p \in AllProcs |-> IF p = idleproc THEN 0 ELSE MAX_TIME_SLICE]
  /\ run_list = ready
  /\ current = idleproc
  /\ timer_list = <<>>
  /\ tick = "none"
  /\ panic = "no"

assert(cond) == panic' = IF cond THEN panic ELSE "assert"

-----------------------------------------------------------------------------
(* A definition named Bug_x is the definition x with a plausible mistake;  *)
(* the mutation runs put it in the place of x.                             *)
-----------------------------------------------------------------------------
(* The time slice that RR_enqueue gives a process it adds to run_list. *)
Refilled(p) ==
  [time_slice EXCEPT ![p] = IF @ = 0 \/ @ > MAX_TIME_SLICE THEN MAX_TIME_SLICE ELSE @]

Bug_Enqueues_never(p) == FALSE    \* what is woken is not queued

(* wakeup_proc enqueues what it wakes, unless that has the CPU. *)
Enqueues(p) == p # current /\ p # idleproc

wakeup_proc(p) ==
  IF state[p] = "RUNNABLE"
  THEN UNCHANGED <<state, wait_state, run_list, time_slice, panic>>
  ELSE /\ state' = [state EXCEPT ![p] = "RUNNABLE"]
       /\ wait_state' = [wait_state EXCEPT ![p] = "0"]
       /\ IF Enqueues(p)
          THEN run_list' = Append(run_list, p) /\ time_slice' = Refilled(p)
          ELSE UNCHANGED <<run_list, time_slice>>
       /\ assert(state[p] # "ZOMBIE" /\ (Enqueues(p) => ~Contains(run_list, p)))

Bug_Requeued ==   \* a process that was made RUNNABLE before it got here is lost
  IF current # idleproc /\ need_resched[current] THEN Append(run_list, current) ELSE run_list

(* The run queue once schedule() has put current back. *)
Requeued ==
  IF current # idleproc /\ state[current] = "RUNNABLE"
  THEN Append(run_list, current) ELSE run_list

schedule ==
  /\ need_resched' = [need_resched EXCEPT ![current] = FALSE]
  /\ time_slice' = IF Requeued # run_list THEN Refilled(current) ELSE time_slice
  /\ IF Requeued = <<>>
     THEN current' = idleproc /\ run_list' = <<>>
     ELSE current' = Head(Requeued) /\ run_list' = Tail(Requeued)
  /\ assert(Requeued # run_list => ~Contains(run_list, current))
  /\ UNCHANGED <<state, wait_state, timer_list, tick>>

(* proc->state = PROC_SLEEPING, ahead of a call of schedule(). *)
fall_asleep(ws) ==
  /\ state' = [state EXCEPT ![current] = "SLEEPING"]
  /\ wait_state' = [wait_state EXCEPT ![current] = ws]
-----------------------------------------------------------------------------
(* add_timer: the expiry of a timer counts from the one before it.  The    *)
(* loop walks down the list; Left is timer->expires when it gets to entry  *)
(* k, and it stops at the first entry that expires later.                  *)
Left(n) ==
  LET left[k \in 1..(Len(timer_list) + 1)] ==
        IF k = 1 THEN n ELSE left[k - 1] - timer_list[k - 1].expires
  IN  left

Stops(n, k) == k = Len(timer_list) + 1 \/ Left(n)[k] < timer_list[k].expires

add_timer(p, n) ==
  LET at == CHOOSE k \in 1..(Len(timer_list) + 1) :
              Stops(n, k) /\ \A j \in 1..(k - 1) : ~Stops(n, j)
  IN  timer_list' =
        [k \in 1..(Len(timer_list) + 1) |->
           IF k < at THEN timer_list[k]
           ELSE IF k = at THEN Timer(p, Left(n)[at])
           ELSE IF k = at + 1 THEN [timer_list[at] EXCEPT !.expires = @ - Left(n)[at]]
           ELSE timer_list[k - 1]]

Bug_Inherit(i) == timer_list   \* the ticks of a deleted timer are lost

(* del_timer: the timer after entry i takes over its ticks. *)
Inherit(i) ==
  IF i < Len(timer_list)
  THEN [timer_list EXCEPT ![i + 1].expires = @ + timer_list[i].expires] ELSE timer_list

Bug_del_timer(p) == UNCHANGED timer_list   \* the timer stays in the list

del_timer(p) ==
  IF \E i \in 1..Len(timer_list) : timer_list[i].proc = p
  THEN \E i \in 1..Len(timer_list) :
         timer_list[i].proc = p /\ timer_list' = RemoveAt(Inherit(i), i)
  ELSE UNCHANGED timer_list
-----------------------------------------------------------------------------
(* The timer interrupt, run_timer_list: the first timer loses a tick. *)
run_timer_list ==
  /\ panic = "no" /\ tick = "none"
  /\ IF timer_list = <<>>
     THEN UNCHANGED <<timer_list, panic>>
     ELSE /\ assert(timer_list[1].expires # 0)
          /\ timer_list' = [timer_list EXCEPT ![1].expires = @ - 1]
  /\ tick' = "loop"
  /\ UNCHANGED <<state, wait_state, need_resched, time_slice, run_list, current>>

Expired == timer_list # <<>> /\ timer_list[1].expires = 0

(* A turn of its loop wakes the process of an expired timer. *)
timer_expires ==
  LET p == timer_list[1].proc IN
  /\ panic = "no" /\ tick = "loop" /\ Expired
  /\ IF wait_state[p] \in Interruptible \cup {"0"}
     THEN wakeup_proc(p)
     ELSE assert(FALSE) /\ UNCHANGED <<state, wait_state, run_list, time_slice>>
  /\ timer_list' = Tail(timer_list)
  /\ UNCHANGED <<need_resched, current, tick>>

Bug_proc_tick(p) ==   \* the slice is spent, but nobody is told
  time_slice' = [time_slice EXCEPT ![p] = IF @ > 0 THEN @ - 1 ELSE @] /\ UNCHANGED need_resched

(* sched_class_proc_tick and RR_proc_tick. *)
proc_tick(p) ==
  IF p = idleproc
  THEN need_resched' = [need_resched EXCEPT ![p] = TRUE] /\ UNCHANGED time_slice
  ELSE /\ time_slice' = [time_slice EXCEPT ![p] = IF @ > 0 THEN @ - 1 ELSE @]
       /\ need_resched' = [need_resched EXCEPT ![p] = @ \/ time_slice'[p] = 0]

timer_returns ==
  /\ panic = "no" /\ tick = "loop" /\ ~Expired
  /\ proc_tick(current)
  /\ tick' = "none"
  /\ UNCHANGED <<state, wait_state, run_list, current, timer_list, panic>>

cpu_idle ==
  /\ Running(idleproc) /\ need_resched[idleproc]
  /\ schedule
-----------------------------------------------------------------------------
SchedTypeOK ==
  /\ state \in [AllProcs -> {"RUNNABLE", "SLEEPING", "ZOMBIE"}]
  /\ wait_state \in [AllProcs -> {"0", "WT_TIMER", "WT_KSEM", "WT_CHILD"}]
  /\ need_resched \in [AllProcs -> BOOLEAN]
  /\ time_slice \in [AllProcs -> 0..MAX_TIME_SLICE]
  /\ run_list \in Seq(Procs)
  /\ current \in AllProcs
  /\ timer_list \in Seq([proc : Procs, expires : Nat])
  /\ tick \in {"none", "loop"}
  /\ panic \in {"no", "assert"}

(* The run queue holds every runnable process that does not have the CPU,  *)
(* once, and nothing else: not the process that a timer interrupt woke     *)
(* between its falling asleep and its call of schedule().                  *)
RunQueueOK ==
  /\ \A p \in Procs : Contains(run_list, p) <=> state[p] = "RUNNABLE" /\ p # current
  /\ \A j, k \in 1..Len(run_list) : run_list[j] = run_list[k] => j = k

(* No assertion of the kernel fails: wakeup_proc never gets a zombie, what *)
(* RR_enqueue inserts is in no queue, up() and the expired timer find      *)
(* their process in the wait state they expect, down() returns with a unit *)
(* and no timer is overdue at a tick.                                      *)
AssertsHold == panic = "no"
=============================================================================
