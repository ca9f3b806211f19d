------------------------------ MODULE Semaphore ------------------------------
(***************************************************************************)
(* The semaphores of lab7/kern/sync/sem.c and the wait queues of wait.c    *)
(* that they are made of, on the scheduler of Sched.  A wait_t lives on    *)
(* the stack of the process that waits, so it is named by that process.    *)
(*                                                                         *)
(* down() is in pieces, cut where the interrupts are on: it takes a unit   *)
(* (down_takes), or it queues the process (down_waits), which then calls   *)
(* schedule() and finds out how it was woken (down_returns).               *)
(***************************************************************************)
EXTENDS Sched

CONSTANT Sems

VARIABLES
  value,          \* sem->value
  wait_queue,     \* sem->wait_queue, the processes in it
  wakeup_flags    \* wait->wakeup_flags of the process's wait_t

semVars == <<value, wait_queue, wakeup_flags>>

(* sem_init *)
SemInit(init) ==
  /\ value = init
  /\ wait_queue = [s \in Sems |-> <<>>]
  /\ wakeup_flags = [p \in AllProcs |-> "0"]

(* wait_in_queue and wait_queue_del. *)
QueueDel(s, p) ==
  IF Contains(wait_queue[s], p)
  THEN \E i \in 1..Len(wait_queue[s]) :
         wait_queue[s][i] = p /\ wait_queue' = [wait_queue EXCEPT ![s] = RemoveAt(@, i)]
  ELSE UNCHANGED wait_queue
-----------------------------------------------------------------------------
Bug_wait_queue_first(s) == Len(wait_queue[s])   \* the last one

(* The entry of the queue that up() wakes. *)
wait_queue_first(s) == 1

(* A unit goes to the first process in the queue, or else into value. *)
up(s) ==
  IF wait_queue[s] = <<>>
  THEN /\ value' = [value EXCEPT ![s] = @ + 1]
       /\ UNCHANGED <<schedVars, wait_queue, wakeup_flags>>
  ELSE LET p == wait_queue[s][wait_queue_first(s)] IN
       /\ IF wait_state[p] = "WT_KSEM"
          THEN wakeup_proc(p)
          ELSE assert(FALSE) /\ UNCHANGED <<state, wait_state, run_list, time_slice>>
       /\ wait_queue' = [wait_queue EXCEPT ![s] = RemoveAt(@, wait_queue_first(s))]
       /\ wakeup_flags' = [wakeup_flags EXCEPT ![p] = "WT_KSEM"]
       /\ UNCHANGED <<need_resched, current, timer_list, tick, value>>

Bug_HasUnit(s) == value[s] >= 0

(* The test of __down and try_down. *)
HasUnit(s) == value[s] > 0

(* __down when there is a unit, and a try_down that succeeds. *)
down_takes(s) ==
  /\ HasUnit(s)
  /\ value' = [value EXCEPT ![s] = @ - 1]
  /\ UNCHANGED <<schedVars, wait_queue, wakeup_flags>>

(* __down when there is none: wait_current_set. *)
down_waits(s) ==
  /\ ~HasUnit(s)
  /\ fall_asleep("WT_KSEM")
  /\ wakeup_flags' = [wakeup_flags EXCEPT ![current] = "WT_INTERRUPTED"]
  /\ wait_queue' = [wait_queue EXCEPT ![s] = Append(@, current)]
  /\ UNCHANGED <<need_resched, time_slice, run_list, current, timer_list, tick,
                 panic, value>>

(* __down after schedule(), and the assertion of down(). *)
down_returns(s) ==
  /\ QueueDel(s, current)
  /\ assert(wakeup_flags[current] = "WT_KSEM")
  /\ wakeup_flags' = [wakeup_flags EXCEPT ![current] = "0"]
  /\ UNCHANGED <<state, wait_state, need_resched, time_slice, run_list, current,
                 timer_list, tick, value>>
-----------------------------------------------------------------------------
SemTypeOK ==
  /\ value \in [Sems -> Int]
  /\ wait_queue \in [Sems -> Seq(Procs)]
  /\ wakeup_flags \in [AllProcs -> {"0", "WT_INTERRUPTED", "WT_KSEM"}]

(* A process sleeps on a semaphore exactly while it is in one wait queue,  *)
(* and there is no unit left in a semaphore that somebody waits for.       *)
WaitQueuesOK ==
  /\ \A p \in Procs :
       Cardinality({e \in Sems \X (1..Cardinality(Procs)) :
                      e[2] <= Len(wait_queue[e[1]]) /\ wait_queue[e[1]][e[2]] = p})
         = IF state[p] = "SLEEPING" /\ wait_state[p] = "WT_KSEM" THEN 1 ELSE 0
  /\ \A s \in Sems : value[s] >= 0 /\ (value[s] > 0 => wait_queue[s] = <<>>)
=============================================================================
