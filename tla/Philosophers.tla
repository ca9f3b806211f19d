----------------------------- MODULE Philosophers -----------------------------
(***************************************************************************)
(* The dining philosophers of lab7/kern/sync/check_sync.c, the ones that   *)
(* use semaphores: N kernel threads on the scheduler, timers and           *)
(* semaphores of Sched and Semaphore, while user processes share the CPU   *)
(* and may kill a philosopher.                                             *)
(*                                                                         *)
(* Kernel threads have the interrupts on between the calls they make, so   *)
(* each call of down, up and do_sleep is an action of its own.             *)
(***************************************************************************)
EXTENDS Semaphore

CONSTANTS
  N,            \* the philosophers are 0 .. N-1
  TIMES,        \* how often each of them eats
  SLEEP_TIME,   \* how long thinking and eating take
  Users,        \* the user processes
  mutex         \* the semaphore that protects state_sema

Phils == 0..(N - 1)

ASSUME PhilosophersAssumption ==
  /\ N \in Nat /\ N >= 3
  /\ TIMES \in Nat /\ SLEEP_TIME \in Nat \ {0}
  /\ IsFiniteSet(Users) /\ Phils \cap Users = {} /\ Procs = Phils \cup Users
  /\ Sems = Phils \cup {mutex} /\ mutex \notin Phils

VARIABLES
  state_sema,
  iter,         \* the local variable of philosopher_using_semaphore
  exiting,      \* proc->flags & PF_EXITING
  pc,           \* where the process continues
  wanted,       \* the semaphore it is in down() for
  ret           \* where the function that called schedule() returns to

tableVars == <<state_sema, iter, exiting>>
vars == <<schedVars, semVars, tableVars, pc, wanted, ret>>

LEFT(i) == (i - 1 + N) % N
RIGHT(i) == (i + 1) % N

(* check_sync has initialised the semaphores and created the threads. *)
Init ==
  /\ \E ready \in [1..Cardinality(Procs) -> Procs] :
       /\ \A p \in Procs : Contains(ready, p)
       /\ \A i, j \in 1..Len(ready) :
            ready[i] \in Phils /\ ready[j] \in Phils /\ i < j => ready[i] < ready[j]
       /\ SchedInit(ready)
  /\ SemInit([s \in Sems |-> IF s = mutex THEN 1 ELSE 0])
  /\ state_sema = [i \in Phils |-> "THINKING"]
  /\ iter = [i \in Phils |-> 0]
  /\ exiting = [p \in AllProcs |-> FALSE]
  /\ pc = [p \in AllProcs |-> IF p \in Phils THEN "loop"
                              ELSE IF p \in Users THEN "user" ELSE "cpu_idle"]
  /\ wanted = [p \in AllProcs |-> mutex]
  /\ ret = [p \in AllProcs |-> "none"]

At(i, loc) == Running(i) /\ pc[i] = loc
Goto(i, loc) == pc' = [pc EXCEPT ![i] = loc]
-----------------------------------------------------------------------------
(* A call of down(s) at loc, and of do_sleep(SLEEP_TIME), that returns to  *)
(* next.                                                                   *)
Down(i, loc, s, next) ==
  /\ At(i, loc)
  /\ \/ down_takes(s) /\ Goto(i, next) /\ UNCHANGED <<wanted, ret>>
     \/ /\ down_waits(s)
        /\ Goto(i, "down")
        /\ wanted' = [wanted EXCEPT ![i] = s]
        /\ ret' = [ret EXCEPT ![i] = next]
  /\ UNCHANGED tableVars

down_schedule(i) ==
  /\ At(i, "down")
  /\ schedule
  /\ Goto(i, "down_ret")
  /\ UNCHANGED <<semVars, tableVars, wanted, ret>>

down_ret(i) ==
  /\ At(i, "down_ret")
  /\ down_returns(wanted[i])
  /\ Goto(i, ret[i])
  /\ wanted' = [wanted EXCEPT ![i] = mutex]
  /\ ret' = [ret EXCEPT ![i] = "none"]
  /\ UNCHANGED tableVars

do_sleep(i, next) ==
  /\ fall_asleep("WT_TIMER")
  /\ add_timer(i, SLEEP_TIME)
  /\ Goto(i, "sleep")
  /\ ret' = [ret EXCEPT ![i] = next]
  /\ UNCHANGED <<need_resched, time_slice, run_list, current, tick, panic, semVars,
                 state_sema, exiting, wanted>>

sleep_schedule(i) ==
  /\ At(i, "sleep")
  /\ schedule
  /\ Goto(i, "sleep_ret")
  /\ UNCHANGED <<semVars, tableVars, wanted, ret>>

sleep_ret(i) ==
  /\ At(i, "sleep_ret")
  /\ del_timer(i)
  /\ Goto(i, ret[i])
  /\ ret' = [ret EXCEPT ![i] = "none"]
  /\ UNCHANGED <<state, wait_state, need_resched, time_slice, run_list, current, tick,
                 panic, semVars, tableVars, wanted>>
-----------------------------------------------------------------------------
Bug_Free(j, st) == st[j] = "HUNGRY" /\ st[RIGHT(j)] # "EATING"

Bug_Free_any(j, st) == st[LEFT(j)] # "EATING" /\ st[RIGHT(j)] # "EATING"

(* The test of phi_test_sema. *)
Free(j, st) ==
  st[j] = "HUNGRY" /\ st[LEFT(j)] # "EATING" /\ st[RIGHT(j)] # "EATING"

(* phi_test_sema(j), in a step that has already made st the state_sema. *)
phi_test_sema(j, st) ==
  IF Free(j, st)
  THEN state_sema' = [st EXCEPT ![j] = "EATING"] /\ up(j)
  ELSE state_sema' = st /\ UNCHANGED <<schedVars, semVars>>

(* The condition of the loop of philosopher_using_semaphore. *)
Again(i) == iter[i] < TIMES

(* philosopher_using_semaphore: thinking, or the end. *)
think(i) ==
  /\ At(i, "loop")
  /\ Again(i)
  /\ iter' = [iter EXCEPT ![i] = @ + 1]
  /\ do_sleep(i, "take")

quit(i) ==
  /\ At(i, "loop")
  /\ ~Again(i)
  /\ state' = [state EXCEPT ![i] = "ZOMBIE"]
  /\ Goto(i, "exit")
  /\ UNCHANGED <<wait_state, need_resched, time_slice, run_list, current, timer_list,
                 tick, panic, semVars, tableVars, wanted, ret>>

exit_schedule(i) ==
  /\ At(i, "exit")
  /\ schedule
  /\ Goto(i, "dead")
  /\ UNCHANGED <<semVars, tableVars, wanted, ret>>

(* phi_take_forks_sema *)
take_lock(i) == Down(i, "take", mutex, "hungry")

take_test(i) ==
  /\ At(i, "hungry")
  /\ phi_test_sema(i, [state_sema EXCEPT ![i] = "HUNGRY"])
  /\ Goto(i, "take_unlock")
  /\ UNCHANGED <<iter, exiting, wanted, ret>>

take_unlock(i) ==
  /\ At(i, "take_unlock")
  /\ up(mutex)
  /\ Goto(i, "take_forks")
  /\ UNCHANGED <<tableVars, wanted, ret>>

take_forks(i) == Down(i, "take_forks", i, "eat")

eat(i) ==
  /\ At(i, "eat")
  /\ do_sleep(i, "put")
  /\ UNCHANGED iter

(* phi_put_forks_sema *)
put_lock(i) == Down(i, "put", mutex, "put_left")

Bug_put_left(i) ==   \* the right neighbour is forgotten
  /\ At(i, "put_left")
  /\ phi_test_sema(LEFT(i), [state_sema EXCEPT ![i] = "THINKING"])
  /\ Goto(i, "put_unlock")
  /\ UNCHANGED <<iter, exiting, wanted, ret>>

put_left(i) ==
  /\ At(i, "put_left")
  /\ phi_test_sema(LEFT(i), [state_sema EXCEPT ![i] = "THINKING"])
  /\ Goto(i, "put_right")
  /\ UNCHANGED <<iter, exiting, wanted, ret>>

put_right(i) ==
  /\ At(i, "put_right")
  /\ phi_test_sema(RIGHT(i), state_sema)
  /\ Goto(i, "put_unlock")
  /\ UNCHANGED <<iter, exiting, wanted, ret>>

put_unlock(i) ==
  /\ At(i, "put_unlock")
  /\ up(mutex)
  /\ Goto(i, "loop")
  /\ UNCHANGED <<tableVars, wanted, ret>>

Philosopher(i) ==
  \/ think(i) \/ quit(i) \/ exit_schedule(i)
  \/ take_lock(i) \/ take_test(i) \/ take_unlock(i) \/ take_forks(i) \/ eat(i)
  \/ put_lock(i) \/ put_left(i) \/ put_right(i) \/ put_unlock(i)
  \/ down_schedule(i) \/ down_ret(i) \/ sleep_schedule(i) \/ sleep_ret(i)
-----------------------------------------------------------------------------
(* A user process kills a philosopher: that only ends its sleep, since a   *)
(* kernel thread never passes the test of PF_EXITING in trap().            *)
sys_kill(u, i) ==
  /\ At(u, "user")
  /\ exiting' = [exiting EXCEPT ![i] = TRUE]
  /\ IF ~exiting[i] /\ wait_state[i] \in Interruptible
     THEN wakeup_proc(i) /\ UNCHANGED <<need_resched, current, timer_list, tick>>
     ELSE UNCHANGED schedVars
  /\ Goto(u, "trap_exit")
  /\ UNCHANGED <<semVars, state_sema, iter, wanted, ret>>

trap_exit(u) ==
  /\ At(u, "trap_exit")
  /\ Goto(u, "user")
  /\ IF need_resched[u] THEN schedule ELSE UNCHANGED schedVars
  /\ UNCHANGED <<semVars, tableVars, wanted, ret>>

TimerInterrupt ==
  /\ pc[current] # "trap_exit"
  /\ run_timer_list
  /\ UNCHANGED <<semVars, tableVars, pc, wanted, ret>>

TimerExpires == timer_expires /\ UNCHANGED <<semVars, tableVars, pc, wanted, ret>>

TimerReturns ==
  /\ timer_returns
  /\ IF current \in Users THEN Goto(current, "trap_exit") ELSE UNCHANGED pc
  /\ UNCHANGED <<semVars, tableVars, wanted, ret>>

Idle == cpu_idle /\ UNCHANGED <<semVars, tableVars, pc, wanted, ret>>

Kernel == (\E i \in Phils : Philosopher(i)) \/ (\E u \in Users : trap_exit(u)) \/ Idle

Handler == TimerExpires \/ TimerReturns

Next ==
  \/ Kernel \/ TimerInterrupt \/ Handler
  \/ \E u \in Users, i \in Phils : sys_kill(u, i)

(* The handler runs to its end, kernel code gets on between two ticks, and *)
(* the clock ticks.                                                        *)
Spec ==
  /\ Init /\ [][Next]_vars
  /\ WF_vars(Handler)
  /\ SF_vars(Kernel)
  /\ SF_vars(TimerInterrupt)
-----------------------------------------------------------------------------
(* The values of the variables. *)
TypeOK ==
  /\ SchedTypeOK /\ SemTypeOK
  /\ state_sema \in [Phils -> {"THINKING", "HUNGRY", "EATING"}]
  /\ iter \in [Phils -> 0..TIMES]
  /\ exiting \in [AllProcs -> BOOLEAN]
  /\ wanted \in [AllProcs -> Sems]

(* Philosopher i is between its two forks. *)
Eats(i) == pc[i] \in {"eat", "put", "put_left"} \/ ret[i] \in {"put", "put_left"}

(* Two neighbours never eat at the same time. *)
NeighboursApart == \A i \in Phils : Eats(i) => ~Eats(RIGHT(i))

(* The forks go with the semaphore: a philosopher that is EATING has got   *)
(* its unit of s[i], or the unit is there for it, and there is none for    *)
(* one that is not.                                                        *)
ForksGranted ==
  \A i \in Phils :
    /\ value[i] <= 1
    /\ state_sema[i] = "EATING" <=>
         Eats(i) \/ value[i] = 1 \/ (wanted[i] = i /\ wakeup_flags[i] = "WT_KSEM")

(* Only one philosopher at a time looks at state_sema, and since kernel    *)
(* threads are not preempted nobody ever waits for the mutex.              *)
MutexFree ==
  /\ wait_queue[mutex] = <<>>
  /\ value[mutex] + Cardinality({i \in Phils : pc[i] \in
       {"hungry", "take_unlock", "put_left", "put_right", "put_unlock"}}) = 1

(* No fork is withheld: a philosopher stays hungry only while a neighbour  *)
(* eats, once the mutex is free.                                           *)
NoForgottenPhilosopher ==
  value[mutex] = 1 => \A i \in Phils : ~Free(i, state_sema)

(* The dinner ends: every philosopher eats TIMES times and quits. *)
DinnerEnds == <>(\A i \in Phils : pc[i] = "dead" /\ iter[i] = TIMES)
=============================================================================
