-------------------------------- MODULE Sync --------------------------------
(***************************************************************************)
(* Processes that use the semaphores and timers of lab7 in any order:      *)
(* kernel threads, and user processes by system calls.  Each takes a unit  *)
(* of a semaphore, does something that may sleep, and gives the unit back; *)
(* it sleeps; it is killed and exits.                                      *)
(*                                                                         *)
(* A kernel thread has the interrupts on wherever it is not between        *)
(* local_intr_save and local_intr_restore, and keeps the CPU until it      *)
(* calls schedule().  A user process has them on in user mode only; trap() *)
(* looks at PF_EXITING and need_resched on the way back there.             *)
(***************************************************************************)
EXTENDS Semaphore

CONSTANTS
  Threads,      \* the members of Procs that are kernel threads
  MAX_VALUE,    \* the initial value of each semaphore
  MAX_SLEEP     \* bound: the longest time given to do_sleep

None == "none"

ASSUME SyncAssumption ==
  /\ IsFiniteSet(Procs) /\ Threads \subseteq Procs
  /\ None \notin Sems
  /\ MAX_VALUE \in Nat /\ MAX_SLEEP \in Nat \ {0}

VARIABLES
  exiting,    \* proc->flags & PF_EXITING
  pc,         \* where the process continues
  sem,        \* the semaphore it is in down() for, or has a unit of
  ret         \* where do_sleep returns to

procVars == <<exiting, pc, sem, ret>>
vars == <<schedVars, semVars, procVars>>

Outside(p) == IF p \in Threads THEN "run" ELSE "trap_exit"

Init ==
  /\ \E ready \in [1..Cardinality(Procs) -> Procs] :
       /\ \A p \in Procs : Contains(ready, p)
       /\ SchedInit(ready)
  /\ SemInit([s \in Sems |-> MAX_VALUE])
  /\ exiting = [p \in AllProcs |-> FALSE]
  /\ pc = [p \in AllProcs |-> IF p = idleproc THEN "cpu_idle" ELSE "run"]
  /\ sem = [p \in AllProcs |-> None]
  /\ ret = [p \in AllProcs |-> None]

At(loc) == current \in Procs /\ Running(current) /\ pc[current] = loc
Goto(loc) == pc' = [pc EXCEPT ![current] = loc]
-----------------------------------------------------------------------------
(* down and up around a critical section. *)
sem_down(s) ==
  /\ At("run")
  /\ \/ down_takes(s) /\ Goto("critical")
     \/ down_waits(s) /\ Goto("down")
  /\ sem' = [sem EXCEPT ![current] = s]
  /\ UNCHANGED <<exiting, ret>>

down_schedule ==
  /\ At("down")
  /\ schedule
  /\ Goto("down_ret")
  /\ UNCHANGED <<semVars, exiting, sem, ret>>

sem_down_returns ==
  /\ At("down_ret")
  /\ down_returns(sem[current])
  /\ Goto("critical")
  /\ UNCHANGED <<exiting, sem, ret>>

sem_try_down(s) ==
  /\ At("run")
  /\ \/ down_takes(s) /\ Goto("critical") /\ sem' = [sem EXCEPT ![current] = s]
     \/ /\ ~HasUnit(s)
        /\ Goto(Outside(current))
        /\ UNCHANGED <<schedVars, semVars, sem>>
  /\ UNCHANGED <<exiting, ret>>

sem_up ==
  /\ At("critical")
  /\ up(sem[current])
  /\ sem' = [sem EXCEPT ![current] = None]
  /\ Goto(Outside(current))
  /\ UNCHANGED <<exiting, ret>>
-----------------------------------------------------------------------------
(* do_sleep: the timer is set, schedule() is called, and the timer is      *)
(* deleted in case something else woke the process.                        *)
do_sleep(n) ==
  /\ At("run") \/ At("critical")
  /\ fall_asleep("WT_TIMER")
  /\ add_timer(current, n)
  /\ ret' = [ret EXCEPT ![current] = IF pc[current] = "run" THEN Outside(current) ELSE "critical"]
  /\ Goto("sleep")
  /\ UNCHANGED <<need_resched, time_slice, run_list, current, tick, panic, semVars, exiting, sem>>

sleep_schedule ==
  /\ At("sleep")
  /\ schedule
  /\ Goto("sleep_ret")
  /\ UNCHANGED <<semVars, exiting, sem, ret>>

sleep_returns ==
  /\ At("sleep_ret")
  /\ del_timer(current)
  /\ Goto(ret[current])
  /\ ret' = [ret EXCEPT ![current] = None]
  /\ UNCHANGED <<state, wait_state, need_resched, time_slice, run_list, current, tick, panic,
                 semVars, exiting, sem>>
-----------------------------------------------------------------------------
Bug_KillWakes(q) == state[q] = "SLEEPING"   \* any wait is interrupted

(* do_kill wakes its target only out of an interruptible wait. *)
KillWakes(q) == wait_state[q] \in Interruptible

sys_kill(q) ==
  /\ At("run") /\ current \notin Threads
  /\ exiting' = [exiting EXCEPT ![q] = TRUE]
  /\ IF ~exiting[q] /\ KillWakes(q)
     THEN wakeup_proc(q) /\ UNCHANGED <<need_resched, current, timer_list, tick>>
     ELSE UNCHANGED schedVars
  /\ Goto("trap_exit")
  /\ UNCHANGED <<semVars, sem, ret>>

(* do_exit, of which this module keeps that the process is a zombie and    *)
(* calls schedule().  A kernel thread gets here when it returns.           *)
do_exit ==
  /\ \/ At("run")
     \/ At("trap_exit") /\ exiting[current]
  /\ state' = [state EXCEPT ![current] = "ZOMBIE"]
  /\ Goto("exit")
  /\ UNCHANGED <<wait_state, need_resched, time_slice, run_list, current, timer_list,
                 tick, panic, semVars, exiting, sem, ret>>

exit_schedule ==
  /\ At("exit")
  /\ schedule
  /\ Goto("dead")
  /\ UNCHANGED <<semVars, exiting, sem, ret>>

(* The end of trap() for a trap from user mode. *)
trap_exit ==
  /\ At("trap_exit") /\ ~exiting[current]
  /\ Goto("run")
  /\ IF need_resched[current] THEN schedule ELSE UNCHANGED schedVars
  /\ UNCHANGED <<semVars, exiting, sem, ret>>
-----------------------------------------------------------------------------
(* The interrupts are on. *)
InterruptsOn == current \in Threads \cup {idleproc} \/ pc[current] = "run"

TimerInterrupt ==
  /\ InterruptsOn
  /\ run_timer_list
  /\ UNCHANGED <<semVars, procVars>>

TimerExpires == timer_expires /\ UNCHANGED <<semVars, procVars>>

(* The interrupt of a user process ends with the end of trap(). *)
TimerReturns ==
  /\ timer_returns
  /\ IF current \in Procs \ Threads THEN Goto("trap_exit") ELSE UNCHANGED pc
  /\ UNCHANGED <<semVars, exiting, sem, ret>>

Idle == cpu_idle /\ UNCHANGED <<semVars, procVars>>

(* The kernel code of the current process. *)
Kernel ==
  \/ down_schedule \/ sem_down_returns
  \/ sleep_schedule \/ sleep_returns
  \/ exit_schedule \/ (do_exit /\ pc[current] = "trap_exit") \/ trap_exit
  \/ Idle

Handler == TimerExpires \/ TimerReturns

Next ==
  \/ Kernel \/ do_exit \/ sem_up \/ TimerInterrupt \/ Handler
  \/ \E s \in Sems : sem_down(s) \/ sem_try_down(s)
  \/ \E n \in 1..MAX_SLEEP : do_sleep(n)
  \/ \E q \in Procs : sys_kill(q)

Spec == Init /\ [][Next]_vars

(* The handler runs to its end, kernel code gets on between two ticks of   *)
(* the clock, the clock ticks whenever the interrupts are on again and     *)
(* again, and critical sections end.                                       *)
FairSpec ==
  /\ Spec
  /\ WF_vars(Handler)
  /\ SF_vars(Kernel)
  /\ SF_vars(TimerInterrupt)
  /\ \A p \in Procs : SF_vars(sem_up /\ current = p)
-----------------------------------------------------------------------------
(* The values of the variables. *)
TypeOK ==
  /\ SchedTypeOK /\ SemTypeOK
  /\ exiting \in [AllProcs -> BOOLEAN]
  /\ pc \in [AllProcs -> {"cpu_idle", "run", "down", "down_ret", "critical", "sleep",
                          "sleep_ret", "trap_exit", "exit", "dead"}]
  /\ sem \in [AllProcs -> Sems \cup {None}]
  /\ ret \in [AllProcs -> {None, "run", "critical", "trap_exit"}]

(* The processes that own a unit of s: those past down(s), and those that  *)
(* up() has handed one to and that have not run since.                     *)
Owners(s) ==
  {p \in Procs : /\ sem[p] = s
                 /\ pc[p] \in {"down", "down_ret"} => wakeup_flags[p] = "WT_KSEM"}

(* Units are neither lost nor made, by kills, timers and interrupts in the *)
(* middle of down() either, and no dead process has one.                   *)
UnitsConserved ==
  \A s \in Sems : value[s] + Cardinality(Owners(s)) = MAX_VALUE

(* A process asleep in do_sleep has a timer that will wake it, and a timer *)
(* is of a process in do_sleep.                                            *)
TimersOK ==
  /\ \A p \in Procs : wait_state[p] = "WT_TIMER" =>
       Cardinality({k \in 1..Len(timer_list) : timer_list[k].proc = p}) = 1
  /\ \A k \in 1..Len(timer_list) : pc[timer_list[k].proc] \in {"sleep", "sleep_ret"}

(* The ticks until the timer of p expires, 0 if it has none. *)
Alarm(p) ==
  LET due[k \in 0..Len(timer_list)] ==
        IF k = 0 THEN 0 ELSE due[k - 1] + timer_list[k].expires
      own == {k \in 1..Len(timer_list) : timer_list[k].proc = p}
  IN  IF own = {} THEN 0 ELSE due[CHOOSE k \in own : TRUE]

alarm == [p \in Procs |-> Alarm(p)]

Alarms == INSTANCE Alarm

Counted ==   \* the operations do what is theirs to the countdowns, and no other step does
  /\ \A n \in 1..MAX_SLEEP : do_sleep(n) => Alarms!Sleep(current, n)
  /\ TimerInterrupt => Alarms!Tick
  /\ \/ \E n \in 1..MAX_SLEEP : do_sleep(n)
     \/ TimerInterrupt
     \/ sleep_returns /\ Alarms!Cancel(current)
     \/ UNCHANGED alarm

(* The list of relative expiries is one countdown for each sleeper, of the *)
(* ticks it has asked for: adding and deleting timers disturbs nobody      *)
(* else's, and each tick is counted once for everybody.                    *)
AlarmSpec == Alarms!Spec /\ [][Counted]_vars

(* Every down() returns and every do_sleep() returns. *)
DownReturns == \A p \in Procs : pc[p] = "down" ~> pc[p] = "critical"
SleepReturns == \A p \in Procs : pc[p] = "sleep" ~> pc[p] \notin {"sleep", "sleep_ret"}

(* Round robin is fair: every runnable process gets the CPU. *)
NoStarvation == \A p \in Procs : state[p] = "RUNNABLE" ~> current = p
=============================================================================
