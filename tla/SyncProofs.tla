----------------------------- MODULE SyncProofs ------------------------------
(***************************************************************************)
(* For every set of threads, user processes and semaphores and every       *)
(* length of sleep: the run queue is right, no unit of a semaphore is lost *)
(* or made, a process asleep on a semaphore is in one wait queue, once,    *)
(* one in do_sleep has one timer, the list of relative expiries is one     *)
(* countdown for each sleeper, and no assertion fails.                     *)
(***************************************************************************)
EXTENDS Sync, SemaphoreProofs

Locs ==
  {"cpu_idle", "run", "down", "down_ret", "critical", "sleep", "sleep_ret", "trap_exit",
   "exit", "dead"}

(* The process is inside down(), or inside do_sleep(). *)
InDown(p) == pc[p] \in {"down", "down_ret"}
InSleep(p) == pc[p] \in {"sleep", "sleep_ret"}

(* The process with the CPU is RUNNABLE, unless it is about to call        *)
(* schedule(): nobody else takes the CPU from it or puts it to sleep.      *)
Scheduling ==
  /\ SchedTyped /\ QueueOK
  /\ current \in Procs =>
       pc[current] \in {"down", "sleep", "exit"} \/ state[current] = "RUNNABLE"

Typing ==
  /\ value \in [Sems -> Int]
  /\ wait_queue \in [Sems -> Seq(Procs)]
  /\ wakeup_flags \in [AllProcs -> {"0", "WT_INTERRUPTED", "WT_KSEM"}]
  /\ pc \in [AllProcs -> Locs]
  /\ sem \in [AllProcs -> Sems \cup {None}]
  /\ ret \in [AllProcs -> {None, "run", "critical", "trap_exit"}]

(* Where a process may be, whatever it waits for. *)
Place(p) == IF InSleep(p) THEN ret[p] ELSE pc[p]

(* A process names a semaphore exactly while it is in down() for it or has *)
(* a unit of it.                                                           *)
Located ==
  \A p \in Procs :
    /\ Place(p) \in {"down", "down_ret", "critical"} => sem[p] \in Sems
    /\ Place(p) \in {"run", "trap_exit", "exit", "dead"} => sem[p] = None
    /\ InSleep(p) => ret[p] \in {"run", "critical", "trap_exit"}
    /\ pc[p] # "cpu_idle"

(* A process in down() sleeps until up() has marked its wait_t, and is in  *)
(* the queue of the semaphore it wants only before that.                   *)
Waiting ==
  \A p \in Procs : InDown(p) =>
    /\ wakeup_flags[p] \in {"WT_INTERRUPTED", "WT_KSEM"}
    /\ wakeup_flags[p] = "WT_INTERRUPTED" => state[p] = "SLEEPING" /\ wait_state[p] = "WT_KSEM"

Queued ==
  \A s \in Sems :
    /\ \A k \in 1..Len(wait_queue[s]) :
         /\ InDown(wait_queue[s][k])
         /\ sem[wait_queue[s][k]] = s
         /\ wakeup_flags[wait_queue[s][k]] = "WT_INTERRUPTED"
    /\ \A j, k \in 1..Len(wait_queue[s]) : wait_queue[s][j] = wait_queue[s][k] => j = k

IInv == Scheduling /\ Typing /\ Located /\ Waiting /\ Queued /\ UnitsConserved
-----------------------------------------------------------------------------
(* p is one of the Owners of s. *)
Owns(p, s) == sem[p] = s /\ (InDown(p) => wakeup_flags[p] = "WT_KSEM")

LEMMA OwnersOf ==
  \A s \in Sems : /\ Owners(s) = {p \in Procs : Owns(p, s)}
                  /\ IsFiniteSet(Owners(s)) /\ Cardinality(Owners(s)) \in Nat
  <1> SUFFICES ASSUME NEW s \in Sems
               PROVE  /\ Owners(s) = {p \in Procs : Owns(p, s)}
                      /\ IsFiniteSet(Owners(s)) /\ Cardinality(Owners(s)) \in Nat
    OBVIOUS
  <1>1. Owners(s) = {p \in Procs : Owns(p, s)}
    BY DEF Owners, Owns, InDown
  <1>2. Owners(s) \subseteq Procs /\ IsFiniteSet(Procs)
    BY SyncAssumption DEF Owners
  <1> QED
    BY <1>1, <1>2, FS_Subset, FS_CardinalityType

LEMMA OwnersNext ==
  \A s \in Sems : Owners(s)' = {p \in Procs : Owns(p, s)'}
  BY DEF Owners, Owns, InDown

LEMMA UnitsSame ==
  ASSUME IInv, \A s \in Sems : value'[s] = value[s],
         \A p \in Procs, s \in Sems : Owns(p, s)' <=> Owns(p, s)
  PROVE  UnitsConserved'
  <1>1. \A s \in Sems : Owners(s)' = Owners(s)
    BY OwnersOf, OwnersNext
  <1> QED
    BY <1>1 DEF IInv, UnitsConserved

(* c takes a unit of t. *)
LEMMA UnitTaken ==
  ASSUME IInv, NEW c \in Procs, NEW t \in Sems,
         value' = [value EXCEPT ![t] = @ - 1],
         \A s \in Sems : ~Owns(c, s) /\ (Owns(c, s)' <=> s = t),
         \A p \in Procs \ {c}, s \in Sems : Owns(p, s)' <=> Owns(p, s)
  PROVE  UnitsConserved'
  <1>1. \A s \in Sems \ {t} : Owners(s)' = Owners(s)
    <2>1. \A p \in Procs, s \in Sems \ {t} : Owns(p, s)' <=> Owns(p, s)
      OBVIOUS
    <2> QED
      BY <2>1, OwnersOf, OwnersNext
  <1>2. Owners(t)' = Owners(t) \cup {c} /\ c \notin Owners(t)
    BY OwnersOf, OwnersNext
  <1>3. Cardinality(Owners(t)') = Cardinality(Owners(t)) + 1
    BY <1>2, OwnersOf, FS_AddElement
  <1>4. value'[t] = value[t] - 1 /\ value[t] \in Int /\ \A s \in Sems \ {t} : value'[s] = value[s]
    BY DEF IInv, Typing
  <1>5. value'[t] + Cardinality(Owners(t)') = MAX_VALUE
    BY <1>3, <1>4, OwnersOf, SyncAssumption DEF IInv, UnitsConserved
  <1> QED
    BY <1>1, <1>4, <1>5 DEF IInv, UnitsConserved

(* c gives its unit of t back. *)
LEMMA UnitGiven ==
  ASSUME IInv, NEW c \in Procs, NEW t \in Sems,
         value' = [value EXCEPT ![t] = @ + 1],
         \A s \in Sems : (Owns(c, s) <=> s = t) /\ ~Owns(c, s)',
         \A p \in Procs \ {c}, s \in Sems : Owns(p, s)' <=> Owns(p, s)
  PROVE  UnitsConserved'
  <1>1. \A s \in Sems \ {t} : Owners(s)' = Owners(s)
    <2>1. \A p \in Procs, s \in Sems \ {t} : Owns(p, s)' <=> Owns(p, s)
      OBVIOUS
    <2> QED
      BY <2>1, OwnersOf, OwnersNext
  <1>2. Owners(t)' = Owners(t) \ {c} /\ c \in Owners(t)
    BY OwnersOf, OwnersNext
  <1>3. Cardinality(Owners(t)') = Cardinality(Owners(t)) - 1
    BY <1>2, OwnersOf, FS_RemoveElement
  <1>4. value'[t] = value[t] + 1 /\ value[t] \in Int /\ \A s \in Sems \ {t} : value'[s] = value[s]
    BY DEF IInv, Typing
  <1>5. value'[t] + Cardinality(Owners(t)') = MAX_VALUE
    BY <1>3, <1>4, OwnersOf, SyncAssumption DEF IInv, UnitsConserved
  <1> QED
    BY <1>1, <1>4, <1>5 DEF IInv, UnitsConserved

(* c hands its unit of t to q. *)
LEMMA UnitPassed ==
  ASSUME IInv, NEW c \in Procs, NEW q \in Procs, c # q, NEW t \in Sems, UNCHANGED value,
         \A s \in Sems : (Owns(c, s) <=> s = t) /\ ~Owns(c, s)',
         \A s \in Sems : ~Owns(q, s) /\ (Owns(q, s)' <=> s = t),
         \A p \in Procs \ {c, q}, s \in Sems : Owns(p, s)' <=> Owns(p, s)
  PROVE  UnitsConserved'
  <1>1. \A s \in Sems \ {t} : Owners(s)' = Owners(s)
    <2>1. \A p \in Procs, s \in Sems \ {t} : Owns(p, s)' <=> Owns(p, s)
      OBVIOUS
    <2> QED
      BY <2>1, OwnersOf, OwnersNext
  <1> DEFINE rest == Owners(t) \ {c}
  <1>2. /\ Owners(t)' = rest \cup {q} /\ q \notin rest
        /\ Owners(t) = rest \cup {c} /\ c \notin rest
    BY OwnersOf, OwnersNext
  <1>3. IsFiniteSet(rest)
    BY OwnersOf, FS_Subset
  <1> HIDE DEF rest
  <1>4. /\ Cardinality(rest \cup {q}) = Cardinality(rest) + 1
        /\ Cardinality(rest \cup {c}) = Cardinality(rest) + 1
    BY <1>2, <1>3, FS_AddElement
  <1>5. Cardinality(Owners(t)') = Cardinality(Owners(t))
    BY <1>2, <1>4
  <1> QED
    BY <1>1, <1>5 DEF IInv, UnitsConserved
-----------------------------------------------------------------------------
(* No process has gone into down(), come out of it or been marked. *)
LEMMA BlockedSame ==
  ASSUME IInv, UNCHANGED <<wait_queue, wakeup_flags>>,
         \A p \in Procs : InDown(p)' <=> InDown(p),
         \A p \in Procs : InDown(p) => sem'[p] = sem[p],
         \A p \in Procs : InDown(p) /\ wakeup_flags[p] = "WT_INTERRUPTED" =>
                             state'[p] = state[p] /\ wait_state'[p] = wait_state[p]
  PROVE  Waiting' /\ Queued'
  <1>1. Waiting'
    BY DEF IInv, Waiting
  <1>2. \A s \in Sems : \A k \in 1..Len(wait_queue[s]) : wait_queue[s][k] \in Procs
    BY EntryIn DEF IInv, Typing
  <1>3. Queued'
    BY <1>2 DEF IInv, Queued
  <1> QED
    BY <1>1, <1>3

(* What an action of the process on the CPU may rely on. *)
LEMMA OnCPU ==
  ASSUME IInv, NEW loc, At(loc)
  PROVE  /\ current \in Procs /\ current \in AllProcs /\ pc[current] = loc
         /\ SchedTyped /\ QueueOK /\ Typing /\ IsFiniteSet(Procs)
         /\ loc \notin {"down", "sleep", "exit"} => state[current] = "RUNNABLE"
  BY SyncAssumption DEF IInv, Scheduling, At, AllProcs

(* The CPU goes to the next process, and nothing else happens. *)
LEMMA ScheduleStep ==
  ASSUME IInv, schedule, NEW to, current \in Procs, Goto(to),
         \/ pc[current] = "down" /\ to = "down_ret"
         \/ pc[current] = "sleep" /\ to = "sleep_ret"
         \/ pc[current] = "exit" /\ to = "dead"
         \/ pc[current] = "trap_exit" /\ to = "run",
         UNCHANGED <<semVars, exiting, sem, ret>>
  PROVE  IInv'
  <1> DEFINE c == current
  <1>1. /\ SchedTyped /\ QueueOK /\ Typing /\ c \in AllProcs
        /\ pc' = [pc EXCEPT ![c] = to]
        /\ UNCHANGED <<value, wait_queue, wakeup_flags, sem, ret>>
    BY DEF IInv, Scheduling, Goto, semVars, AllProcs
  <1>2. /\ SchedTyped' /\ QueueOK' /\ UNCHANGED <<state, wait_state>>
        /\ current' \in Procs => state[current'] = "RUNNABLE"
    BY <1>1, ScheduleEffect
  <1>3. Scheduling'
    BY <1>2 DEF Scheduling
  <1> HIDE DEF c
  <1>4. Typing'
    BY <1>1 DEF Typing, Locs
  <1>5. \A p \in Procs : p # c => pc'[p] = pc[p]
    BY <1>1 DEF Typing, AllProcs
  <1>6. pc'[c] = to
    BY <1>1 DEF Typing
  <1>7. Located'
    BY <1>1, <1>5, <1>6 DEF IInv, Located, Place, InSleep, c
  <1>8. \A p \in Procs : InDown(p)' <=> InDown(p)
    BY <1>5, <1>6 DEF InDown, c
  <1>9. Waiting' /\ Queued'
    BY <1>1, <1>2, <1>8, BlockedSame
  <1>10. \A p \in Procs, s \in Sems : Owns(p, s)' <=> Owns(p, s)
    BY <1>1, <1>8 DEF Owns
  <1>11. UnitsConserved'
    BY <1>1, <1>10, UnitsSame
  <1> QED
    BY <1>3, <1>4, <1>7, <1>9, <1>11 DEF IInv

(* The process on the CPU goes on in its own code, or falls asleep in      *)
(* do_sleep(), or ends; it keeps its unit if it has one.                   *)
LEMMA OwnStep ==
  ASSUME IInv, SchedTyped', QueueOK', current \in Procs, UNCHANGED current,
         NEW to \in Locs, Goto(to),
         to \in {"sleep", "exit"} \/ state'[current] = "RUNNABLE",
         ~InDown(current), to \notin {"down", "down_ret", "cpu_idle"},
         UNCHANGED <<semVars, sem>>,
         ret' \in [AllProcs -> {None, "run", "critical", "trap_exit"}],
         \A p \in Procs \ {current} : /\ state'[p] = state[p] /\ wait_state'[p] = wait_state[p]
                                      /\ ret'[p] = ret[p],
         to = "critical" => sem[current] \in Sems,
         to \in {"run", "trap_exit", "exit"} => sem[current] = None,
         to \in {"sleep", "sleep_ret"} =>
           /\ ret'[current] \in {"run", "critical", "trap_exit"}
           /\ ret'[current] = "critical" => sem[current] \in Sems
           /\ ret'[current] # "critical" => sem[current] = None,
         to # "dead"
  PROVE  IInv'
  <1>1. PICK c \in Procs : c = current
    OBVIOUS
  <1>2. /\ Typing /\ c \in AllProcs /\ pc' = [pc EXCEPT ![c] = to]
        /\ UNCHANGED <<value, wait_queue, wakeup_flags, sem>>
    BY <1>1 DEF IInv, Goto, semVars, AllProcs
  <1>3. pc'[c] = to /\ \A p \in Procs : p # c => pc'[p] = pc[p]
    BY <1>2 DEF Typing, AllProcs
  <1>4. Scheduling'
    BY <1>1, <1>3 DEF Scheduling
  <1>5. Typing'
    BY <1>2 DEF Typing
  <1>6. Located'
    <2>1. ASSUME NEW p \in Procs, p # c
          PROVE  /\ Place(p)' = Place(p) /\ (InSleep(p)' <=> InSleep(p))
                 /\ pc'[p] = pc[p] /\ ret'[p] = ret[p] /\ sem'[p] = sem[p]
      BY <1>1, <1>2, <1>3, <2>1 DEF Place, InSleep
    <2>2. /\ Place(c)' = IF to \in {"sleep", "sleep_ret"} THEN ret'[c] ELSE to
          /\ InSleep(c)' <=> to \in {"sleep", "sleep_ret"}
          /\ pc'[c] = to /\ sem'[c] = sem[c]
      BY <1>2, <1>3 DEF Place, InSleep
    <2>3. CASE to \in {"sleep", "sleep_ret"}
      <3>1. /\ ret'[c] \in {"run", "critical", "trap_exit"}
            /\ ret'[c] = "critical" => sem[c] \in Sems
            /\ ret'[c] # "critical" => sem[c] = None
        BY <1>1, <2>3
      <3>2. Place(c)' = ret'[c] /\ InSleep(c)'
        BY <2>2, <2>3
      <3> QED
        BY <2>1, <2>2, <2>3, <3>1, <3>2 DEF IInv, Located
    <2>4. CASE to \notin {"sleep", "sleep_ret"}
      <3>1. /\ Place(c)' = to /\ ~InSleep(c)' /\ to \in {"run", "critical", "trap_exit", "exit"}
            /\ to = "critical" => sem[c] \in Sems
            /\ to # "critical" => sem[c] = None
        BY <1>1, <2>2, <2>4 DEF Locs
      <3> QED
        BY <2>1, <2>2, <3>1 DEF IInv, Located
    <2> QED
      BY <2>3, <2>4
  <1>7. \A p \in Procs : InDown(p)' <=> InDown(p)
    BY <1>1, <1>3 DEF InDown
  <1>8. Waiting' /\ Queued'
    <2>1. \A p \in Procs : InDown(p) => p # current
      OBVIOUS
    <2> QED
      BY <1>2, <1>7, <2>1, BlockedSame
  <1>9. \A p \in Procs, s \in Sems : Owns(p, s)' <=> Owns(p, s)
    BY <1>2, <1>7 DEF Owns
  <1>10. UnitsConserved'
    BY <1>2, <1>9, UnitsSame
  <1> QED
    BY <1>4, <1>5, <1>6, <1>8, <1>10 DEF IInv

(* do_sleep(), up to its call of schedule(). *)
LEMMA SleepStep ==
  ASSUME IInv, NEW n, do_sleep(n)
  PROVE  IInv'
  <1>1. /\ current \in Procs /\ current \in AllProcs /\ pc[current] \in {"run", "critical"}
        /\ SchedTyped /\ QueueOK /\ Typing
    BY OnCPU DEF do_sleep
  <1>2. /\ state' = [state EXCEPT ![current] = "SLEEPING"]
        /\ wait_state' = [wait_state EXCEPT ![current] = "WT_TIMER"]
        /\ ret' = [ret EXCEPT ![current] = IF pc[current] = "run" THEN Outside(current) ELSE "critical"]
        /\ Goto("sleep")
        /\ UNCHANGED <<run_list, current, semVars, sem>>
    BY DEF do_sleep, fall_asleep
  <1>3. TimersTyped'
    BY <1>1, AddTimerTyped DEF do_sleep, SchedTyped
  <1>4. SchedTyped'
    BY <1>1, <1>2, <1>3 DEF SchedTyped
  <1>5. QueueOK'
    BY <1>1, <1>2 DEF QueueOK, SchedTyped, AllProcs
  <1>6. /\ ret' \in [AllProcs -> {None, "run", "critical", "trap_exit"}]
        /\ ret'[current] \in {"run", "critical", "trap_exit"}
        /\ ret'[current] = "critical" <=> pc[current] = "critical"
    BY <1>1, <1>2 DEF Typing, Outside
  <1>7. \A p \in Procs \ {current} : /\ state'[p] = state[p] /\ wait_state'[p] = wait_state[p]
                                     /\ ret'[p] = ret[p]
    BY <1>1, <1>2 DEF Typing, SchedTyped, AllProcs
  <1>8. /\ pc[current] = "critical" => sem[current] \in Sems
        /\ pc[current] = "run" => sem[current] = None
    BY <1>1 DEF IInv, Located, Place, InSleep
  <1> QED
    BY <1>1, <1>2, <1>4, <1>5, <1>6, <1>7, <1>8, OwnStep DEF InDown, Locs

LEMMA SleepRetStep ==
  ASSUME IInv, sleep_returns
  PROVE  IInv'
  <1>1. /\ current \in Procs /\ current \in AllProcs /\ pc[current] = "sleep_ret"
        /\ SchedTyped /\ QueueOK /\ Typing /\ state[current] = "RUNNABLE"
    BY OnCPU DEF sleep_returns
  <1>2. /\ ret' = [ret EXCEPT ![current] = None] /\ Goto(ret[current])
        /\ UNCHANGED <<state, wait_state, run_list, current, semVars, sem>>
    BY DEF sleep_returns
  <1>3. TimersTyped'
    BY <1>1, DelTimerTyped DEF sleep_returns, SchedTyped
  <1>4. SchedTyped' /\ QueueOK'
    BY <1>1, <1>2, <1>3 DEF SchedTyped, QueueOK
  <1>5. /\ ret' \in [AllProcs -> {None, "run", "critical", "trap_exit"}]
        /\ \A p \in Procs \ {current} : ret'[p] = ret[p]
    BY <1>1, <1>2 DEF Typing, AllProcs
  <1>6. /\ ret[current] \in {"run", "critical", "trap_exit"}
        /\ ret[current] = "critical" => sem[current] \in Sems
        /\ ret[current] \in {"run", "trap_exit"} => sem[current] = None
    BY <1>1 DEF IInv, Located, Place, InSleep
  <1> QED
    BY <1>1, <1>2, <1>4, <1>5, <1>6, OwnStep DEF InDown, Locs

(* The process exits, up to its call of schedule(). *)
LEMMA ExitStep ==
  ASSUME IInv, do_exit
  PROVE  IInv'
  <1>1. /\ current \in Procs /\ current \in AllProcs /\ pc[current] \in {"run", "trap_exit"}
        /\ SchedTyped /\ QueueOK /\ Typing
    BY OnCPU DEF do_exit
  <1>2. /\ state' = [state EXCEPT ![current] = "ZOMBIE"] /\ Goto("exit")
        /\ UNCHANGED <<wait_state, run_list, current, timer_list, semVars, sem, ret>>
    BY DEF do_exit
  <1>3. SchedTyped'
    BY <1>1, <1>2 DEF SchedTyped, TimersTyped
  <1>4. QueueOK'
    BY <1>1, <1>2 DEF QueueOK, SchedTyped, AllProcs
  <1>5. \A p \in Procs \ {current} : state'[p] = state[p]
    BY <1>1, <1>2 DEF SchedTyped, AllProcs
  <1>6. ret' \in [AllProcs -> {None, "run", "critical", "trap_exit"}]
    BY <1>1, <1>2 DEF Typing
  <1>7. sem[current] = None
    BY <1>1 DEF IInv, Located, Place, InSleep
  <1> QED
    BY <1>1, <1>2, <1>3, <1>4, <1>5, <1>6, <1>7, OwnStep DEF InDown, Locs

-----------------------------------------------------------------------------
(* A unit is taken, by down() or by try_down(). *)
LEMMA TakeStep ==
  ASSUME IInv, At("run"), NEW s \in Sems, down_takes(s), Goto("critical"),
         sem' = [sem EXCEPT ![current] = s], UNCHANGED ret
  PROVE  IInv'
  <1>1. PICK c \in Procs : c = current
    BY DEF At
  <1>2. /\ SchedTyped /\ QueueOK /\ Typing /\ c \in AllProcs /\ pc[c] = "run"
        /\ state[c] = "RUNNABLE"
    BY <1>1, OnCPU
  <1>3. /\ pc' = [pc EXCEPT ![c] = "critical"] /\ sem' = [sem EXCEPT ![c] = s]
        /\ value' = [value EXCEPT ![s] = @ - 1]
        /\ UNCHANGED <<state, wait_state, run_list, current, timer_list, wait_queue,
                       wakeup_flags, ret>>
    BY <1>1 DEF down_takes, Goto, schedVars
  <1>4. /\ pc'[c] = "critical" /\ sem'[c] = s
        /\ \A p \in Procs : p # c => pc'[p] = pc[p] /\ sem'[p] = sem[p]
    BY <1>2, <1>3 DEF Typing, AllProcs
  <1>5. Scheduling'
    BY <1>1, <1>2, <1>3 DEF Scheduling, SchedTyped, TimersTyped, QueueOK
  <1>6. Typing'
    <2>1. pc' \in [AllProcs -> Locs]
      BY <1>2, <1>3 DEF Typing, Locs
    <2>2. value' \in [Sems -> Int]
      BY <1>2, <1>3 DEF Typing
    <2>3. sem' \in [AllProcs -> Sems \cup {None}]
      BY <1>2, <1>3 DEF Typing
    <2> QED
      BY <1>2, <1>3, <2>1, <2>2, <2>3 DEF Typing
  <1>7. Located'
    BY <1>3, <1>4 DEF IInv, Located, Place, InSleep
  <1>8. \A p \in Procs : InDown(p)' <=> InDown(p)
    BY <1>2, <1>4 DEF InDown
  <1>9. Waiting' /\ Queued'
    <2>1. \A p \in Procs : InDown(p) => sem'[p] = sem[p]
      BY <1>2, <1>4 DEF InDown
    <2> QED
      BY <1>3, <1>8, <2>1, BlockedSame
  <1>10. UnitsConserved'
    <2>1. sem[c] = None
      BY <1>2 DEF IInv, Located, Place, InSleep
    <2>2. \A r \in Sems : ~Owns(c, r) /\ (Owns(c, r)' <=> r = s)
      BY <1>4, <2>1, SyncAssumption DEF Owns, InDown
    <2>3. \A p \in Procs \ {c}, r \in Sems : Owns(p, r)' <=> Owns(p, r)
      BY <1>3, <1>4, <1>8 DEF Owns
    <2> QED
      BY <1>3, <2>2, <2>3, UnitTaken
  <1> QED
    BY <1>5, <1>6, <1>7, <1>9, <1>10 DEF IInv

(* down() finds no unit: the process goes to the end of the queue. *)
LEMMA WaitStep ==
  ASSUME IInv, At("run"), NEW s \in Sems, down_waits(s), Goto("down"),
         sem' = [sem EXCEPT ![current] = s], UNCHANGED ret
  PROVE  IInv'
  <1>1. PICK c \in Procs : c = current
    BY DEF At
  <1>2. /\ SchedTyped /\ QueueOK /\ Typing /\ c \in AllProcs /\ pc[c] = "run"
        /\ state[c] = "RUNNABLE"
    BY <1>1, OnCPU
  <1>3. /\ pc' = [pc EXCEPT ![c] = "down"] /\ sem' = [sem EXCEPT ![c] = s]
        /\ state' = [state EXCEPT ![c] = "SLEEPING"]
        /\ wait_state' = [wait_state EXCEPT ![c] = "WT_KSEM"]
        /\ wakeup_flags' = [wakeup_flags EXCEPT ![c] = "WT_INTERRUPTED"]
        /\ wait_queue' = [wait_queue EXCEPT ![s] = Append(@, c)]
        /\ UNCHANGED <<run_list, current, timer_list, value, ret>>
    BY <1>1 DEF down_waits, fall_asleep, Goto
  <1>4. /\ pc'[c] = "down" /\ sem'[c] = s /\ wakeup_flags'[c] = "WT_INTERRUPTED"
        /\ state'[c] = "SLEEPING" /\ wait_state'[c] = "WT_KSEM"
    BY <1>2, <1>3 DEF Typing, SchedTyped
  <1>5. ASSUME NEW p \in Procs, p # c
        PROVE  /\ pc'[p] = pc[p] /\ sem'[p] = sem[p] /\ wakeup_flags'[p] = wakeup_flags[p]
               /\ state'[p] = state[p] /\ wait_state'[p] = wait_state[p] /\ ret'[p] = ret[p]
    BY <1>2, <1>3, <1>5 DEF Typing, SchedTyped, AllProcs
  <1>6. SchedTyped'
    BY <1>2, <1>3 DEF SchedTyped, TimersTyped
  <1>7. QueueOK'
    BY <1>1, <1>2, <1>3 DEF QueueOK, SchedTyped, AllProcs
  <1>8. Scheduling'
    BY <1>1, <1>3, <1>4, <1>6, <1>7 DEF Scheduling
  <1> DEFINE q == wait_queue[s]
             new == Append(q, c)
  <1>9. q \in Seq(Procs) /\ Len(q) \in Nat
    BY <1>2 DEF Typing
  <1>10. /\ new \in Seq(Procs) /\ Len(new) = Len(q) + 1 /\ new[Len(q) + 1] = c
         /\ \A k \in 1..Len(q) : new[k] = q[k]
    BY <1>9
  <1>11. /\ wait_queue'[s] = new
         /\ \A t \in Sems \ {s} : wait_queue'[t] = wait_queue[t]
    BY <1>2, <1>3 DEF Typing
  <1>12. \A t \in Sems : \A k \in 1..Len(wait_queue[t]) :
           /\ wait_queue[t][k] \in Procs /\ wait_queue[t][k] # c
           /\ InDown(wait_queue[t][k]) /\ sem[wait_queue[t][k]] = t
           /\ wakeup_flags[wait_queue[t][k]] = "WT_INTERRUPTED"
    BY <1>2, EntryIn DEF IInv, Queued, InDown, Typing
  <1> HIDE DEF new
  <1>13. Typing'
    <2>1. pc' \in [AllProcs -> Locs]
      BY <1>2, <1>3 DEF Typing, Locs
    <2>2. wait_queue' \in [Sems -> Seq(Procs)]
      BY <1>2, <1>3, <1>10, <1>11 DEF Typing
    <2>3. sem' \in [AllProcs -> Sems \cup {None}]
      BY <1>2, <1>3 DEF Typing
    <2>4. wakeup_flags' \in [AllProcs -> {"0", "WT_INTERRUPTED", "WT_KSEM"}]
      BY <1>2, <1>3 DEF Typing
    <2> QED
      BY <1>2, <1>3, <2>1, <2>2, <2>3, <2>4 DEF Typing
  <1>14. Located'
    BY <1>4, <1>5 DEF IInv, Located, Place, InSleep
  <1>15. Waiting'
    BY <1>4, <1>5 DEF IInv, Waiting, InDown
  <1>16. ASSUME NEW t \in Sems
         PROVE  /\ \A k \in 1..Len(wait_queue'[t]) :
                     /\ pc'[wait_queue'[t][k]] \in {"down", "down_ret"}
                     /\ sem'[wait_queue'[t][k]] = t
                     /\ wakeup_flags'[wait_queue'[t][k]] = "WT_INTERRUPTED"
                /\ \A j, k \in 1..Len(wait_queue'[t]) :
                     wait_queue'[t][j] = wait_queue'[t][k] => j = k
    <2>1. \A k \in 1..Len(wait_queue[t]) :
            /\ pc'[wait_queue[t][k]] \in {"down", "down_ret"}
            /\ sem'[wait_queue[t][k]] = t
            /\ wakeup_flags'[wait_queue[t][k]] = "WT_INTERRUPTED"
      BY <1>5, <1>12 DEF InDown
    <2>2. \A j, k \in 1..Len(wait_queue[t]) : wait_queue[t][j] = wait_queue[t][k] => j = k
      BY DEF IInv, Queued
    <2>3. CASE t = s
      <3>1. \A k \in 1..Len(new) : k = Len(q) + 1 \/ k \in 1..Len(q)
        BY <1>9, <1>10
      <3>2. ASSUME NEW k \in 1..Len(new)
            PROVE  /\ pc'[new[k]] \in {"down", "down_ret"} /\ sem'[new[k]] = s
                   /\ wakeup_flags'[new[k]] = "WT_INTERRUPTED"
        BY <1>4, <1>10, <2>1, <2>3, <3>1
      <3>3. ASSUME NEW j \in 1..Len(new), NEW k \in 1..Len(new), new[j] = new[k] PROVE j = k
        <4>1. \A m \in 1..Len(q) : new[m] # c /\ new[m] = q[m]
          BY <1>10, <1>12, <2>3
        <4>2. \A l, m \in 1..Len(q) : q[l] = q[m] => l = m
          BY <2>2, <2>3
        <4> HIDE DEF q
        <4> QED
          BY <1>10, <3>1, <3>3, <4>1, <4>2
      <3> QED
        BY <1>11, <2>3, <3>2, <3>3
    <2>4. CASE t # s
      BY <1>11, <2>1, <2>2, <2>4
    <2> QED
      BY <2>3, <2>4
  <1>17. Queued'
    BY <1>16 DEF Queued, InDown
  <1>18. UnitsConserved'
    <2>1. sem[c] = None
      BY <1>2 DEF IInv, Located, Place, InSleep
    <2>2. \A r \in Sems : ~Owns(c, r) /\ ~Owns(c, r)'
      BY <1>4, <2>1, SyncAssumption DEF Owns, InDown
    <2>3. \A p \in Procs \ {c}, r \in Sems : Owns(p, r)' <=> Owns(p, r)
      BY <1>5 DEF Owns, InDown
    <2>4. \A p \in Procs, r \in Sems : Owns(p, r)' <=> Owns(p, r)
      BY <2>2, <2>3
    <2> QED
      BY <1>3, <2>4, UnitsSame
  <1> QED
    BY <1>8, <1>13, <1>14, <1>15, <1>17, <1>18 DEF IInv

(* The return from down(): the process was marked by up(), since it is on  *)
(* the CPU.                                                                *)
LEMMA DownRetStep ==
  ASSUME IInv, sem_down_returns
  PROVE  IInv'
  <1>1. PICK c \in Procs : c = current
    BY DEF sem_down_returns, At
  <1>2. /\ SchedTyped /\ QueueOK /\ Typing /\ c \in AllProcs /\ pc[c] = "down_ret"
        /\ state[c] = "RUNNABLE"
    BY <1>1, OnCPU DEF sem_down_returns
  <1>3. /\ pc' = [pc EXCEPT ![c] = "critical"]
        /\ wakeup_flags' = [wakeup_flags EXCEPT ![c] = "0"]
        /\ UNCHANGED <<state, wait_state, run_list, current, timer_list, value, sem, ret>>
    BY <1>1 DEF sem_down_returns, down_returns, Goto
  <1>4. sem[c] \in Sems /\ wakeup_flags[c] = "WT_KSEM"
    BY <1>2 DEF IInv, Located, Waiting, Place, InSleep, InDown
  <1>5. \A t \in Sems : \A k \in 1..Len(wait_queue[t]) :
          wait_queue[t][k] \in Procs /\ wait_queue[t][k] # c
    BY <1>2, <1>4, EntryIn DEF IInv, Queued, Typing
  <1>6. wait_queue' = wait_queue
    <2>1. ~Contains(wait_queue[sem[c]], c)
      BY <1>4, <1>5 DEF Contains
    <2> QED
      BY <1>1, <2>1 DEF sem_down_returns, down_returns, QueueDel
  <1>7. pc'[c] = "critical"
    BY <1>2, <1>3 DEF Typing
  <1>8. ASSUME NEW p \in Procs, p # c
        PROVE  pc'[p] = pc[p] /\ wakeup_flags'[p] = wakeup_flags[p]
    BY <1>2, <1>3, <1>8 DEF Typing, AllProcs
  <1>9. Scheduling'
    BY <1>1, <1>2, <1>3 DEF Scheduling, SchedTyped, TimersTyped, QueueOK
  <1>10. Typing'
    BY <1>2, <1>3, <1>6 DEF Typing, Locs
  <1>11. Located'
    BY <1>3, <1>4, <1>7, <1>8 DEF IInv, Located, Place, InSleep
  <1>12. Waiting'
    BY <1>3, <1>7, <1>8 DEF IInv, Waiting, InDown
  <1>13. Queued'
    <2>1. \A t \in Sems : \A k \in 1..Len(wait_queue[t]) :
            /\ pc'[wait_queue[t][k]] \in {"down", "down_ret"}
            /\ sem[wait_queue[t][k]] = t
            /\ wakeup_flags'[wait_queue[t][k]] = "WT_INTERRUPTED"
      BY <1>5, <1>8 DEF IInv, Queued, InDown
    <2> QED
      BY <1>3, <1>6, <2>1 DEF IInv, Queued, InDown
  <1>14. UnitsConserved'
    <2>1. \A r \in Sems : Owns(c, r)' <=> Owns(c, r)
      BY <1>3, <1>4, <1>7 DEF Owns, InDown
    <2>2. \A p \in Procs \ {c}, r \in Sems : Owns(p, r)' <=> Owns(p, r)
      BY <1>3, <1>8 DEF Owns, InDown
    <2>3. \A p \in Procs, r \in Sems : Owns(p, r)' <=> Owns(p, r)
      BY <2>1, <2>2
    <2> QED
      BY <1>3, <2>3, UnitsSame
  <1> QED
    BY <1>9, <1>10, <1>11, <1>12, <1>13, <1>14 DEF IInv

(* up() with nobody in the queue. *)
LEMMA GiveStep ==
  ASSUME IInv, sem_up, wait_queue[sem[current]] = <<>>
  PROVE  IInv'
  <1>1. PICK c \in Procs : c = current
    BY DEF sem_up, At
  <1>2. /\ SchedTyped /\ QueueOK /\ Typing /\ c \in AllProcs /\ pc[c] = "critical"
        /\ state[c] = "RUNNABLE"
    BY <1>1, OnCPU DEF sem_up
  <1>3. PICK s \in Sems : s = sem[c]
    BY <1>2 DEF IInv, Located, Place, InSleep
  <1>4. PICK to \in {"run", "trap_exit"} : to = Outside(c)
    BY DEF Outside
  <1>5. /\ pc' = [pc EXCEPT ![c] = to] /\ sem' = [sem EXCEPT ![c] = None]
        /\ value' = [value EXCEPT ![s] = @ + 1]
        /\ UNCHANGED <<state, wait_state, run_list, current, timer_list, wait_queue,
                       wakeup_flags, ret>>
    BY <1>1, <1>3, <1>4 DEF sem_up, up, Goto, schedVars
  <1>6. /\ pc'[c] = to /\ sem'[c] = None
        /\ \A p \in Procs : p # c => pc'[p] = pc[p] /\ sem'[p] = sem[p]
    BY <1>2, <1>5 DEF Typing, AllProcs
  <1>7. Scheduling'
    BY <1>1, <1>2, <1>5 DEF Scheduling, SchedTyped, TimersTyped, QueueOK
  <1>8. Typing'
    <2>1. pc' \in [AllProcs -> Locs]
      BY <1>2, <1>4, <1>5 DEF Typing, Locs
    <2>2. value' \in [Sems -> Int]
      BY <1>2, <1>5 DEF Typing
    <2>3. sem' \in [AllProcs -> Sems \cup {None}]
      BY <1>2, <1>5 DEF Typing
    <2> QED
      BY <1>2, <1>5, <2>1, <2>2, <2>3 DEF Typing
  <1>9. Located'
    BY <1>4, <1>5, <1>6 DEF IInv, Located, Place, InSleep
  <1>10. \A p \in Procs : (InDown(p)' <=> InDown(p)) /\ (InDown(p) => sem'[p] = sem[p])
    BY <1>2, <1>4, <1>6 DEF InDown
  <1>11. Waiting' /\ Queued'
    BY <1>5, <1>10, BlockedSame
  <1>12. UnitsConserved'
    <2>1. \A r \in Sems : (Owns(c, r) <=> r = s) /\ ~Owns(c, r)'
      BY <1>2, <1>3, <1>6, SyncAssumption DEF Owns, InDown
    <2>2. \A p \in Procs \ {c}, r \in Sems : Owns(p, r)' <=> Owns(p, r)
      BY <1>5, <1>6, <1>10 DEF Owns
    <2> QED
      BY <1>5, <2>1, <2>2, UnitGiven
  <1> QED
    BY <1>7, <1>8, <1>9, <1>11, <1>12 DEF IInv

(* up() hands the unit to the first process in the queue. *)
LEMMA PassStep ==
  ASSUME IInv, sem_up, wait_queue[sem[current]] # <<>>
  PROVE  IInv'
  <1>1. PICK c \in Procs : c = current
    BY DEF sem_up, At
  <1>2. /\ SchedTyped /\ QueueOK /\ Typing /\ c \in AllProcs /\ pc[c] = "critical"
        /\ state[c] = "RUNNABLE"
    BY <1>1, OnCPU DEF sem_up
  <1>3. PICK s \in Sems : s = sem[c]
    BY <1>2 DEF IInv, Located, Place, InSleep
  <1>4. PICK to \in {"run", "trap_exit"} : to = Outside(c)
    BY DEF Outside
  <1>5. PICK q \in Seq(Procs) : q = wait_queue[s]
    BY <1>2 DEF Typing
  <1>6. q # <<>>
    BY <1>1, <1>3, <1>5
  <1>7. Len(q) \in Nat /\ 1 \in 1..Len(q) /\ q[1] \in Procs
    BY <1>6, FirstEntry
  <1>8. PICK p \in Procs : p = q[1]
    BY <1>7
  <1>9. InDown(p) /\ sem[p] = s /\ wakeup_flags[p] = "WT_INTERRUPTED"
    BY <1>5, <1>7, <1>8 DEF IInv, Queued
  <1>10. state[p] = "SLEEPING" /\ wait_state[p] = "WT_KSEM" /\ p # c /\ p \in AllProcs
    BY <1>2, <1>9 DEF IInv, Waiting, AllProcs
  <1>11. up(s) /\ sem' = [sem EXCEPT ![c] = None] /\ pc' = [pc EXCEPT ![c] = to]
         /\ ret' = ret
    BY <1>1, <1>3, <1>4 DEF sem_up, Goto
  <1>12. /\ wakeup_proc(p)
         /\ wait_queue' = [wait_queue EXCEPT ![s] = RemoveAt(q, 1)]
         /\ wakeup_flags' = [wakeup_flags EXCEPT ![p] = "WT_KSEM"]
         /\ UNCHANGED <<current, timer_list, value>>
    BY <1>5, <1>6, <1>8, <1>10, <1>11 DEF up, wait_queue_first
  <1>13. TimersTyped'
    BY <1>2, <1>12 DEF SchedTyped, TimersTyped
  <1>14. /\ SchedTyped' /\ QueueOK'
         /\ state' = [state EXCEPT ![p] = "RUNNABLE"]
         /\ wait_state' = [wait_state EXCEPT ![p] = "0"]
    BY <1>2, <1>10, <1>12, <1>13, WakeEffect
  <1>15. /\ pc'[c] = to /\ sem'[c] = None
         /\ \A r \in Procs : r # c => pc'[r] = pc[r] /\ sem'[r] = sem[r]
    BY <1>2, <1>11 DEF Typing, AllProcs
  <1>16. /\ wakeup_flags'[p] = "WT_KSEM"
         /\ \A r \in Procs : r # p => /\ wakeup_flags'[r] = wakeup_flags[r]
                                      /\ state'[r] = state[r] /\ wait_state'[r] = wait_state[r]
    BY <1>2, <1>12, <1>14 DEF Typing, SchedTyped, AllProcs
  <1>17. Scheduling'
    BY <1>1, <1>2, <1>10, <1>12, <1>14, <1>16 DEF Scheduling
  <1>18. /\ RemoveAt(q, 1) \in Seq(Procs) /\ Len(RemoveAt(q, 1)) = Len(q) - 1
         /\ \A k \in 1..(Len(q) - 1) : RemoveAt(q, 1)[k] = q[k + 1]
    BY <1>7, RemoveAtEntries
  <1>19. Typing'
    <2>1. pc' \in [AllProcs -> Locs]
      BY <1>2, <1>4, <1>11 DEF Typing, Locs
    <2>2. wait_queue' \in [Sems -> Seq(Procs)]
      BY <1>2, <1>12, <1>18 DEF Typing
    <2>3. sem' \in [AllProcs -> Sems \cup {None}]
      BY <1>2, <1>11 DEF Typing
    <2>4. wakeup_flags' \in [AllProcs -> {"0", "WT_INTERRUPTED", "WT_KSEM"}]
      BY <1>2, <1>12 DEF Typing
    <2> QED
      BY <1>2, <1>11, <1>12, <2>1, <2>2, <2>3, <2>4 DEF Typing
  <1>20. Located'
    BY <1>4, <1>11, <1>15 DEF IInv, Located, Place, InSleep
  <1>21. \A r \in Procs : (InDown(r)' <=> InDown(r)) /\ (InDown(r) => r # c)
    BY <1>2, <1>4, <1>15 DEF InDown
  <1>22. Waiting'
    BY <1>16, <1>21 DEF IInv, Waiting
  <1>23. Queued'
    <2>1. /\ wait_queue'[s] = RemoveAt(q, 1)
          /\ \A t \in Sems : t # s => wait_queue'[t] = wait_queue[t]
      BY <1>2, <1>12 DEF Typing
    <2>2. \A t \in Sems : \A m \in 1..Len(wait_queue[t]) :
            wait_queue[t][m] = p => t = s /\ m = 1
      BY <1>5, <1>7, <1>8, <1>9 DEF IInv, Queued
    <2>3. ASSUME NEW t \in Sems, NEW k \in 1..Len(wait_queue'[t])
          PROVE  \E m \in 1..Len(wait_queue[t]) :
                   wait_queue'[t][k] = wait_queue[t][m] /\ m = (IF t = s THEN k + 1 ELSE k)
      <3>1. CASE t = s
        <4>1. k \in 1..(Len(q) - 1)
          BY <1>18, <2>1, <3>1
        <4>2. k + 1 \in 1..Len(q) /\ RemoveAt(q, 1)[k] = q[k + 1]
          BY <1>7, <1>18, <4>1
        <4> QED
          BY <1>5, <2>1, <3>1, <4>2
      <3>2. CASE t # s
        BY <2>1, <3>2
      <3> QED
        BY <3>1, <3>2
    <2>4. ASSUME NEW t \in Sems, NEW k \in 1..Len(wait_queue'[t])
          PROVE  /\ pc'[wait_queue'[t][k]] \in {"down", "down_ret"}
                 /\ sem'[wait_queue'[t][k]] = t
                 /\ wakeup_flags'[wait_queue'[t][k]] = "WT_INTERRUPTED"
      <3>1. PICK m \in 1..Len(wait_queue[t]) :
              wait_queue'[t][k] = wait_queue[t][m] /\ m = (IF t = s THEN k + 1 ELSE k)
        BY <2>3
      <3>2. k \in Nat \ {0} /\ wait_queue[t][m] \in Procs
        BY <1>2, <1>19, EntryIn DEF Typing
      <3>3. wait_queue[t][m] # p
        BY <2>2, <3>1, <3>2
      <3>4. PICK r \in Procs : r = wait_queue[t][m]
        BY <3>2
      <3>5. InDown(r) /\ sem[r] = t /\ wakeup_flags[r] = "WT_INTERRUPTED" /\ r # p
        BY <3>3, <3>4 DEF IInv, Queued
      <3>6. InDown(r)' /\ sem'[r] = t /\ wakeup_flags'[r] = "WT_INTERRUPTED"
        BY <1>15, <1>16, <1>21, <3>5
      <3> QED
        BY <3>1, <3>4, <3>6 DEF InDown
    <2>5. ASSUME NEW t \in Sems, NEW j \in 1..Len(wait_queue'[t]), NEW k \in 1..Len(wait_queue'[t]),
                 wait_queue'[t][j] = wait_queue'[t][k]
          PROVE  j = k
      <3>1. PICK m \in 1..Len(wait_queue[t]) :
              wait_queue'[t][j] = wait_queue[t][m] /\ m = (IF t = s THEN j + 1 ELSE j)
        BY <2>3
      <3>2. PICK n \in 1..Len(wait_queue[t]) :
              wait_queue'[t][k] = wait_queue[t][n] /\ n = (IF t = s THEN k + 1 ELSE k)
        BY <2>3
      <3>3. wait_queue[t][m] = wait_queue[t][n]
        BY <2>5, <3>1, <3>2
      <3>4. m = n
        BY <3>3 DEF IInv, Queued
      <3> QED
        BY <3>1, <3>2, <3>4
    <2>6. ASSUME NEW t \in Sems
          PROVE  /\ \A k \in 1..Len(wait_queue'[t]) :
                      /\ pc'[wait_queue'[t][k]] \in {"down", "down_ret"}
                      /\ sem'[wait_queue'[t][k]] = t
                      /\ wakeup_flags'[wait_queue'[t][k]] = "WT_INTERRUPTED"
                 /\ \A j, k \in 1..Len(wait_queue'[t]) :
                      wait_queue'[t][j] = wait_queue'[t][k] => j = k
      BY <2>4, <2>5
    <2> QED
      BY <2>6 DEF Queued, InDown
  <1>24. UnitsConserved'
    <2>1. \A r \in Sems : (Owns(c, r) <=> r = s) /\ ~Owns(c, r)'
      BY <1>2, <1>3, <1>15, SyncAssumption DEF Owns, InDown
    <2>2. \A r \in Sems : ~Owns(p, r) /\ (Owns(p, r)' <=> r = s)
      BY <1>9, <1>10, <1>15, <1>16 DEF Owns
    <2>3. \A x \in Procs \ {c, p}, r \in Sems : Owns(x, r)' <=> Owns(x, r)
      BY <1>15, <1>16, <1>21 DEF Owns
    <2> QED
      BY <1>10, <1>12, <2>1, <2>2, <2>3, UnitPassed
  <1> QED
    BY <1>17, <1>19, <1>20, <1>22, <1>23, <1>24 DEF IInv

LEMMA TryStep ==
  ASSUME IInv, NEW s \in Sems, sem_try_down(s)
  PROVE  IInv'
  <1>1. CASE down_takes(s) /\ Goto("critical") /\ sem' = [sem EXCEPT ![current] = s]
    BY <1>1, TakeStep DEF sem_try_down
  <1>2. CASE Goto(Outside(current)) /\ UNCHANGED <<schedVars, semVars, sem>>
    <2>1. /\ current \in Procs /\ current \in AllProcs /\ pc[current] = "run"
          /\ SchedTyped /\ QueueOK /\ Typing /\ state[current] = "RUNNABLE"
      BY OnCPU DEF sem_try_down
    <2>2. SchedTyped' /\ QueueOK'
      BY <1>2, <2>1 DEF SchedTyped, TimersTyped, QueueOK, schedVars
    <2>3. /\ ret' \in [AllProcs -> {None, "run", "critical", "trap_exit"}]
          /\ UNCHANGED ret
      BY <2>1 DEF sem_try_down, Typing
    <2>4. sem[current] = None
      BY <2>1 DEF IInv, Located, Place, InSleep
    <2>5. Outside(current) \in {"run", "trap_exit"}
      BY DEF Outside
    <2> QED
      BY <1>2, <2>1, <2>2, <2>3, <2>4, <2>5, OwnStep DEF InDown, Locs, schedVars
  <1> QED
    BY <1>1, <1>2 DEF sem_try_down

-----------------------------------------------------------------------------
(* A step of the interrupt handler or of a system call: none that sleeps   *)
(* on a semaphore is woken, and nobody moves but between user mode and the *)
(* end of a trap.                                                          *)
LEMMA OtherStep ==
  ASSUME IInv, Scheduling', UNCHANGED <<semVars, sem, ret>>, pc' \in [AllProcs -> Locs],
         \A p \in Procs : \/ pc'[p] = pc[p]
                          \/ pc[p] \in {"run", "trap_exit"} /\ pc'[p] \in {"run", "trap_exit"},
         \A p \in Procs : wait_state[p] = "WT_KSEM" /\ state[p] = "SLEEPING" =>
                             state'[p] = state[p] /\ wait_state'[p] = wait_state[p]
  PROVE  IInv'
  <1>1. UNCHANGED <<value, wait_queue, wakeup_flags>>
    BY DEF semVars
  <1>2. Typing'
    BY <1>1 DEF IInv, Typing
  <1>3. \A p \in Procs : (InDown(p)' <=> InDown(p)) /\ (InSleep(p)' <=> InSleep(p))
    BY DEF InDown, InSleep
  <1>4. Located'
    BY <1>3 DEF IInv, Located, Place, InSleep
  <1>5. Waiting' /\ Queued'
    BY <1>1, <1>3, BlockedSame DEF IInv, Waiting
  <1>6. \A p \in Procs, s \in Sems : Owns(p, s)' <=> Owns(p, s)
    BY <1>1, <1>3 DEF Owns
  <1>7. UnitsConserved'
    BY <1>1, <1>6, UnitsSame
  <1> QED
    BY <1>2, <1>4, <1>5, <1>7 DEF IInv

(* The process on the CPU moves between user mode and the end of a trap.   *)
LEMMA Moves ==
  ASSUME IInv, NEW c \in Procs, pc[c] \in {"run", "trap_exit"},
         NEW to \in {"run", "trap_exit"}, pc' = [pc EXCEPT ![c] = to]
  PROVE  /\ pc' \in [AllProcs -> Locs]
         /\ \A p \in Procs : \/ pc'[p] = pc[p]
                             \/ pc[p] \in {"run", "trap_exit"} /\ pc'[p] \in {"run", "trap_exit"}
         /\ pc'[c] = to
  BY DEF IInv, Typing, Locs, AllProcs

LEMMA KillStep ==
  ASSUME IInv, NEW q \in Procs, sys_kill(q)
  PROVE  IInv'
  <1>1. PICK c \in Procs : c = current
    BY DEF sys_kill, At
  <1>2. /\ SchedTyped /\ QueueOK /\ Typing /\ pc[c] = "run" /\ state[c] = "RUNNABLE"
        /\ q \in AllProcs /\ pc' = [pc EXCEPT ![c] = "trap_exit"]
        /\ UNCHANGED <<semVars, sem, ret>>
    BY <1>1, OnCPU DEF sys_kill, Goto, AllProcs
  <1>3. /\ pc' \in [AllProcs -> Locs]
        /\ \A p \in Procs : \/ pc'[p] = pc[p]
                            \/ pc[p] \in {"run", "trap_exit"} /\ pc'[p] \in {"run", "trap_exit"}
        /\ pc'[c] = "trap_exit"
    BY <1>2, Moves
  <1>4. CASE KillWakes(q) /\ wakeup_proc(q) /\ UNCHANGED <<need_resched, current, timer_list, tick>>
    <2>1. TimersTyped'
      BY <1>2, <1>4 DEF SchedTyped, TimersTyped
    <2>2. /\ SchedTyped' /\ QueueOK'
          /\ state' = [state EXCEPT ![q] = "RUNNABLE"]
          /\ wait_state' = IF state[q] = "RUNNABLE" THEN wait_state ELSE [wait_state EXCEPT ![q] = "0"]
      BY <1>2, <1>4, <2>1, WakeEffect
    <2>3. state'[c] = "RUNNABLE"
      BY <1>2, <2>2 DEF SchedTyped, AllProcs
    <2>4. Scheduling'
      BY <1>1, <1>4, <2>2, <2>3 DEF Scheduling
    <2>5. \A p \in Procs : wait_state[p] = "WT_KSEM" /\ state[p] = "SLEEPING" =>
                             state'[p] = state[p] /\ wait_state'[p] = wait_state[p]
      BY <1>2, <1>4, <2>2 DEF KillWakes, Interruptible, SchedTyped, AllProcs
    <2> QED
      BY <1>2, <1>3, <2>4, <2>5, OtherStep
  <1>5. CASE UNCHANGED schedVars
    <2>1. Scheduling'
      BY <1>1, <1>2, <1>5 DEF Scheduling, SchedTyped, TimersTyped, QueueOK, schedVars
    <2> QED
      BY <1>2, <1>3, <1>5, <2>1, OtherStep DEF schedVars
  <1> QED
    BY <1>4, <1>5 DEF sys_kill

LEMMA TrapStep ==
  ASSUME IInv, trap_exit
  PROVE  IInv'
  <1>1. PICK c \in Procs : c = current
    BY DEF trap_exit, At
  <1>2. /\ SchedTyped /\ QueueOK /\ Typing /\ pc[c] = "trap_exit" /\ state[c] = "RUNNABLE"
        /\ pc' = [pc EXCEPT ![c] = "run"]
        /\ UNCHANGED <<semVars, sem, ret>>
    BY <1>1, OnCPU DEF trap_exit, Goto
  <1>3. CASE schedule
    BY <1>1, <1>2, <1>3, ScheduleStep DEF trap_exit
  <1>4. CASE UNCHANGED schedVars
    <2>1. Scheduling'
      BY <1>1, <1>2, <1>4 DEF Scheduling, SchedTyped, TimersTyped, QueueOK, schedVars
    <2> QED
      BY <1>2, <1>4, <2>1, Moves, OtherStep DEF schedVars
  <1> QED
    BY <1>3, <1>4 DEF trap_exit

LEMMA IdleStep ==
  ASSUME IInv, Idle
  PROVE  IInv'
  <1>1. schedule /\ UNCHANGED <<semVars, procVars>>
    BY DEF Idle, cpu_idle
  <1>2. /\ SchedTyped' /\ QueueOK' /\ UNCHANGED <<state, wait_state>>
        /\ current' \in Procs => state[current'] = "RUNNABLE"
    BY <1>1, ScheduleEffect DEF IInv, Scheduling
  <1>3. Scheduling'
    BY <1>2 DEF Scheduling
  <1> QED
    BY <1>1, <1>2, <1>3, OtherStep DEF IInv, Typing, procVars

(* The timer interrupt. *)
LEMMA TickStep ==
  ASSUME IInv, TimerInterrupt
  PROVE  IInv'
  <1>1. /\ SchedTyped /\ QueueOK /\ Typing
        /\ UNCHANGED <<semVars, procVars, state, wait_state, run_list, current>>
    BY DEF IInv, Scheduling, TimerInterrupt, run_timer_list
  <1>2. TimersTyped'
    BY <1>1, TickTyped DEF TimerInterrupt, SchedTyped
  <1>3. Scheduling'
    BY <1>1, <1>2 DEF IInv, Scheduling, SchedTyped, QueueOK, procVars
  <1> QED
    BY <1>1, <1>3, OtherStep DEF Typing, procVars

LEMMA ExpiresStep ==
  ASSUME IInv, TimerExpires
  PROVE  IInv'
  <1> DEFINE p == timer_list[1].proc
  <1>1. /\ SchedTyped /\ QueueOK /\ Typing
        /\ UNCHANGED <<semVars, sem, ret, pc, current>>
        /\ timer_list # <<>> /\ timer_list' = Tail(timer_list)
    BY DEF IInv, Scheduling, TimerExpires, timer_expires, Expired, procVars
  <1>2. p \in Procs /\ p \in AllProcs /\ TimersTyped'
    BY <1>1, TimersLength DEF TimersTyped, SchedTyped, AllProcs
  <1>3. \/ wait_state[p] \in Interruptible \cup {"0"} /\ wakeup_proc(p)
        \/ UNCHANGED <<state, wait_state, run_list>>
    BY DEF TimerExpires, timer_expires
  <1> HIDE DEF p
  <1>4. CASE wait_state[p] \in Interruptible \cup {"0"} /\ wakeup_proc(p)
    <2>1. /\ SchedTyped' /\ QueueOK'
          /\ state' = [state EXCEPT ![p] = "RUNNABLE"]
          /\ wait_state' = IF state[p] = "RUNNABLE" THEN wait_state ELSE [wait_state EXCEPT ![p] = "0"]
      BY <1>1, <1>2, <1>4, WakeEffect
    <2>2. Scheduling'
      BY <1>1, <1>2, <2>1 DEF IInv, Scheduling, SchedTyped
    <2>3. \A q \in Procs : wait_state[q] = "WT_KSEM" /\ state[q] = "SLEEPING" =>
                             state'[q] = state[q] /\ wait_state'[q] = wait_state[q]
      BY <1>1, <1>2, <1>4, <2>1 DEF Interruptible, SchedTyped, AllProcs
    <2> QED
      BY <1>1, <2>2, <2>3, OtherStep DEF Typing
  <1>5. CASE UNCHANGED <<state, wait_state, run_list>>
    <2>1. Scheduling'
      BY <1>1, <1>2, <1>5 DEF IInv, Scheduling, SchedTyped, QueueOK
    <2> QED
      BY <1>1, <1>5, <2>1, OtherStep DEF Typing
  <1> QED
    BY <1>3, <1>4, <1>5

(* An interrupt comes to a user process in user mode only, so that it is   *)
(* still there when the handler returns.                                   *)
Interrupted == tick = "none" \/ InterruptsOn

LEMMA ReturnsStep ==
  ASSUME IInv, Interrupted, TimerReturns
  PROVE  IInv'
  <1>1. /\ SchedTyped /\ QueueOK /\ Typing
        /\ UNCHANGED <<semVars, sem, ret, state, wait_state, run_list, current, timer_list>>
    BY DEF IInv, Scheduling, TimerReturns, timer_returns
  <1>2. CASE current \in Procs \ Threads
    <2>1. PICK c \in Procs : c = current
      BY <1>2
    <2>2. pc[c] = "run" /\ pc' = [pc EXCEPT ![c] = "trap_exit"] /\ state[c] = "RUNNABLE"
      BY <1>2, <2>1, SchedAssumption
         DEF Interrupted, InterruptsOn, TimerReturns, timer_returns, Goto, IInv, Scheduling
    <2>3. Scheduling'
      BY <1>1, <2>1, <2>2 DEF Scheduling, SchedTyped, TimersTyped, QueueOK
    <2> QED
      BY <1>1, <2>2, <2>3, Moves, OtherStep
  <1>3. CASE current \notin Procs \ Threads
    <2>1. UNCHANGED pc
      BY <1>3 DEF TimerReturns
    <2>2. Scheduling'
      BY <1>1, <2>1 DEF IInv, Scheduling, SchedTyped, TimersTyped, QueueOK
    <2> QED
      BY <1>1, <2>1, <2>2, OtherStep DEF Typing
  <1> QED
    BY <1>2, <1>3

LEMMA InterruptedStep ==
  ASSUME Interrupted, [Next]_vars
  PROVE  Interrupted'
  <1>1. CASE Kernel
    BY <1>1 DEF Kernel, Interrupted, down_schedule, sem_down_returns, down_returns, sleep_schedule,
                sleep_returns, exit_schedule, do_exit, trap_exit, Idle, cpu_idle, schedule, At,
                Running, schedVars
  <1>2. CASE do_exit
    BY <1>2 DEF do_exit, At, Running, Interrupted
  <1>3. CASE sem_up
    BY <1>3 DEF sem_up, up, At, Running, Interrupted, schedVars
  <1>4. CASE TimerInterrupt
    BY <1>4 DEF TimerInterrupt, run_timer_list, Interrupted, InterruptsOn, procVars
  <1>5. CASE Handler
    BY <1>5 DEF Handler, TimerExpires, timer_expires, TimerReturns, timer_returns, Interrupted,
                InterruptsOn, procVars
  <1>6. ASSUME NEW s \in Sems, sem_down(s) \/ sem_try_down(s) PROVE Interrupted'
    BY <1>6 DEF sem_down, sem_try_down, down_takes, down_waits, At, Running, Interrupted, schedVars
  <1>7. ASSUME NEW n, do_sleep(n) PROVE Interrupted'
    BY <1>7 DEF do_sleep, At, Running, Interrupted
  <1>8. ASSUME NEW q \in Procs, sys_kill(q) PROVE Interrupted'
    BY <1>8 DEF sys_kill, At, Running, Interrupted, schedVars
  <1>9. CASE UNCHANGED vars
    BY <1>9 DEF vars, schedVars, procVars, Interrupted, InterruptsOn
  <1> QED
    BY <1>1, <1>2, <1>3, <1>4, <1>5, <1>6, <1>7, <1>8, <1>9 DEF Next

-----------------------------------------------------------------------------
LEMMA IInvInit == Init => IInv /\ Interrupted
  <1> SUFFICES ASSUME Init PROVE IInv /\ Interrupted
    OBVIOUS
  <1>1. PICK ready \in [1..Cardinality(Procs) -> Procs] :
          /\ \A p \in Procs : Contains(ready, p)
          /\ SchedInit(ready)
    BY DEF Init
  <1>2. SchedTyped /\ QueueOK
    BY <1>1, SyncAssumption, SchedInitEffect
  <1>3. current = idleproc /\ tick = "none"
    BY <1>1 DEF SchedInit
  <1>4. Scheduling /\ Interrupted
    BY <1>2, <1>3, SchedAssumption DEF Scheduling, Interrupted
  <1>5. /\ value = [s \in Sems |-> MAX_VALUE]
        /\ wait_queue = [s \in Sems |-> <<>>]
        /\ wakeup_flags = [p \in AllProcs |-> "0"]
        /\ pc = [p \in AllProcs |-> IF p = idleproc THEN "cpu_idle" ELSE "run"]
        /\ sem = [p \in AllProcs |-> None] /\ ret = [p \in AllProcs |-> None]
    BY DEF Init, SemInit
  <1>6. \A p \in Procs : p \in AllProcs /\ pc[p] = "run" /\ sem[p] = None
    BY <1>5, SchedAssumption DEF AllProcs
  <1>7. Typing
    BY <1>5, SyncAssumption DEF Typing, Locs
  <1>8. Located /\ Waiting
    BY <1>6 DEF Located, Waiting, InDown, InSleep, Place
  <1>9. Queued
    BY <1>5 DEF Queued
  <1>10. UnitsConserved
    <2>1. \A s \in Sems : Owners(s) = {}
      BY <1>6, SyncAssumption DEF Owners
    <2>2. Cardinality({}) = 0
      BY FS_EmptySet
    <2>3. \A s \in Sems : value[s] = MAX_VALUE
      BY <1>5
    <2> QED
      BY <2>1, <2>2, <2>3, SyncAssumption DEF UnitsConserved
  <1> QED
    BY <1>4, <1>7, <1>8, <1>9, <1>10 DEF IInv

(* The invariant is kept by the code of the processes, by the interrupt    *)
(* handler in the middle of it, and by kills.                              *)
THEOREM Inductive == IInv /\ Interrupted /\ [Next]_vars => IInv' /\ Interrupted'
  <1> SUFFICES ASSUME IInv, Interrupted, [Next]_vars PROVE IInv'
    BY InterruptedStep
  <1>1. CASE down_schedule \/ sleep_schedule \/ exit_schedule
    <2>1. /\ schedule /\ current \in Procs /\ UNCHANGED <<semVars, exiting, sem, ret>>
          /\ \/ pc[current] = "down" /\ Goto("down_ret")
             \/ pc[current] = "sleep" /\ Goto("sleep_ret")
             \/ pc[current] = "exit" /\ Goto("dead")
      BY <1>1 DEF down_schedule, sleep_schedule, exit_schedule, At
    <2> QED
      BY <2>1, ScheduleStep
  <1>2. CASE sem_down_returns
    BY <1>2, DownRetStep
  <1>3. CASE sleep_returns
    BY <1>3, SleepRetStep
  <1>4. CASE do_exit
    BY <1>4, ExitStep
  <1>5. CASE trap_exit
    BY <1>5, TrapStep
  <1>6. CASE Idle
    BY <1>6, IdleStep
  <1>7. CASE sem_up
    BY <1>7, GiveStep, PassStep
  <1>8. CASE TimerInterrupt
    BY <1>8, TickStep
  <1>9. CASE Handler
    BY <1>9, ExpiresStep, ReturnsStep DEF Handler
  <1>10. ASSUME NEW s \in Sems, sem_down(s) PROVE IInv'
    BY <1>10, TakeStep, WaitStep DEF sem_down
  <1>11. ASSUME NEW s \in Sems, sem_try_down(s) PROVE IInv'
    BY <1>11, TryStep
  <1>12. ASSUME NEW n, do_sleep(n) PROVE IInv'
    BY <1>12, SleepStep
  <1>13. ASSUME NEW q \in Procs, sys_kill(q) PROVE IInv'
    BY <1>13, KillStep
  <1>14. CASE UNCHANGED vars
    <2>1. Scheduling'
      BY <1>14 DEF IInv, Scheduling, SchedTyped, TimersTyped, QueueOK, vars, schedVars, procVars
    <2> QED
      BY <1>14, <2>1, OtherStep DEF IInv, Typing, vars, schedVars, procVars
  <1> QED
    BY <1>1, <1>2, <1>3, <1>4, <1>5, <1>6, <1>7, <1>8, <1>9, <1>10, <1>11, <1>12, <1>13, <1>14
       DEF Next, Kernel

THEOREM Invariance == Spec => [](IInv /\ Interrupted)
  BY IInvInit, Inductive, PTL DEF Spec

(* No unit of a semaphore is lost or made by the timer interrupts, the     *)
(* kills and the exits that come in the middle of down() and up().         *)
THEOREM UnitsAlwaysConserved == Spec => []UnitsConserved
  <1>1. IInv => UnitsConserved
    BY DEF IInv
  <1> QED
    BY <1>1, Invariance, PTL

(* The run queue always holds the runnable processes without the CPU, each *)
(* once, though the timer interrupt and up() wake a process between its    *)
(* falling asleep and its call of schedule().                              *)
THEOREM RunQueueAlwaysOK == Spec => []RunQueueOK
  <1>1. ASSUME IInv PROVE RunQueueOK
    <2>1. SchedTyped /\ QueueOK
      BY <1>1 DEF IInv, Scheduling
    <2>2. \A p \in Procs : Contains(run_list, p) <=> state[p] = "RUNNABLE" /\ p # current
      BY <2>1 DEF QueueOK, Contains
    <2> QED
      BY <2>1, <2>2 DEF QueueOK, RunQueueOK
  <1> QED
    BY <1>1, Invariance, PTL
-----------------------------------------------------------------------------
(* Who sleeps can be woken. *)
-----------------------------------------------------------------------------
Asleep(p) == state[p] = "SLEEPING" /\ wait_state[p] = "WT_KSEM"

(* Queued says that who is in a wait queue is asleep; this is the converse *)
(* and that a unit that is there leaves nobody waiting.                    *)
QueuedAsleep ==
  /\ \A p \in Procs : Asleep(p) =>
       \E s \in Sems : \E k \in 1..Len(wait_queue[s]) : wait_queue[s][k] = p
  /\ \A s \in Sems : value[s] >= 0 /\ (value[s] > 0 => wait_queue[s] = <<>>)

(* The timers are those of the processes in do_sleep, one for each that is *)
(* still asleep.                                                           *)
Timed ==
  /\ \A k \in 1..Len(timer_list) : InSleep(timer_list[k].proc)
  /\ \A j, k \in 1..Len(timer_list) : timer_list[j].proc = timer_list[k].proc => j = k
  /\ \A p \in Procs : wait_state[p] = "WT_TIMER" =>
       state[p] = "SLEEPING" /\ \E k \in 1..Len(timer_list) : timer_list[k].proc = p

SInv == IInv /\ Interrupted /\ QueuedAsleep /\ Timed
-----------------------------------------------------------------------------
LEMMA TimerProc ==
  ASSUME NEW t, Timers(t), NEW k \in 1..Len(t)
  PROVE  t[k].proc \in Procs
  <1>1. PICK X : t \in Seq([proc : Procs, expires : X])
    BY DEF Timers
  <1>2. t[k] \in [proc : Procs, expires : X]
    BY <1>1, EntryIn
  <1> QED
    BY <1>2

LEMMA SameUpTo ==
  ASSUME NEW m \in Nat, NEW n \in Nat, 1..m = 1..n
  PROVE  m = n
  <1>1. m = 0 \/ m \in 1..n
    OBVIOUS
  <1>2. n = 0 \/ n \in 1..m
    OBVIOUS
  <1> QED
    BY <1>1, <1>2

(* A new expiry leaves the timer with its process, and the others alone. *)
LEMMA SetExpiresEntries ==
  ASSUME NEW t, Timers(t), NEW e, NEW k \in 1..Len(t),
         NEW u, u = [t EXCEPT ![k].expires = e]
  PROVE  \A j \in 1..Len(t) : /\ u[j].proc = t[j].proc
                              /\ u[j].expires = IF j = k THEN e ELSE t[j].expires
  <1>1. PICK X : t \in Seq([proc : Procs, expires : X])
    BY DEF Timers
  <1>2. t[k] \in [proc : Procs, expires : X]
    BY <1>1, EntryIn
  <1> DEFINE r == [t[k] EXCEPT !.expires = e]
  <1>3. r.proc = t[k].proc /\ r.expires = e
    BY <1>2
  <1>4. u = [t EXCEPT ![k] = r]
    OBVIOUS
  <1> HIDE DEF r
  <1>5. \A j \in 1..Len(t) : u[j] = IF j = k THEN r ELSE t[j]
    BY <1>1, <1>4
  <1> QED
    BY <1>3, <1>5

LEMMA InheritEntries ==
  ASSUME TimersTyped, NEW i \in 1..Len(timer_list)
  PROVE  /\ Timers(Inherit(i)) /\ Len(Inherit(i)) = Len(timer_list)
         /\ \A k \in 1..Len(timer_list) :
              /\ Inherit(i)[k].proc = timer_list[k].proc
              /\ Inherit(i)[k].expires =
                   IF k = i + 1 THEN timer_list[k].expires + timer_list[i].expires
                   ELSE timer_list[k].expires
  <1>1. Len(timer_list) \in Nat
    BY TimersLength DEF TimersTyped
  <1>2. CASE i < Len(timer_list)
    <2> DEFINE left == timer_list[i + 1].expires + timer_list[i].expires
    <2>1. PICK k \in 1..Len(timer_list) : k = i + 1
      BY <1>1, <1>2
    <2>2. PICK u : u = Inherit(i)
      OBVIOUS
    <2>3. u = [timer_list EXCEPT ![k].expires = left]
      BY <1>2, <2>1, <2>2 DEF Inherit
    <2> HIDE DEF left
    <2>4. Timers(u) /\ Len(u) = Len(timer_list)
      BY <2>3, SetExpires DEF TimersTyped
    <2>5. \A j \in 1..Len(timer_list) :
            /\ u[j].proc = timer_list[j].proc
            /\ u[j].expires = IF j = k THEN left ELSE timer_list[j].expires
      <3>1. Timers(timer_list)
        BY DEF TimersTyped
      <3> QED
        BY <2>3, <3>1, SetExpiresEntries
    <2> QED
      BY <2>1, <2>2, <2>4, <2>5 DEF left
  <1>3. CASE ~(i < Len(timer_list))
    BY <1>1, <1>3 DEF Inherit, TimersTyped
  <1> QED
    BY <1>2, <1>3

(* add_timer puts the timer of p somewhere between the others. *)
LEMMA AddTimerEntries ==
  ASSUME TimersTyped, NEW p \in Procs, NEW n, add_timer(p, n)
  PROVE  \E at \in 1..(Len(timer_list) + 1) :
           /\ Stops(n, at) /\ \A j \in 1..(at - 1) : ~Stops(n, j)
           /\ Len(timer_list') = Len(timer_list) + 1
           /\ \A k \in 1..(Len(timer_list) + 1) :
                /\ timer_list'[k].proc = IF k < at THEN timer_list[k].proc
                                         ELSE IF k = at THEN p ELSE timer_list[k - 1].proc
                /\ timer_list'[k].expires =
                     IF k < at THEN timer_list[k].expires
                     ELSE IF k = at THEN Left(n)[at]
                     ELSE IF k = at + 1 THEN timer_list[k - 1].expires - Left(n)[at]
                     ELSE timer_list[k - 1].expires
  <1>1. PICK X : timer_list \in Seq([proc : Procs, expires : X])
    BY DEF TimersTyped, Timers
  <1> DEFINE len == Len(timer_list)
             places == {k \in 1..(len + 1) : Stops(n, k)}
             at == CHOOSE k \in 1..(len + 1) : Stops(n, k) /\ \A j \in 1..(k - 1) : ~Stops(n, j)
  <1>2. len \in Nat
    BY <1>1
  <1>3. \E k \in 1..(len + 1) : Stops(n, k) /\ \A j \in 1..(k - 1) : ~Stops(n, j)
    <2>1. len + 1 \in places /\ places \subseteq Nat
      BY <1>2 DEF Stops
    <2>2. PICK k \in places : \A j \in places : k <= j
      BY <2>1, LeastNumber
    <2> QED
      BY <1>2, <2>2
  <1>4. at \in 1..(len + 1) /\ Stops(n, at) /\ \A j \in 1..(at - 1) : ~Stops(n, j)
    BY <1>3
  <1> DEFINE left == Left(n)[at]
             new == Timer(p, left)
             next == [timer_list[at] EXCEPT !.expires = @ - left]
  <1>5. timer_list' = [k \in 1..(len + 1) |->
                         IF k < at THEN timer_list[k]
                         ELSE IF k = at THEN new
                         ELSE IF k = at + 1 THEN next
                         ELSE timer_list[k - 1]]
    BY DEF add_timer
  <1> HIDE DEF at, left
  <1>6. new.proc = p /\ new.expires = left
    BY DEF Timer
  <1>7. at \in 1..len => /\ next.proc = timer_list[at].proc
                        /\ next.expires = timer_list[at].expires - left
    <2> SUFFICES ASSUME at \in 1..len
                 PROVE  /\ next.proc = timer_list[at].proc
                        /\ next.expires = timer_list[at].expires - left
      OBVIOUS
    <2>1. timer_list[at] \in [proc : Procs, expires : X]
      BY <1>1, EntryIn
    <2> QED
      BY <2>1
  <1>8. Len(timer_list') = len + 1
    <2>1. TimersTyped'
      BY AddTimerTyped
    <2>2. PICK Y : timer_list' \in Seq([proc : Procs, expires : Y])
      BY <2>1 DEF TimersTyped, Timers
    <2>3. DOMAIN timer_list' = 1..Len(timer_list') /\ Len(timer_list') \in Nat
      BY <2>2
    <2>4. DOMAIN timer_list' = 1..(len + 1)
      BY <1>5
    <2>5. 1..Len(timer_list') = 1..(len + 1)
      BY <2>3, <2>4, Zenon
    <2>6. len + 1 \in Nat
      BY <1>2
    <2> QED
      BY <2>3, <2>5, <2>6, SameUpTo
  <1> HIDE DEF new, next, len
  <1>9. ASSUME NEW k \in 1..(len + 1)
        PROVE  /\ timer_list'[k].proc = IF k < at THEN timer_list[k].proc
                                        ELSE IF k = at THEN p ELSE timer_list[k - 1].proc
               /\ timer_list'[k].expires =
                    IF k < at THEN timer_list[k].expires
                    ELSE IF k = at THEN left
                    ELSE IF k = at + 1 THEN timer_list[k - 1].expires - left
                    ELSE timer_list[k - 1].expires
    <2>1. CASE k <= at
      BY <1>2, <1>4, <1>5, <1>6, <2>1
    <2>2. CASE k = at + 1
      <3>1. at \in 1..len /\ k - 1 = at
        BY <1>2, <1>4, <2>2
      <3>2. timer_list'[k] = next
        BY <1>2, <1>4, <1>5, <2>2
      <3> QED
        BY <1>4, <1>7, <2>2, <3>1, <3>2
    <2>3. CASE k > at + 1
      BY <1>2, <1>4, <1>5, <2>3
    <2> QED
      BY <1>2, <1>4, <2>1, <2>2, <2>3
  <1>10. \A k \in 1..(len + 1) :
           /\ timer_list'[k].proc = IF k < at THEN timer_list[k].proc
                                    ELSE IF k = at THEN p ELSE timer_list[k - 1].proc
           /\ timer_list'[k].expires =
                IF k < at THEN timer_list[k].expires
                ELSE IF k = at THEN Left(n)[at]
                ELSE IF k = at + 1 THEN timer_list[k - 1].expires - Left(n)[at]
                ELSE timer_list[k - 1].expires
    BY <1>9 DEF left
  <1> QED
    BY <1>4, <1>8, <1>10 DEF len

(* del_timer takes a timer of p out, if there is one. *)
LEMMA DelTimerEntries ==
  ASSUME TimersTyped, NEW p, del_timer(p)
  PROVE  \/ UNCHANGED timer_list /\ \A k \in 1..Len(timer_list) : timer_list[k].proc # p
         \/ \E i \in 1..Len(timer_list) :
              /\ timer_list[i].proc = p
              /\ Len(timer_list') = Len(timer_list) - 1
              /\ \A k \in 1..(Len(timer_list) - 1) :
                   /\ timer_list'[k].proc = IF k < i THEN timer_list[k].proc
                                            ELSE timer_list[k + 1].proc
                   /\ timer_list'[k].expires =
                        IF k < i THEN timer_list[k].expires
                        ELSE IF k = i THEN timer_list[k + 1].expires + timer_list[i].expires
                        ELSE timer_list[k + 1].expires
  <1>1. CASE \E i \in 1..Len(timer_list) : timer_list[i].proc = p
    <2>1. PICK i \in 1..Len(timer_list) :
            timer_list[i].proc = p /\ timer_list' = RemoveAt(Inherit(i), i)
      BY <1>1 DEF del_timer
    <2>2. Len(timer_list) \in Nat
      BY TimersLength DEF TimersTyped
    <2>3. PICK u : u = Inherit(i)
      OBVIOUS
    <2>4. /\ Timers(u) /\ Len(u) = Len(timer_list)
          /\ \A k \in 1..Len(timer_list) :
               /\ u[k].proc = timer_list[k].proc
               /\ u[k].expires = IF k = i + 1 THEN timer_list[k].expires + timer_list[i].expires
                                 ELSE timer_list[k].expires
      BY <2>3, InheritEntries
    <2>5. PICK X : u \in Seq([proc : Procs, expires : X])
      BY <2>4 DEF Timers
    <2>6. /\ Len(RemoveAt(u, i)) = Len(u) - 1
          /\ \A k \in 1..(Len(u) - 1) : RemoveAt(u, i)[k] = IF k < i THEN u[k] ELSE u[k + 1]
      BY <2>4, <2>5, RemoveAtEntries
    <2>7. ASSUME NEW k \in 1..(Len(timer_list) - 1)
          PROVE  /\ timer_list'[k].proc = IF k < i THEN timer_list[k].proc
                                          ELSE timer_list[k + 1].proc
                 /\ timer_list'[k].expires =
                      IF k < i THEN timer_list[k].expires
                      ELSE IF k = i THEN timer_list[k + 1].expires + timer_list[i].expires
                      ELSE timer_list[k + 1].expires
      <3>1. timer_list'[k] = IF k < i THEN u[k] ELSE u[k + 1]
        BY <2>1, <2>3, <2>4, <2>6
      <3>2. k \in 1..Len(timer_list) /\ k + 1 \in 1..Len(timer_list)
        BY <2>2
      <3>3. k < i => k # i + 1
        BY <2>2
      <3>4. k + 1 = i + 1 <=> k = i
        BY <2>2
      <3> QED
        BY <2>4, <3>1, <3>2, <3>3, <3>4
    <2> QED
      BY <2>1, <2>3, <2>4, <2>6, <2>7
  <1>2. CASE ~\E i \in 1..Len(timer_list) : timer_list[i].proc = p
    BY <1>2 DEF del_timer
  <1> QED
    BY <1>1, <1>2
-----------------------------------------------------------------------------
(* Nobody goes to sleep in do_sleep, and who is there stays. *)
LEMMA TimedSame ==
  ASSUME SInv, Len(timer_list') = Len(timer_list),
         \A k \in 1..Len(timer_list) : timer_list'[k].proc = timer_list[k].proc,
         \A p \in Procs : /\ InSleep(p) => InSleep(p)'
                          /\ wait_state'[p] = "WT_TIMER" =>
                               wait_state[p] = "WT_TIMER" /\ state'[p] = state[p]
  PROVE  Timed'
  <1>1. \A k \in 1..Len(timer_list) : timer_list[k].proc \in Procs
    BY TimerProc DEF SInv, IInv, Scheduling, SchedTyped, TimersTyped
  <1>2. /\ \A k \in 1..Len(timer_list) : InSleep(timer_list[k].proc)
        /\ \A j, k \in 1..Len(timer_list) : timer_list[j].proc = timer_list[k].proc => j = k
        /\ \A p \in Procs : wait_state[p] = "WT_TIMER" =>
             state[p] = "SLEEPING" /\ \E k \in 1..Len(timer_list) : timer_list[k].proc = p
    BY DEF SInv, Timed
  <1>3. \A k \in 1..Len(timer_list') : pc'[timer_list'[k].proc] \in {"sleep", "sleep_ret"}
    BY <1>1, <1>2 DEF InSleep
  <1>4. \A j, k \in 1..Len(timer_list') : timer_list'[j].proc = timer_list'[k].proc => j = k
    BY <1>2
  <1>5. \A p \in Procs : wait_state'[p] = "WT_TIMER" =>
          state'[p] = "SLEEPING" /\ \E k \in 1..Len(timer_list') : timer_list'[k].proc = p
    BY <1>2
  <1> QED
    BY <1>3, <1>4, <1>5 DEF Timed, InSleep

(* Nobody goes to sleep on a semaphore, and the queues stay. *)
LEMMA QueuedSame ==
  ASSUME SInv, UNCHANGED wait_queue, \A p \in Procs : Asleep(p)' => Asleep(p),
         \A s \in Sems : value'[s] = value[s] \/ (value'[s] >= 0 /\ wait_queue[s] = <<>>)
  PROVE  QueuedAsleep'
  BY DEF SInv, QueuedAsleep

(* No process goes to sleep. *)
LEMMA CalmStep ==
  ASSUME SInv, UNCHANGED <<semVars, timer_list>>,
         \A p \in Procs : /\ InSleep(p) => InSleep(p)'
                          /\ Asleep(p)' => Asleep(p)
                          /\ wait_state'[p] = "WT_TIMER" =>
                               wait_state[p] = "WT_TIMER" /\ state'[p] = state[p]
  PROVE  QueuedAsleep' /\ Timed'
  BY QueuedSame, TimedSame DEF semVars

(* Who is woken is not asleep any more, the others are as they were. *)
LEMMA Woken ==
  ASSUME SInv, NEW q \in Procs, wakeup_proc(q), UNCHANGED current, TimersTyped'
  PROVE  \A p \in Procs : /\ Asleep(p)' => Asleep(p) /\ p # q
                          /\ wait_state'[p] = "WT_TIMER" =>
                               wait_state[p] = "WT_TIMER" /\ state'[p] = state[p] /\ p # q
  <1>1. SchedTyped /\ QueueOK
    BY DEF SInv, IInv, Scheduling
  <1>2. /\ state' = [state EXCEPT ![q] = "RUNNABLE"]
        /\ wait_state' = IF state[q] = "RUNNABLE" THEN wait_state ELSE [wait_state EXCEPT ![q] = "0"]
    BY <1>1, WakeEffect
  <1>3. /\ state'[q] = "RUNNABLE"
        /\ wait_state'[q] = "0" \/ (state[q] = "RUNNABLE" /\ wait_state' = wait_state)
    <2>1. /\ q \in AllProcs /\ state \in [AllProcs -> {"RUNNABLE", "SLEEPING", "ZOMBIE"}]
          /\ wait_state \in [AllProcs -> {"0", "WT_TIMER", "WT_KSEM", "WT_CHILD"}]
      BY <1>1 DEF SchedTyped, AllProcs
    <2> QED
      BY <1>2, <2>1
  <1>4. \A p \in Procs : p # q => state'[p] = state[p] /\ wait_state'[p] = wait_state[p]
    BY <1>1, <1>2 DEF SchedTyped, AllProcs
  <1>5. state[q] = "RUNNABLE" => wait_state[q] # "WT_TIMER"
    BY DEF SInv, Timed
  <1> QED
    BY <1>3, <1>4, <1>5 DEF Asleep

(* The program counter of the process with the CPU. *)
LEMMA OwnPc ==
  ASSUME SInv, current \in Procs, NEW to, Goto(to),
         ~InSleep(current) \/ to \in {"sleep", "sleep_ret"}
  PROVE  \A p \in Procs : InSleep(p) => InSleep(p)'
  BY DEF SInv, IInv, Typing, Goto, InSleep, AllProcs
-----------------------------------------------------------------------------
LEMMA CalmSteps ==
  ASSUME SInv,
         \/ down_schedule \/ sleep_schedule \/ exit_schedule \/ trap_exit \/ Idle
         \/ do_exit \/ TimerReturns \/ UNCHANGED vars
  PROVE  QueuedAsleep' /\ Timed'
  <1>1. CASE down_schedule \/ sleep_schedule \/ exit_schedule \/ trap_exit
    <2>1. current \in Procs /\ UNCHANGED <<semVars, timer_list, state, wait_state>>
      BY <1>1 DEF down_schedule, sleep_schedule, exit_schedule, trap_exit, At, schedule, schedVars
    <2>2. \E to : Goto(to) /\ (~InSleep(current) \/ to \in {"sleep", "sleep_ret"})
      BY <1>1 DEF down_schedule, sleep_schedule, exit_schedule, trap_exit, At, InSleep
    <2>3. \A p \in Procs : InSleep(p) => InSleep(p)'
      BY <2>1, <2>2, OwnPc
    <2> QED
      BY <2>1, <2>3, CalmStep DEF Asleep
  <1>2. CASE Idle \/ UNCHANGED vars
    <2>1. UNCHANGED <<semVars, timer_list, state, wait_state, pc>>
      BY <1>2 DEF Idle, cpu_idle, schedule, vars, schedVars, procVars
    <2> QED
      BY <2>1, CalmStep DEF Asleep, InSleep
  <1>3. CASE do_exit
    <2>1. /\ current \in Procs /\ pc[current] \in {"run", "trap_exit"}
          /\ SchedTyped /\ state[current] = "RUNNABLE"
      BY <1>3, OnCPU DEF do_exit, SInv
    <2>2. /\ state' = [state EXCEPT ![current] = "ZOMBIE"] /\ Goto("exit")
          /\ UNCHANGED <<wait_state, timer_list, semVars>>
      BY <1>3 DEF do_exit
    <2>3. \A p \in Procs : InSleep(p) => InSleep(p)'
      BY <2>1, <2>2, OwnPc DEF InSleep
    <2>4. wait_state[current] # "WT_TIMER"
      BY <2>1 DEF SInv, Timed
    <2>5. /\ state'[current] = "ZOMBIE"
          /\ \A p \in Procs : p # current => state'[p] = state[p]
      BY <2>1, <2>2 DEF SchedTyped, AllProcs
    <2> QED
      BY <2>2, <2>3, <2>4, <2>5, CalmStep DEF Asleep
  <1>4. CASE TimerReturns
    <2>1. UNCHANGED <<semVars, timer_list, state, wait_state>>
      BY <1>4 DEF TimerReturns, timer_returns
    <2>2. CASE current \in Procs \ Threads
      <3>1. Goto("trap_exit") /\ pc[current] = "run"
        BY <1>4, <2>2, SchedAssumption
           DEF TimerReturns, timer_returns, SInv, Interrupted, InterruptsOn
      <3> QED
        BY <2>1, <2>2, <3>1, OwnPc, CalmStep DEF Asleep, InSleep
    <2>3. CASE current \notin Procs \ Threads
      BY <1>4, <2>1, <2>3, CalmStep DEF TimerReturns, Asleep, InSleep
    <2> QED
      BY <2>2, <2>3
  <1> QED
    BY <1>1, <1>2, <1>3, <1>4

(* down() that finds a unit, and try_down(). *)
LEMMA TakesUnit ==
  ASSUME SInv, NEW s \in Sems, sem_try_down(s) \/ (At("run") /\ down_takes(s) /\ Goto("critical"))
  PROVE  QueuedAsleep' /\ Timed'
  <1>1. current \in Procs /\ ~InSleep(current) /\ UNCHANGED <<state, wait_state, timer_list, wait_queue>>
    BY DEF sem_try_down, At, InSleep, down_takes, schedVars, semVars
  <1>2. \E to : Goto(to)
    BY DEF sem_try_down
  <1>3. \A p \in Procs : InSleep(p) => InSleep(p)'
    BY <1>1, <1>2, OwnPc
  <1>4. Timed'
    BY <1>1, <1>3, TimedSame
  <1>5. ASSUME NEW t \in Sems
        PROVE  value'[t] = value[t] \/ (value'[t] >= 0 /\ wait_queue[t] = <<>>)
    <2>1. CASE UNCHANGED semVars
      BY <2>1 DEF semVars
    <2>2. CASE down_takes(s)
      <3>1. value[s] > 0 /\ value[s] \in Int /\ wait_queue[s] = <<>>
        BY <2>2 DEF down_takes, HasUnit, SInv, QueuedAsleep, IInv, Typing
      <3>2. value'[s] = value[s] - 1 /\ (t # s => value'[t] = value[t])
        BY <2>2 DEF down_takes, SInv, IInv, Typing
      <3> QED
        BY <3>1, <3>2
    <2> QED
      BY <2>1, <2>2 DEF sem_try_down
  <1>6. QueuedAsleep'
    BY <1>1, <1>5, QueuedSame DEF Asleep
  <1> QED
    BY <1>4, <1>6

(* down() that finds none. *)
LEMMA WaitsInQueue ==
  ASSUME SInv, At("run"), NEW s \in Sems, down_waits(s), Goto("down")
  PROVE  QueuedAsleep' /\ Timed'
  <1>1. PICK c \in Procs : c = current
    BY DEF At
  <1>2. SchedTyped /\ Typing /\ pc[c] = "run" /\ c \in AllProcs
    BY <1>1, OnCPU DEF SInv
  <1>3. /\ state' = [state EXCEPT ![c] = "SLEEPING"]
        /\ wait_state' = [wait_state EXCEPT ![c] = "WT_KSEM"]
        /\ wait_queue' = [wait_queue EXCEPT ![s] = Append(@, c)]
        /\ UNCHANGED <<timer_list, value>> /\ ~(value[s] > 0)
    BY <1>1 DEF down_waits, fall_asleep, HasUnit
  <1>4. /\ wait_state'[c] = "WT_KSEM"
        /\ \A p \in Procs : p # c => state'[p] = state[p] /\ wait_state'[p] = wait_state[p]
    BY <1>2, <1>3 DEF SchedTyped, AllProcs
  <1>5. \A p \in Procs : InSleep(p) => InSleep(p)'
    BY <1>1, <1>2, OwnPc DEF InSleep
  <1>6. Timed'
    BY <1>3, <1>4, <1>5, TimedSame
  <1> DEFINE q == wait_queue[s]
             new == Append(q, c)
  <1>7. q \in Seq(Procs) /\ Len(q) \in Nat
    BY <1>2 DEF Typing
  <1>8. /\ Len(new) = Len(q) + 1 /\ new[Len(q) + 1] = c
        /\ \A k \in 1..Len(q) : new[k] = q[k]
    BY <1>7
  <1>9. /\ wait_queue'[s] = new
        /\ \A t \in Sems \ {s} : wait_queue'[t] = wait_queue[t]
    BY <1>2, <1>3 DEF Typing
  <1> HIDE DEF new
  <1>10. ASSUME NEW p \in Procs, Asleep(p)'
         PROVE  \E t \in Sems : \E k \in 1..Len(wait_queue'[t]) : wait_queue'[t][k] = p
    <2>1. CASE p = c
      <3>1. Len(q) + 1 \in 1..Len(wait_queue'[s])
        BY <1>7, <1>8, <1>9
      <3> QED
        BY <1>8, <1>9, <2>1, <3>1
    <2>2. CASE p # c
      <3>1. Asleep(p)
        BY <1>4, <1>10, <2>2 DEF Asleep
      <3>2. PICK t \in Sems : \E k \in 1..Len(wait_queue[t]) : wait_queue[t][k] = p
        BY <3>1 DEF SInv, QueuedAsleep
      <3>3. PICK k \in 1..Len(wait_queue[t]) : wait_queue[t][k] = p
        BY <3>2
      <3>4. CASE t = s
        <4>1. k \in 1..Len(wait_queue'[s]) /\ wait_queue'[s][k] = p
          BY <1>7, <1>8, <1>9, <3>3, <3>4
        <4> QED
          BY <4>1
      <3>5. CASE t # s
        BY <1>9, <3>3, <3>5
      <3> QED
        BY <3>4, <3>5
    <2> QED
      BY <2>1, <2>2
  <1>11. \A t \in Sems : value'[t] >= 0 /\ (value'[t] > 0 => wait_queue'[t] = <<>>)
    BY <1>3, <1>9 DEF SInv, QueuedAsleep
  <1>12. QueuedAsleep'
    BY <1>10, <1>11 DEF QueuedAsleep
  <1> QED
    BY <1>6, <1>12

LEMMA DownReturnsStep ==
  ASSUME SInv, sem_down_returns
  PROVE  QueuedAsleep' /\ Timed'
  <1>1. PICK c \in Procs : c = current
    BY DEF sem_down_returns, At
  <1>2. /\ Typing /\ pc[c] = "down_ret" /\ state[c] = "RUNNABLE"
    BY <1>1, OnCPU DEF sem_down_returns, SInv
  <1>3. UNCHANGED <<state, wait_state, timer_list, value>> /\ Goto("critical")
    BY DEF sem_down_returns, down_returns
  <1>4. sem[c] \in Sems /\ wakeup_flags[c] = "WT_KSEM"
    BY <1>2 DEF SInv, IInv, Located, Waiting, Place, InSleep, InDown
  <1>5. \A k \in 1..Len(wait_queue[sem[c]]) : wait_queue[sem[c]][k] # c
    BY <1>4 DEF SInv, IInv, Queued
  <1>6. UNCHANGED wait_queue
    BY <1>1, <1>5 DEF sem_down_returns, down_returns, QueueDel, Contains
  <1>7. \A p \in Procs : InSleep(p) => InSleep(p)'
    BY <1>1, <1>2, <1>3, OwnPc DEF InSleep
  <1> QED
    BY <1>3, <1>6, <1>7, QueuedSame, TimedSame DEF Asleep

(* up() with an empty queue. *)
LEMMA GivesUnit ==
  ASSUME SInv, sem_up, wait_queue[sem[current]] = <<>>
  PROVE  QueuedAsleep' /\ Timed'
  <1>1. PICK c \in Procs : c = current
    BY DEF sem_up, At
  <1>2. Typing /\ pc[c] = "critical"
    BY <1>1, OnCPU DEF sem_up, SInv
  <1>3. PICK s \in Sems : s = sem[c]
    BY <1>2 DEF SInv, IInv, Located, Place, InSleep
  <1>4. /\ value' = [value EXCEPT ![s] = @ + 1] /\ wait_queue[s] = <<>>
        /\ UNCHANGED <<state, wait_state, timer_list, wait_queue>>
    BY <1>1, <1>3 DEF sem_up, up, schedVars
  <1>5. \A p \in Procs : InSleep(p) => InSleep(p)'
    BY <1>1, <1>2, OwnPc DEF sem_up, InSleep
  <1>6. Timed'
    BY <1>4, <1>5, TimedSame
  <1>7. value[s] >= 0 /\ value[s] \in Int
    BY <1>2 DEF SInv, QueuedAsleep, Typing
  <1>8. value'[s] >= 0 /\ \A t \in Sems \ {s} : value'[t] = value[t]
    BY <1>2, <1>4, <1>7 DEF Typing
  <1>9. QueuedAsleep'
    BY <1>4, <1>8, QueuedSame DEF Asleep
  <1> QED
    BY <1>6, <1>9

(* up() that hands the unit over. *)
LEMMA HandsOver ==
  ASSUME SInv, sem_up, wait_queue[sem[current]] # <<>>
  PROVE  QueuedAsleep' /\ Timed'
  <1>1. PICK c \in Procs : c = current
    BY DEF sem_up, At
  <1>2. SchedTyped /\ Typing /\ pc[c] = "critical"
    BY <1>1, OnCPU DEF sem_up, SInv
  <1>3. PICK s \in Sems : s = sem[c]
    BY <1>2 DEF SInv, IInv, Located, Place, InSleep
  <1>4. PICK q \in Seq(Procs) : q = wait_queue[s]
    BY <1>2 DEF Typing
  <1>5. q # <<>> /\ Len(q) \in Nat /\ 1 \in 1..Len(q) /\ q[1] \in Procs
    <2>1. q # <<>>
      BY <1>1, <1>3, <1>4
    <2> QED
      BY <2>1, FirstEntry
  <1>6. PICK p \in Procs : p = q[1]
    BY <1>5
  <1>7. InDown(p) /\ wakeup_flags[p] = "WT_INTERRUPTED"
    BY <1>4, <1>5, <1>6 DEF SInv, IInv, Queued
  <1>8. wait_state[p] = "WT_KSEM"
    BY <1>7 DEF SInv, IInv, Waiting
  <1>9. /\ wakeup_proc(p)
        /\ wait_queue' = [wait_queue EXCEPT ![s] = RemoveAt(q, 1)]
        /\ UNCHANGED <<current, timer_list, value>>
    BY <1>1, <1>3, <1>4, <1>5, <1>6, <1>8 DEF sem_up, up, wait_queue_first
  <1>10. TimersTyped'
    BY <1>2, <1>9 DEF SchedTyped, TimersTyped
  <1>11. \A r \in Procs : /\ Asleep(r)' => Asleep(r) /\ r # p
                          /\ wait_state'[r] = "WT_TIMER" =>
                               wait_state[r] = "WT_TIMER" /\ state'[r] = state[r] /\ r # p
    BY <1>9, <1>10, Woken
  <1>12. \A r \in Procs : InSleep(r) => InSleep(r)'
    BY <1>1, <1>2, OwnPc DEF sem_up, InSleep
  <1>13. Timed'
    BY <1>9, <1>11, <1>12, TimedSame
  <1>14. /\ Len(RemoveAt(q, 1)) = Len(q) - 1
         /\ \A k \in 1..(Len(q) - 1) : RemoveAt(q, 1)[k] = q[k + 1]
    BY <1>5, RemoveAtEntries
  <1>15. /\ wait_queue'[s] = RemoveAt(q, 1)
         /\ \A t \in Sems \ {s} : wait_queue'[t] = wait_queue[t]
    BY <1>2, <1>9 DEF Typing
  <1>16. ASSUME NEW r \in Procs, Asleep(r)'
         PROVE  \E t \in Sems : \E k \in 1..Len(wait_queue'[t]) : wait_queue'[t][k] = r
    <2>1. Asleep(r) /\ r # p
      BY <1>11, <1>16
    <2>2. PICK t \in Sems : \E k \in 1..Len(wait_queue[t]) : wait_queue[t][k] = r
      BY <2>1 DEF SInv, QueuedAsleep
    <2>3. PICK k \in 1..Len(wait_queue[t]) : wait_queue[t][k] = r
      BY <2>2
    <2>4. CASE t = s
      <3>1. k # 1 /\ k \in 1..Len(q) /\ q[k] = r
        BY <1>4, <1>6, <2>1, <2>3, <2>4
      <3>2. k - 1 \in 1..(Len(q) - 1) /\ (k - 1) + 1 = k
        BY <1>5, <3>1
      <3>3. k - 1 \in 1..Len(wait_queue'[s]) /\ wait_queue'[s][k - 1] = r
        BY <1>14, <1>15, <3>1, <3>2
      <3> QED
        BY <3>3
    <2>5. CASE t # s
      BY <1>15, <2>3, <2>5
    <2> QED
      BY <2>4, <2>5
  <1>17. value[s] = 0
    BY <1>2, <1>4, <1>5 DEF SInv, QueuedAsleep, Typing
  <1>18. \A t \in Sems : value'[t] >= 0 /\ (value'[t] > 0 => wait_queue'[t] = <<>>)
    BY <1>9, <1>15, <1>17 DEF SInv, QueuedAsleep
  <1>19. QueuedAsleep'
    BY <1>16, <1>18 DEF QueuedAsleep
  <1> QED
    BY <1>13, <1>19
-----------------------------------------------------------------------------
LEMMA SleepsTimed ==
  ASSUME SInv, NEW n, do_sleep(n)
  PROVE  QueuedAsleep' /\ Timed'
  <1>1. PICK c \in Procs : c = current
    BY DEF do_sleep, At
  <1>2. SchedTyped /\ Typing /\ pc[c] \in {"run", "critical"} /\ c \in AllProcs
    BY <1>1, OnCPU DEF do_sleep, SInv
  <1>3. /\ state' = [state EXCEPT ![c] = "SLEEPING"]
        /\ wait_state' = [wait_state EXCEPT ![c] = "WT_TIMER"]
        /\ pc' = [pc EXCEPT ![c] = "sleep"]
        /\ add_timer(c, n) /\ UNCHANGED semVars
    BY <1>1 DEF do_sleep, fall_asleep, Goto
  <1>4. /\ state'[c] = "SLEEPING" /\ wait_state'[c] = "WT_TIMER" /\ pc'[c] = "sleep"
        /\ \A p \in Procs : p # c => /\ state'[p] = state[p] /\ wait_state'[p] = wait_state[p]
                                     /\ pc'[p] = pc[p]
    BY <1>2, <1>3 DEF SchedTyped, Typing, AllProcs
  <1>5. QueuedAsleep'
    BY <1>3, <1>4, QueuedSame DEF Asleep, semVars
  <1>6. TimersTyped /\ Len(timer_list) \in Nat
    BY <1>2, TimersLength DEF SchedTyped, TimersTyped
  <1>7. PICK at \in 1..(Len(timer_list) + 1) :
          /\ Len(timer_list') = Len(timer_list) + 1
          /\ \A k \in 1..(Len(timer_list) + 1) :
               timer_list'[k].proc = IF k < at THEN timer_list[k].proc
                                     ELSE IF k = at THEN c ELSE timer_list[k - 1].proc
    BY <1>3, <1>6, AddTimerEntries
  <1>8. \A k \in 1..Len(timer_list) :
          /\ timer_list[k].proc \in Procs /\ InSleep(timer_list[k].proc)
          /\ timer_list[k].proc # c
    BY <1>2, <1>6, TimerProc DEF SInv, Timed, InSleep, TimersTyped
  (* Where an entry of the new list was before. *)
  <1> DEFINE Old(k) == IF k < at THEN k ELSE k - 1
  <1>9. ASSUME NEW k \in 1..Len(timer_list'), k # at
        PROVE  Old(k) \in 1..Len(timer_list) /\ timer_list'[k].proc = timer_list[Old(k)].proc
    BY <1>6, <1>7, <1>9
  <1>10. timer_list'[at].proc = c
    BY <1>7
  <1>11. ASSUME NEW k \in 1..Len(timer_list') PROVE pc'[timer_list'[k].proc] \in {"sleep", "sleep_ret"}
    <2>1. CASE k = at
      BY <1>4, <1>10, <2>1
    <2>2. CASE k # at
      BY <1>4, <1>8, <1>9, <2>2 DEF InSleep
    <2> QED
      BY <2>1, <2>2
  <1>12. ASSUME NEW j \in 1..Len(timer_list'), NEW k \in 1..Len(timer_list'),
                timer_list'[j].proc = timer_list'[k].proc
         PROVE  j = k
    <2>1. CASE j = at \/ k = at
      BY <1>8, <1>9, <1>10, <1>12, <2>1
    <2>2. CASE j # at /\ k # at
      <3>1. Old(j) = Old(k)
        <4>1. PICK a \in 1..Len(timer_list) :
                a = Old(j) /\ timer_list[a].proc = timer_list'[j].proc
          BY <1>9, <2>2
        <4>2. PICK b \in 1..Len(timer_list) :
                b = Old(k) /\ timer_list[b].proc = timer_list'[k].proc
          BY <1>9, <2>2
        <4>3. a = b
          BY <1>12, <4>1, <4>2 DEF SInv, Timed
        <4> QED
          BY <4>1, <4>2, <4>3
      <3> QED
        BY <1>6, <1>7, <2>2, <3>1
    <2> QED
      BY <2>1, <2>2
  <1>13. ASSUME NEW p \in Procs, wait_state'[p] = "WT_TIMER"
         PROVE  state'[p] = "SLEEPING" /\ \E k \in 1..Len(timer_list') : timer_list'[k].proc = p
    <2>1. CASE p = c
      BY <1>4, <1>7, <1>10, <2>1
    <2>2. CASE p # c
      <3>1. state'[p] = "SLEEPING" /\ \E k \in 1..Len(timer_list) : timer_list[k].proc = p
        BY <1>4, <1>13, <2>2 DEF SInv, Timed
      <3>2. PICK k \in 1..Len(timer_list) : timer_list[k].proc = p
        BY <3>1
      <3>3. CASE k < at
        BY <1>6, <1>7, <3>1, <3>2, <3>3
      <3>4. CASE k >= at
        <4>1. k + 1 \in 1..(Len(timer_list) + 1) /\ ~(k + 1 < at) /\ k + 1 # at /\ (k + 1) - 1 = k
          BY <1>6, <1>7, <3>4
        <4> QED
          BY <1>7, <3>1, <3>2, <4>1
      <3> QED
        BY <1>7, <3>3, <3>4
    <2> QED
      BY <2>1, <2>2
  <1>14. Timed'
    BY <1>11, <1>12, <1>13 DEF Timed, InSleep
  <1> QED
    BY <1>5, <1>14

LEMMA SleepReturnsStep ==
  ASSUME SInv, sleep_returns
  PROVE  QueuedAsleep' /\ Timed'
  <1>1. PICK c \in Procs : c = current
    BY DEF sleep_returns, At
  <1>2. SchedTyped /\ Typing /\ state[c] = "RUNNABLE" /\ c \in AllProcs
    BY <1>1, OnCPU DEF sleep_returns, SInv
  <1>3. /\ del_timer(c) /\ UNCHANGED <<semVars, state, wait_state>>
        /\ pc' = [pc EXCEPT ![c] = ret[c]]
    BY <1>1 DEF sleep_returns, Goto
  <1>4. QueuedAsleep'
    BY <1>3, QueuedSame DEF Asleep, semVars
  <1>5. \A p \in Procs : p # c => pc'[p] = pc[p]
    BY <1>2, <1>3 DEF Typing, AllProcs
  <1>6. TimersTyped /\ Len(timer_list) \in Nat
    BY <1>2, TimersLength DEF SchedTyped, TimersTyped
  <1>7. \A k \in 1..Len(timer_list) : timer_list[k].proc \in Procs /\ InSleep(timer_list[k].proc)
    BY <1>6, TimerProc DEF SInv, Timed, TimersTyped
  <1>8. \A p \in Procs : wait_state[p] = "WT_TIMER" => p # c /\ state[p] = "SLEEPING"
    BY <1>2 DEF SInv, Timed
  <1>9. CASE UNCHANGED timer_list /\ \A k \in 1..Len(timer_list) : timer_list[k].proc # c
    <2>1. \A k \in 1..Len(timer_list') : pc'[timer_list'[k].proc] \in {"sleep", "sleep_ret"}
      BY <1>5, <1>7, <1>9 DEF InSleep
    <2>2. Timed'
      BY <1>3, <1>9, <2>1 DEF SInv, Timed, InSleep
    <2> QED
      BY <1>4, <2>2
  <1>10. ASSUME NEW i \in 1..Len(timer_list), timer_list[i].proc = c,
                Len(timer_list') = Len(timer_list) - 1,
                \A k \in 1..(Len(timer_list) - 1) :
                  timer_list'[k].proc = IF k < i THEN timer_list[k].proc ELSE timer_list[k + 1].proc
         PROVE  Timed'
    <2> DEFINE Old(k) == IF k < i THEN k ELSE k + 1
    <2>1. ASSUME NEW k \in 1..Len(timer_list')
          PROVE  \E a \in 1..Len(timer_list) :
                   a = Old(k) /\ a # i /\ timer_list'[k].proc = timer_list[a].proc
      BY <1>6, <1>10
    <2>2. \A a, b \in 1..Len(timer_list) : timer_list[a].proc = timer_list[b].proc => a = b
      BY DEF SInv, Timed
    <2>3. ASSUME NEW k \in 1..Len(timer_list')
          PROVE  pc'[timer_list'[k].proc] \in {"sleep", "sleep_ret"}
      <3>1. PICK a \in 1..Len(timer_list) : a # i /\ timer_list'[k].proc = timer_list[a].proc
        BY <2>1
      <3>2. timer_list[a].proc # c
        BY <1>10, <2>2, <3>1
      <3> QED
        BY <1>5, <1>7, <3>1, <3>2 DEF InSleep
    <2>4. ASSUME NEW j \in 1..Len(timer_list'), NEW k \in 1..Len(timer_list'),
                 timer_list'[j].proc = timer_list'[k].proc
          PROVE  j = k
      <3>1. PICK a \in 1..Len(timer_list) : a = Old(j) /\ timer_list'[j].proc = timer_list[a].proc
        BY <2>1
      <3>2. PICK b \in 1..Len(timer_list) : b = Old(k) /\ timer_list'[k].proc = timer_list[b].proc
        BY <2>1
      <3>3. a = b
        BY <2>2, <2>4, <3>1, <3>2
      <3> QED
        BY <1>6, <1>10, <3>1, <3>2, <3>3
    <2>5. ASSUME NEW p \in Procs, wait_state'[p] = "WT_TIMER"
          PROVE  state'[p] = "SLEEPING" /\ \E k \in 1..Len(timer_list') : timer_list'[k].proc = p
      <3>1. wait_state[p] = "WT_TIMER" /\ p # c /\ state'[p] = "SLEEPING"
        BY <1>3, <1>8, <2>5
      <3>2. PICK a \in 1..Len(timer_list) : timer_list[a].proc = p
        BY <3>1 DEF SInv, Timed
      <3>3. a # i
        BY <1>10, <3>1, <3>2
      <3>4. CASE a < i
        BY <1>6, <1>10, <3>1, <3>2, <3>4
      <3>5. CASE a > i
        <4>1. a - 1 \in 1..(Len(timer_list) - 1) /\ ~(a - 1 < i) /\ (a - 1) + 1 = a
          BY <1>6, <3>5
        <4> QED
          BY <1>10, <3>1, <3>2, <4>1
      <3> QED
        BY <3>3, <3>4, <3>5
    <2> QED
      BY <2>3, <2>4, <2>5 DEF Timed, InSleep
  <1> QED
    BY <1>3, <1>4, <1>6, <1>9, <1>10, DelTimerEntries

(* The timer interrupt takes a tick from the first timer. *)
LEMMA TickKeeps ==
  ASSUME SInv, TimerInterrupt
  PROVE  QueuedAsleep' /\ Timed'
  <1>1. TimersTyped /\ UNCHANGED <<semVars, state, wait_state, pc>>
    BY DEF SInv, IInv, Scheduling, SchedTyped, TimerInterrupt, run_timer_list, procVars
  <1>2. /\ Len(timer_list') = Len(timer_list)
        /\ \A k \in 1..Len(timer_list) : timer_list'[k].proc = timer_list[k].proc
    <2>1. CASE timer_list = <<>>
      BY <2>1 DEF TimerInterrupt, run_timer_list
    <2>2. CASE timer_list # <<>>
      <3>1. timer_list' = [timer_list EXCEPT ![1].expires = timer_list[1].expires - 1]
        BY <2>2 DEF TimerInterrupt, run_timer_list
      <3>2. 1 \in 1..Len(timer_list) /\ Timers(timer_list)
        BY <1>1, <2>2, TimersLength DEF TimersTyped
      <3>3. Len(timer_list') = Len(timer_list)
        BY <3>1, <3>2, SetExpires
      <3>4. \A k \in 1..Len(timer_list) : timer_list'[k].proc = timer_list[k].proc
        BY <3>1, <3>2, SetExpiresEntries
      <3> QED
        BY <3>3, <3>4
    <2> QED
      BY <2>1, <2>2
  <1> QED
    BY <1>1, <1>2, TimedSame, QueuedSame DEF Asleep, InSleep, semVars

(* The timer that has expired goes, and its process wakes. *)
LEMMA ExpiresWakes ==
  ASSUME SInv, TimerExpires
  PROVE  QueuedAsleep' /\ Timed'
  <1> DEFINE p == timer_list[1].proc
  <1>1. /\ SchedTyped /\ TimersTyped /\ timer_list # <<>>
        /\ timer_list' = Tail(timer_list)
        /\ UNCHANGED <<semVars, pc, current>>
    BY DEF SInv, IInv, Scheduling, SchedTyped, TimerExpires, timer_expires, Expired, procVars
  <1>2. /\ p \in Procs /\ TimersTyped' /\ Len(timer_list) \in Nat /\ 1 \in 1..Len(timer_list)
    BY <1>1, TimersLength DEF TimersTyped
  <1>3. /\ Len(timer_list') = Len(timer_list) - 1
        /\ \A k \in 1..(Len(timer_list) - 1) : timer_list'[k] = timer_list[k + 1]
    <2>1. PICK X : timer_list \in Seq([proc : Procs, expires : X])
      BY <1>1 DEF TimersTyped, Timers
    <2> QED
      BY <1>1, <2>1
  <1>4. \/ wait_state[p] \in Interruptible \cup {"0"} /\ wakeup_proc(p)
        \/ wait_state[p] \notin Interruptible /\ UNCHANGED <<state, wait_state>>
    BY DEF TimerExpires, timer_expires
  <1> HIDE DEF p
  <1>5. \A r \in Procs : /\ Asleep(r)' => Asleep(r)
                         /\ wait_state'[r] = "WT_TIMER" =>
                              wait_state[r] = "WT_TIMER" /\ state'[r] = state[r] /\ r # p
    <2>1. CASE wakeup_proc(p)
      BY <1>1, <1>2, <2>1, Woken
    <2>2. CASE wait_state[p] \notin Interruptible /\ UNCHANGED <<state, wait_state>>
      BY <2>2 DEF Interruptible, Asleep
    <2> QED
      BY <1>4, <2>1, <2>2
  <1>6. QueuedAsleep'
    BY <1>1, <1>5, QueuedSame DEF semVars
  <1>7. \A k \in 1..Len(timer_list') : InSleep(timer_list'[k].proc)
    <2>1. \A k \in 1..Len(timer_list') : k + 1 \in 1..Len(timer_list) /\ timer_list'[k] = timer_list[k + 1]
      BY <1>2, <1>3
    <2> QED
      BY <2>1 DEF SInv, Timed
  <1>8. ASSUME NEW j \in 1..Len(timer_list'), NEW k \in 1..Len(timer_list'),
               timer_list'[j].proc = timer_list'[k].proc
        PROVE  j = k
    <2>1. PICK a \in 1..Len(timer_list) : a = j + 1 /\ timer_list'[j] = timer_list[a]
      BY <1>2, <1>3
    <2>2. PICK b \in 1..Len(timer_list) : b = k + 1 /\ timer_list'[k] = timer_list[b]
      BY <1>2, <1>3
    <2>3. a = b
      BY <1>8, <2>1, <2>2 DEF SInv, Timed
    <2> QED
      BY <2>1, <2>2, <2>3
  <1>9. ASSUME NEW r \in Procs, wait_state'[r] = "WT_TIMER"
        PROVE  state'[r] = "SLEEPING" /\ \E k \in 1..Len(timer_list') : timer_list'[k].proc = r
    <2>1. wait_state[r] = "WT_TIMER" /\ state'[r] = state[r] /\ r # p
      BY <1>5, <1>9
    <2>2. state[r] = "SLEEPING" /\ \E k \in 1..Len(timer_list) : timer_list[k].proc = r
      BY <2>1 DEF SInv, Timed
    <2>3. PICK a \in 1..Len(timer_list) : timer_list[a].proc = r
      BY <2>2
    <2>4. a # 1
      BY <2>1, <2>3 DEF p
    <2>5. a - 1 \in 1..(Len(timer_list) - 1) /\ (a - 1) + 1 = a
      BY <1>2, <2>4
    <2> QED
      BY <1>3, <2>1, <2>2, <2>3, <2>5
  <1>10. Timed'
    BY <1>1, <1>7, <1>8, <1>9 DEF Timed, InSleep
  <1> QED
    BY <1>6, <1>10

LEMMA KillWakesOne ==
  ASSUME SInv, NEW q \in Procs, sys_kill(q)
  PROVE  QueuedAsleep' /\ Timed'
  <1>1. /\ current \in Procs /\ ~InSleep(current) /\ Goto("trap_exit")
        /\ UNCHANGED <<semVars, timer_list, current>>
    BY DEF sys_kill, At, InSleep, schedVars
  <1>2. \A p \in Procs : InSleep(p) => InSleep(p)'
    BY <1>1, OwnPc
  <1>3. CASE wakeup_proc(q)
    <2>1. TimersTyped'
      BY <1>1 DEF SInv, IInv, Scheduling, SchedTyped, TimersTyped
    <2>2. \A p \in Procs : /\ Asleep(p)' => Asleep(p)
                           /\ wait_state'[p] = "WT_TIMER" =>
                                wait_state[p] = "WT_TIMER" /\ state'[p] = state[p]
      BY <1>1, <1>3, <2>1, Woken
    <2> QED
      BY <1>1, <1>2, <2>2, CalmStep
  <1>4. CASE UNCHANGED schedVars
    BY <1>1, <1>2, <1>4, CalmStep DEF Asleep, schedVars
  <1> QED
    BY <1>3, <1>4 DEF sys_kill
-----------------------------------------------------------------------------
(* Timer interrupts, kills and exits between the falling asleep of a       *)
(* process and its call of schedule() leave it where it can be woken.      *)
THEOREM SleepInductive == SInv /\ [Next]_vars => SInv'
  <1> SUFFICES ASSUME SInv, [Next]_vars PROVE QueuedAsleep' /\ Timed'
    BY Inductive DEF SInv
  <1>1. CASE Kernel \/ do_exit
    BY <1>1, CalmSteps, DownReturnsStep, SleepReturnsStep DEF Kernel
  <1>2. CASE sem_up
    BY <1>2, GivesUnit, HandsOver
  <1>3. CASE TimerInterrupt
    BY <1>3, TickKeeps
  <1>4. CASE Handler
    BY <1>4, ExpiresWakes, CalmSteps DEF Handler
  <1>5. ASSUME NEW s \in Sems, sem_down(s) \/ sem_try_down(s) PROVE QueuedAsleep' /\ Timed'
    BY <1>5, TakesUnit, WaitsInQueue DEF sem_down
  <1>6. ASSUME NEW n, do_sleep(n) PROVE QueuedAsleep' /\ Timed'
    BY <1>6, SleepsTimed
  <1>7. ASSUME NEW q \in Procs, sys_kill(q) PROVE QueuedAsleep' /\ Timed'
    BY <1>7, KillWakesOne
  <1>8. CASE UNCHANGED vars
    BY <1>8, CalmSteps
  <1> QED
    BY <1>1, <1>2, <1>3, <1>4, <1>5, <1>6, <1>7, <1>8 DEF Next

LEMMA SleepInit == Init => SInv
  <1> SUFFICES ASSUME Init PROVE QueuedAsleep /\ Timed
    BY IInvInit DEF SInv
  <1>1. PICK ready \in [1..Cardinality(Procs) -> Procs] : SchedInit(ready)
    BY DEF Init
  <1>2. /\ state = [p \in AllProcs |-> "RUNNABLE"] /\ wait_state = [p \in AllProcs |-> "0"]
        /\ timer_list = <<>>
    BY <1>1 DEF SchedInit
  <1>3. value = [s \in Sems |-> MAX_VALUE] /\ wait_queue = [s \in Sems |-> <<>>]
    BY DEF Init, SemInit
  <1>4. QueuedAsleep
    BY <1>2, <1>3, SyncAssumption DEF QueuedAsleep, Asleep, AllProcs
  <1>5. Timed
    BY <1>2 DEF Timed, AllProcs
  <1> QED
    BY <1>4, <1>5

THEOREM SleepInvariance == Spec => []SInv
  BY SleepInit, SleepInductive, PTL DEF Spec

(* A process asleep in do_sleep has exactly one timer, and there are no    *)
(* timers of others: add_timer, del_timer, the interrupt and the kills     *)
(* keep list and sleepers together.                                        *)
THEOREM TimersAlwaysOK == Spec => []TimersOK
  <1>1. SInv => TimersOK
    <2> SUFFICES ASSUME SInv PROVE TimersOK
      OBVIOUS
    <2>1. \A k \in 1..Len(timer_list) : pc[timer_list[k].proc] \in {"sleep", "sleep_ret"}
      BY DEF SInv, Timed, InSleep
    <2>2. ASSUME NEW p \in Procs, wait_state[p] = "WT_TIMER"
          PROVE  Cardinality({k \in 1..Len(timer_list) : timer_list[k].proc = p}) = 1
      <3>1. PICK k \in 1..Len(timer_list) : timer_list[k].proc = p
        BY <2>2 DEF SInv, Timed
      <3>2. {j \in 1..Len(timer_list) : timer_list[j].proc = p} = {k}
        BY <3>1 DEF SInv, Timed
      <3> QED
        BY <3>2, FS_Singleton
    <2> QED
      BY <2>1, <2>2 DEF TimersOK
  <1> QED
    BY <1>1, SleepInvariance, PTL

(* A queue has each process at most once, so it is no longer than there    *)
(* are processes.                                                          *)
LEMMA QueueLength ==
  ASSUME SInv, NEW s \in Sems
  PROVE  Len(wait_queue[s]) \in Nat /\ Len(wait_queue[s]) <= Cardinality(Procs)
  <1>1. PICK q \in Seq(Procs) : q = wait_queue[s]
    BY DEF SInv, IInv, Typing
  <1>2. PICK n \in Nat : n = Len(q)
    BY <1>1
  <1>3. \A j, k \in 1..n : q[j] = q[k] => j = k
    BY <1>1, <1>2 DEF SInv, IInv, Queued
  <1>4. q \in [1..n -> Procs]
    BY <1>1, <1>2
  <1>5. q \in Injection(1..n, Procs)
    BY <1>3, <1>4 DEF Injection, IsInjective
  <1>6. Cardinality(1..n) <= Cardinality(Procs)
    BY <1>5, FS_Injection, SyncAssumption
  <1>7. Cardinality(1..n) = n
    <2>1. 1 \in Int /\ n \in Int
      BY <1>2
    <2>2. Cardinality(1..n) = IF 1 > n THEN 0 ELSE n - 1 + 1
      BY <2>1, FS_Interval, Zenon
    <2>3. PICK c : c = Cardinality(1..n)
      OBVIOUS
    <2>4. c = IF 1 > n THEN 0 ELSE n - 1 + 1
      BY <2>2, <2>3, Zenon
    <2>5. c = n
      BY <1>2, <2>4
    <2> QED
      BY <2>3, <2>5
  <1> QED
    BY <1>1, <1>2, <1>6, <1>7

(* A process sleeps on a semaphore exactly while it is in one wait queue,  *)
(* once, and nobody waits for a semaphore that has a unit: no wake-up is   *)
(* lost between down(), up(), the interrupts and the kills.                *)
THEOREM WaitQueuesAlwaysOK == Spec => []WaitQueuesOK
  <1>1. SInv => WaitQueuesOK
    <2> SUFFICES ASSUME SInv PROVE WaitQueuesOK
      OBVIOUS
    <2> DEFINE E(p) == {e \in Sems \X (1..Cardinality(Procs)) :
                          e[2] <= Len(wait_queue[e[1]]) /\ wait_queue[e[1]][e[2]] = p}
    <2>1. ASSUME NEW p \in Procs, ~Asleep(p) PROVE Cardinality(E(p)) = 0
      <3>1. \A s \in Sems : \A k \in 1..Len(wait_queue[s]) : wait_queue[s][k] # p
        BY <2>1 DEF SInv, IInv, Queued, Waiting, Asleep
      <3>2. \A s \in Sems : \A k \in 1..Cardinality(Procs) :
              k <= Len(wait_queue[s]) => k \in 1..Len(wait_queue[s])
        BY QueueLength
      <3>3. E(p) = {}
        BY <3>1, <3>2
      <3> QED
        BY <3>3, FS_EmptySet
    <2>2. ASSUME NEW p \in Procs, Asleep(p) PROVE Cardinality(E(p)) = 1
      <3>1. PICK s \in Sems : \E k \in 1..Len(wait_queue[s]) : wait_queue[s][k] = p
        BY <2>2 DEF SInv, QueuedAsleep
      <3>2. PICK k \in 1..Len(wait_queue[s]) : wait_queue[s][k] = p
        BY <3>1
      <3>3. /\ k \in 1..Cardinality(Procs) /\ k <= Len(wait_queue[s])
        <4>1. Len(wait_queue[s]) \in Nat /\ Len(wait_queue[s]) <= Cardinality(Procs)
          BY QueueLength
        <4>2. Cardinality(Procs) \in Nat
          BY FS_CardinalityType, SyncAssumption
        <4> QED
          BY <4>1, <4>2
      <3>4. ASSUME NEW t \in Sems, NEW m \in 1..Cardinality(Procs),
                   m <= Len(wait_queue[t]), wait_queue[t][m] = p
            PROVE  t = s /\ m = k
        <4>1. m \in 1..Len(wait_queue[t])
          BY <3>4, QueueLength
        <4>2. Queued
          BY DEF SInv, IInv
        <4>3. sem[p] = t
          <5>1. sem[wait_queue[t][m]] = t
            BY <4>1, <4>2 DEF Queued
          <5> QED
            BY <3>4, <5>1, Zenon
        <4>4. sem[p] = s
          <5>1. sem[wait_queue[s][k]] = s
            BY <4>2 DEF Queued
          <5> QED
            BY <3>2, <5>1, Zenon
        <4>5. t = s
          BY <4>3, <4>4
        <4>6. \A i, j \in 1..Len(wait_queue[s]) :
                wait_queue[s][i] = wait_queue[s][j] => i = j
          BY <4>2 DEF Queued
        <4> QED
          BY <3>2, <3>4, <4>1, <4>5, <4>6
      <3>5. E(p) = {<<s, k>>}
        <4>1. <<s, k>> \in E(p)
          BY <3>2, <3>3
        <4>2. \A e \in E(p) : e = <<s, k>>
          BY <3>4
        <4> QED
          BY <4>1, <4>2
      <3> QED
        BY <3>5, FS_Singleton
    <2>3. \A s \in Sems : value[s] >= 0 /\ (value[s] > 0 => wait_queue[s] = <<>>)
      BY DEF SInv, QueuedAsleep
    <2> QED
      BY <2>1, <2>2, <2>3 DEF WaitQueuesOK, Asleep
  <1> QED
    BY <1>1, SleepInvariance, PTL
-----------------------------------------------------------------------------
Due(t, d) ==
  /\ d \in [0..Len(t) -> Nat] /\ d[0] = 0
  /\ \A j, k \in 0..Len(t) : j <= k => d[j] <= d[k]
  /\ \A k \in 1..Len(t) : t[k].expires = d[k] - d[k - 1]

(* Alarm(p) for the timer list t. *)
Ticks(t, p) ==
  LET due[k \in 0..Len(t)] ==
        IF k = 0 THEN 0 ELSE due[k - 1] + t[k].expires
      own == {k \in 1..Len(t) : t[k].proc = p}
  IN  IF own = {} THEN 0 ELSE due[CHOOSE k \in own : TRUE]

LEMMA AlarmTicks ==
  \A p : Alarm(p) = Ticks(timer_list, p)
  BY DEF Alarm, Ticks

LEMMA AlarmTicksNext ==
  \A p : Alarm(p)' = Ticks(timer_list', p)
  BY DEF Alarm, Ticks

(* Induction up to n. *)
LEMMA UpTo ==
  ASSUME NEW n \in Nat, NEW S, 0 \in S, \A k \in 1..n : k - 1 \in S => k \in S
  PROVE  \A k \in 0..n : k \in S
  <1> DEFINE D == {k \in 0..n : k \notin S}
  <1>1. SUFFICES ASSUME D # {} PROVE FALSE
    OBVIOUS
  <1>2. PICK k \in D : \A j \in D : k <= j
    <2>1. D \subseteq Nat
      OBVIOUS
    <2> QED
      BY <1>1, <2>1, LeastNumber
  <1>3. k \in 1..n /\ k - 1 \in 0..n /\ k - 1 \notin D
    BY <1>2
  <1> QED
    BY <1>2, <1>3

LEMMA TicksAre ==
  ASSUME NEW t, Len(t) \in Nat, NEW d, Due(t, d), NEW p
  PROVE  /\ (\A k \in 1..Len(t) : t[k].proc # p) => Ticks(t, p) = 0
         /\ \A k \in 1..Len(t) :
              /\ t[k].proc = p
              /\ \A j \in 1..Len(t) : t[j].proc = p => j = k
              => Ticks(t, p) = d[k]
  <1> DEFINE n == Len(t)
             F(g) == [k \in 0..n |-> IF k = 0 THEN 0 ELSE g[k - 1] + t[k].expires]
             due == CHOOSE g : g = F(g)
             own == {k \in 1..n : t[k].proc = p}
  <1>1. Ticks(t, p) = IF own = {} THEN 0 ELSE due[CHOOSE k \in own : TRUE]
    BY DEF Ticks
  <1>2. d = F(d)
    <2>1. \A k \in 1..n : d[k] = d[k - 1] + t[k].expires
      BY DEF Due
    <2>2. d = [k \in 0..n |-> d[k]]
      BY DEF Due
    <2>3. \A k \in 0..n : d[k] = IF k = 0 THEN 0 ELSE d[k - 1] + t[k].expires
      BY <2>1 DEF Due
    <2> QED
      BY <2>2, <2>3
  <1>3. due = F(due)
    <2> HIDE DEF F
    <2> QED
      BY <1>2
  <1>4. \A k \in 0..n : due[k] = d[k]
    <2> HIDE DEF due
    <2> DEFINE S == {k \in 0..n : due[k] = d[k]}
    <2>1. 0 \in S
      BY <1>2, <1>3
    <2>2. \A k \in 1..n : k - 1 \in S => k \in S
      BY <1>2, <1>3
    <2> HIDE DEF S
    <2>3. \A k \in 0..n : k \in S
      BY <2>1, <2>2, UpTo
    <2> QED
      BY <2>3 DEF S
  <1> HIDE DEF due
  <1>5. ASSUME NEW k \in 1..n, t[k].proc = p, \A j \in 1..n : t[j].proc = p => j = k
        PROVE  Ticks(t, p) = d[k]
    <2>1. own = {k}
      BY <1>5
    <2> QED
      BY <1>1, <1>4, <2>1
  <1> QED
    BY <1>1, <1>5
-----------------------------------------------------------------------------
(* What is left of n behind the first k - 1 timers. *)
LEMMA LeftIs ==
  ASSUME Len(timer_list) \in Nat, NEW d, Due(timer_list, d), NEW n \in Nat
  PROVE  \A k \in 1..(Len(timer_list) + 1) : Left(n)[k] = n - d[k - 1]
  <1>0. PICK len \in Nat : len = Len(timer_list)
    OBVIOUS
  <1> DEFINE F(g) == [k \in 1..(len + 1) |->
                        IF k = 1 THEN n ELSE g[k - 1] - timer_list[k - 1].expires]
             left == CHOOSE g : g = F(g)
             r == [k \in 1..(len + 1) |-> n - d[k - 1]]
  <1>1. Left(n) = left
    BY <1>0 DEF Left
  <1>2. r = F(r)
    <2>1. ASSUME NEW k \in 1..(len + 1)
          PROVE  n - d[k - 1] = IF k = 1 THEN n ELSE r[k - 1] - timer_list[k - 1].expires
      <3>1. CASE k = 1
        BY <1>0, <3>1 DEF Due
      <3>2. CASE k # 1
        <4>1. k - 1 \in 1..(len + 1) /\ k - 1 \in 1..len /\ (k - 1) - 1 \in 0..len /\ k - 1 \in 0..len
          BY <3>2
        <4>2. r[k - 1] = n - d[(k - 1) - 1]
          BY <4>1
        <4>3. timer_list[k - 1].expires = d[k - 1] - d[(k - 1) - 1]
          BY <1>0, <4>1 DEF Due
        <4>4. d[k - 1] \in Nat /\ d[(k - 1) - 1] \in Nat
          BY <1>0, <4>1 DEF Due
        <4> QED
          BY <3>2, <4>2, <4>3, <4>4
      <3> QED
        BY <3>1, <3>2
    <2> QED
      BY <2>1
  <1>3. left = F(left)
    <2> HIDE DEF F, r
    <2> QED
      BY <1>2
  <1>4. \A k \in 0..len : left[k + 1] = r[k + 1]
    <2> HIDE DEF left, r
    <2>1. PICK S : S = {k \in 0..len : left[k + 1] = r[k + 1]}
      OBVIOUS
    <2>2. 0 \in S
      BY <1>2, <1>3, <2>1
    <2>3. ASSUME NEW k \in 1..len, k - 1 \in S PROVE k \in S
      <3>1. left[k] = r[k]
        BY <2>1, <2>3
      <3>2. left[k + 1] = left[k] - timer_list[k].expires
        BY <1>3
      <3>3. r[k + 1] = r[k] - timer_list[k].expires
        BY <1>2
      <3> QED
        BY <2>1, <3>1, <3>2, <3>3
    <2>4. \A k \in 0..len : k \in S
      BY <2>2, <2>3, UpTo
    <2> QED
      BY <2>1, <2>4
  <1> HIDE DEF left
  <1> QED
    <2> SUFFICES ASSUME NEW k \in 1..(len + 1) PROVE Left(n)[k] = n - d[k - 1]
      BY <1>0
    <2>1. k - 1 \in 0..len /\ (k - 1) + 1 = k
      OBVIOUS
    <2> QED
      BY <1>1, <1>4, <2>1

(* In the list that add_timer leaves, p and its expiry n come in at at. *)
InsertedDue(d, e, at, p, n) ==
  /\ Due(timer_list', e) /\ Len(timer_list') = Len(timer_list) + 1
  /\ \A k \in 1..(Len(timer_list) + 1) :
       /\ timer_list'[k].proc = IF k < at THEN timer_list[k].proc
                                ELSE IF k = at THEN p ELSE timer_list[k - 1].proc
       /\ e[k] = IF k < at THEN d[k] ELSE IF k = at THEN n ELSE d[k - 1]

(* add_timer puts n behind what is due by then and shifts nothing. *)
LEMMA InsertDue ==
  ASSUME TimersTyped, NEW p \in Procs, NEW n \in Nat \ {0}, add_timer(p, n),
         NEW d, Due(timer_list, d)
  PROVE  \E at \in 1..(Len(timer_list) + 1) : \E e : InsertedDue(d, e, at, p, n)
  <1>1. PICK len \in Nat : len = Len(timer_list)
    BY TimersLength DEF TimersTyped
  <1>2. PICK at \in 1..(len + 1) :
           /\ Stops(n, at) /\ \A j \in 1..(at - 1) : ~Stops(n, j)
           /\ Len(timer_list') = len + 1
           /\ \A k \in 1..(len + 1) :
                /\ timer_list'[k].proc = IF k < at THEN timer_list[k].proc
                                         ELSE IF k = at THEN p ELSE timer_list[k - 1].proc
                /\ timer_list'[k].expires =
                     IF k < at THEN timer_list[k].expires
                     ELSE IF k = at THEN Left(n)[at]
                     ELSE IF k = at + 1 THEN timer_list[k - 1].expires - Left(n)[at]
                     ELSE timer_list[k - 1].expires
    BY <1>1, AddTimerEntries
  <1> DEFINE e == [k \in 0..(len + 1) |->
                     IF k < at THEN d[k] ELSE IF k = at THEN n ELSE d[k - 1]]
  <1>3. /\ \A k \in 0..len : d[k] \in Nat
        /\ \A j, k \in 0..len : j <= k => d[j] <= d[k]
        /\ \A k \in 1..len : timer_list[k].expires = d[k] - d[k - 1]
        /\ d[0] = 0
    BY <1>1 DEF Due
  <1>4. \A k \in 1..(len + 1) : Left(n)[k] = n - d[k - 1]
    BY <1>1, LeftIs
  <1>5. d[at - 1] <= n
    <2>1. CASE at = 1
      BY <1>3, <2>1
    <2>2. CASE at # 1
      <3>1. PICK j \in 1..len : j = at - 1
        BY <2>2
      <3>2. ~(Left(n)[j] < timer_list[j].expires)
        BY <1>2, <3>1 DEF Stops
      <3>3. ~(n - d[j - 1] < d[j] - d[j - 1]) /\ d[j] \in Nat /\ d[j - 1] \in Nat
        BY <1>3, <1>4, <3>2
      <3> QED
        BY <3>1, <3>3
    <2> QED
      BY <2>1, <2>2
  <1>6. at <= len => n < d[at]
    <2> SUFFICES ASSUME at <= len PROVE n < d[at]
      OBVIOUS
    <2>1. Left(n)[at] < timer_list[at].expires
      BY <1>1, <1>2 DEF Stops
    <2>2. n - d[at - 1] < d[at] - d[at - 1] /\ d[at] \in Nat /\ d[at - 1] \in Nat
      BY <1>3, <1>4, <2>1
    <2> QED
      BY <2>2
  <1>7. e \in [0..(len + 1) -> Nat] /\ e[0] = 0
    <2>1. ASSUME NEW k \in 0..(len + 1) PROVE e[k] \in Nat
      <3>1. k < at => k \in 0..len
        OBVIOUS
      <3>2. k > at => k - 1 \in 0..len
        OBVIOUS
      <3> QED
        BY <1>3, <3>1, <3>2
    <2> QED
      BY <1>3, <2>1
  <1>8. ASSUME NEW j \in 0..(len + 1), NEW k \in 0..(len + 1), j <= k PROVE e[j] <= e[k]
    <2>1. CASE k < at
      BY <1>3, <1>8, <2>1
    <2>2. CASE k = at
      <3>1. CASE j = at
        BY <2>2, <3>1
      <3>2. CASE j < at
        <4>1. d[j] <= d[at - 1] /\ d[j] \in Nat /\ d[at - 1] \in Nat
          BY <1>3, <3>2
        <4> QED
          BY <1>5, <2>2, <3>2, <4>1
      <3> QED
        BY <1>8, <2>2, <3>1, <3>2
    <2>3. CASE k > at
      <3>1. n < d[at] /\ d[at] <= d[k - 1] /\ d[at] \in Nat /\ d[k - 1] \in Nat
        BY <1>3, <1>6, <2>3
      <3>2. CASE j < at
        <4>1. d[j] <= d[k - 1]
          BY <1>3, <2>3, <3>2
        <4> QED
          BY <2>3, <3>2, <4>1
      <3>3. CASE j = at
        BY <2>3, <3>1, <3>3
      <3>4. CASE j > at
        <4>1. d[j - 1] <= d[k - 1]
          BY <1>3, <1>8, <2>3, <3>4
        <4> QED
          BY <2>3, <3>4, <4>1
      <3> QED
        BY <3>2, <3>3, <3>4
    <2> QED
      BY <2>1, <2>2, <2>3
  <1>9. ASSUME NEW k \in 1..(len + 1) PROVE timer_list'[k].expires = e[k] - e[k - 1]
    <2>1. CASE k < at
      <3>1. k \in 1..len /\ k - 1 < at
        BY <2>1
      <3>2. e[k] = d[k] /\ e[k - 1] = d[k - 1]
        BY <2>1, <3>1
      <3>3. timer_list'[k].expires = timer_list[k].expires
        BY <1>2, <2>1
      <3> QED
        BY <1>3, <3>1, <3>2, <3>3
    <2>2. CASE k = at
      <3>1. e[k] = n /\ e[k - 1] = d[k - 1] /\ timer_list'[k].expires = Left(n)[at]
        BY <1>2, <2>2
      <3> QED
        BY <1>4, <2>2, <3>1
    <2>3. CASE k = at + 1
      <3>1. /\ e[k] = d[at] /\ e[k - 1] = n /\ at \in 1..len
            /\ timer_list'[k].expires = timer_list[at].expires - Left(n)[at]
        BY <1>2, <2>3
      <3>2. timer_list[at].expires = d[at] - d[at - 1] /\ d[at] \in Nat /\ d[at - 1] \in Nat
        BY <1>3, <3>1
      <3>3. Left(n)[at] = n - d[at - 1]
        BY <1>4
      <3> QED
        BY <3>1, <3>2, <3>3
    <2>4. CASE k > at + 1
      <3>1. PICK i \in 1..len : i = k - 1
        BY <2>4
      <3>2. e[k] = d[i] /\ e[k - 1] = d[i - 1] /\ timer_list'[k].expires = timer_list[i].expires
        BY <1>2, <2>4, <3>1
      <3> QED
        BY <1>3, <3>2
    <2> QED
      BY <2>1, <2>2, <2>3, <2>4
  <1>10. Due(timer_list', e)
    BY <1>2, <1>7, <1>8, <1>9 DEF Due
  <1>11. \A k \in 1..(len + 1) : e[k] = IF k < at THEN d[k] ELSE IF k = at THEN n ELSE d[k - 1]
    OBVIOUS
  <1> HIDE DEF e
  <1> QED
    BY <1>1, <1>2, <1>10, <1>11 DEF InsertedDue

(* del_timer takes one timer out and the others stay due when they were. *)
LEMMA RemoveDue ==
  ASSUME TimersTyped, NEW p, del_timer(p), NEW d, Due(timer_list, d)
  PROVE  \/ UNCHANGED timer_list /\ \A k \in 1..Len(timer_list) : timer_list[k].proc # p
         \/ \E i \in 1..Len(timer_list) : \E e :
              /\ timer_list[i].proc = p
              /\ Due(timer_list', e) /\ Len(timer_list') = Len(timer_list) - 1
              /\ \A k \in 1..(Len(timer_list) - 1) :
                   /\ timer_list'[k].proc = IF k < i THEN timer_list[k].proc
                                            ELSE timer_list[k + 1].proc
                   /\ e[k] = IF k < i THEN d[k] ELSE d[k + 1]
  <1>1. PICK len \in Nat : len = Len(timer_list)
    BY TimersLength DEF TimersTyped
  <1>2. /\ \A k \in 0..len : d[k] \in Nat
        /\ \A j, k \in 0..len : j <= k => d[j] <= d[k]
        /\ \A k \in 1..len : timer_list[k].expires = d[k] - d[k - 1]
        /\ d[0] = 0
    BY <1>1 DEF Due
  <1>3. ASSUME NEW i \in 1..len, timer_list[i].proc = p, Len(timer_list') = len - 1,
               \A k \in 1..(len - 1) :
                 /\ timer_list'[k].proc = IF k < i THEN timer_list[k].proc
                                          ELSE timer_list[k + 1].proc
                 /\ timer_list'[k].expires =
                      IF k < i THEN timer_list[k].expires
                      ELSE IF k = i THEN timer_list[k + 1].expires + timer_list[i].expires
                      ELSE timer_list[k + 1].expires
        PROVE  \E e :
                 /\ Due(timer_list', e)
                 /\ \A k \in 1..(len - 1) : e[k] = IF k < i THEN d[k] ELSE d[k + 1]
    <2> DEFINE e == [k \in 0..(len - 1) |-> IF k < i THEN d[k] ELSE d[k + 1]]
    <2>1. e \in [0..(len - 1) -> Nat] /\ e[0] = 0
      <3>1. \A k \in 0..(len - 1) : k \in 0..len /\ k + 1 \in 0..len
        OBVIOUS
      <3>2. 0 \in 0..(len - 1) /\ 0 < i
        OBVIOUS
      <3> QED
        BY <1>2, <3>1, <3>2
    <2>2. ASSUME NEW j \in 0..(len - 1), NEW k \in 0..(len - 1), j <= k PROVE e[j] <= e[k]
      <3>1. CASE k < i
        BY <1>2, <2>2, <3>1
      <3>2. CASE k >= i /\ j < i
        <4>1. d[j] <= d[k + 1]
          BY <1>2, <2>2
        <4> QED
          BY <3>2, <4>1
      <3>3. CASE j >= i
        <4>1. d[j + 1] <= d[k + 1] /\ k >= i
          BY <1>2, <2>2, <3>3
        <4> QED
          BY <3>3, <4>1
      <3> QED
        BY <3>1, <3>2, <3>3
    <2>3. ASSUME NEW k \in 1..(len - 1) PROVE timer_list'[k].expires = e[k] - e[k - 1]
      <3>1. CASE k < i
        <4>1. e[k] = d[k] /\ e[k - 1] = d[k - 1]
          BY <3>1
        <4> QED
          BY <1>2, <1>3, <3>1, <4>1
      <3>2. CASE k = i
        <4>1. e[k] = d[k + 1] /\ e[k - 1] = d[k - 1]
          BY <3>2
        <4>2. timer_list'[k].expires = timer_list[k + 1].expires + timer_list[k].expires
          BY <1>3, <3>2
        <4>3. /\ timer_list[k + 1].expires = d[k + 1] - d[k]
              /\ timer_list[k].expires = d[k] - d[k - 1]
              /\ d[k + 1] \in Nat /\ d[k] \in Nat /\ d[k - 1] \in Nat
          <5>1. k + 1 \in 1..len /\ k \in 1..len /\ k - 1 \in 0..len /\ (k + 1) - 1 = k
            OBVIOUS
          <5> QED
            BY <1>2, <5>1
        <4> QED
          BY <4>1, <4>2, <4>3
      <3>3. CASE k > i
        <4>1. e[k] = d[k + 1] /\ e[k - 1] = d[k]
          BY <3>3
        <4>2. timer_list'[k].expires = timer_list[k + 1].expires
          BY <1>3, <3>3
        <4>3. k + 1 \in 1..len /\ (k + 1) - 1 = k
          OBVIOUS
        <4> QED
          BY <1>2, <4>1, <4>2, <4>3
      <3> QED
        BY <3>1, <3>2, <3>3
    <2>4. Due(timer_list', e)
      BY <1>3, <2>1, <2>2, <2>3 DEF Due
    <2>5. \A k \in 1..(len - 1) : e[k] = IF k < i THEN d[k] ELSE d[k + 1]
      OBVIOUS
    <2> HIDE DEF e
    <2> QED
      BY <2>4, <2>5
  <1>4. CASE UNCHANGED timer_list /\ \A k \in 1..Len(timer_list) : timer_list[k].proc # p
    BY <1>4
  <1>5. ASSUME NEW i \in 1..len, timer_list[i].proc = p, Len(timer_list') = len - 1,
               \A k \in 1..(len - 1) :
                 /\ timer_list'[k].proc = IF k < i THEN timer_list[k].proc
                                          ELSE timer_list[k + 1].proc
                 /\ timer_list'[k].expires =
                      IF k < i THEN timer_list[k].expires
                      ELSE IF k = i THEN timer_list[k + 1].expires + timer_list[i].expires
                      ELSE timer_list[k + 1].expires
        PROVE  \E j \in 1..Len(timer_list) : \E e :
              /\ timer_list[j].proc = p
              /\ Due(timer_list', e) /\ Len(timer_list') = Len(timer_list) - 1
              /\ \A k \in 1..(Len(timer_list) - 1) :
                   /\ timer_list'[k].proc = IF k < j THEN timer_list[k].proc
                                            ELSE timer_list[k + 1].proc
                   /\ e[k] = IF k < j THEN d[k] ELSE d[k + 1]
    <2>1. PICK e : /\ Due(timer_list', e)
                   /\ \A k \in 1..(len - 1) : e[k] = IF k < i THEN d[k] ELSE d[k + 1]
      BY <1>3, <1>5
    <2> QED
      BY <1>1, <1>5, <2>1
  <1> QED
    BY <1>1, <1>4, <1>5, DelTimerEntries

(* A tick brings everything one nearer. *)
LEMMA TickDue ==
  ASSUME TimersTyped, run_timer_list, NEW d, Due(timer_list, d),
         \A k \in 1..Len(timer_list) : d[k] > 0
  PROVE  \E e :
           /\ Due(timer_list', e) /\ Len(timer_list') = Len(timer_list)
           /\ \A k \in 1..Len(timer_list) :
                timer_list'[k].proc = timer_list[k].proc /\ e[k] = d[k] - 1
  <1>1. PICK len \in Nat : len = Len(timer_list)
    BY TimersLength DEF TimersTyped
  <1> DEFINE e == [k \in 0..len |-> IF k = 0 THEN 0 ELSE d[k] - 1]
  <1>2. /\ \A k \in 0..len : d[k] \in Nat
        /\ \A k \in 1..len : d[k] - 1 \in Nat
        /\ \A j, k \in 0..len : j <= k => d[j] <= d[k]
        /\ \A k \in 1..len : timer_list[k].expires = d[k] - d[k - 1]
        /\ d[0] = 0
    <2>1. d \in [0..len -> Nat]
      BY <1>1 DEF Due
    <2>2. \A k \in 1..len : d[k] \in Nat /\ d[k] > 0
      BY <1>1, <2>1
    <2>3. \A k \in 0..len : d[k] \in Nat
      BY <2>1
    <2>4. \A k \in 1..len : d[k] - 1 \in Nat
      BY <2>2
    <2> QED
      BY <1>1, <2>3, <2>4 DEF Due
  <1>3. /\ Len(timer_list') = len
        /\ \A k \in 1..len :
             /\ timer_list'[k].proc = timer_list[k].proc
             /\ timer_list'[k].expires = IF k = 1 THEN timer_list[1].expires - 1
                                         ELSE timer_list[k].expires
    <2>1. CASE timer_list = <<>>
      <3>1. Len(timer_list) = 0 /\ timer_list' = timer_list
        BY <2>1 DEF run_timer_list
      <3> QED
        BY <1>1, <3>1
    <2>2. CASE timer_list # <<>>
      <3>1. timer_list' = [timer_list EXCEPT ![1].expires = timer_list[1].expires - 1]
        BY <2>2 DEF run_timer_list
      <3>2. 1 \in 1..Len(timer_list) /\ Timers(timer_list)
        BY <2>2, TimersLength DEF TimersTyped
      <3>3. Len(timer_list') = Len(timer_list)
        BY <3>1, <3>2, SetExpires
      <3> QED
        BY <1>1, <3>1, <3>2, <3>3, SetExpiresEntries
    <2> QED
      BY <2>1, <2>2
  <1>4. e \in [0..len -> Nat] /\ e[0] = 0
    BY <1>2
  <1>5. ASSUME NEW j \in 0..len, NEW k \in 0..len, j <= k PROVE e[j] <= e[k]
    <2>1. CASE j = 0
      BY <1>4, <2>1
    <2>2. CASE j # 0
      <3>1. d[j] <= d[k] /\ d[j] \in Nat /\ d[k] \in Nat /\ k # 0
        BY <1>2, <1>5, <2>2
      <3> QED
        BY <2>2, <3>1
    <2> QED
      BY <2>1, <2>2
  <1>6. ASSUME NEW k \in 1..len PROVE timer_list'[k].expires = e[k] - e[k - 1]
    <2>1. CASE k = 1
      <3>1. timer_list[1].expires = d[1] - d[0] /\ d[1] \in Nat
        BY <1>2, <2>1
      <3> QED
        BY <1>2, <1>3, <2>1, <3>1
    <2>2. CASE k # 1
      <3>1. k - 1 \in 0..len /\ k - 1 # 0 /\ k \in 0..len
        BY <2>2
      <3>2. e[k] = d[k] - 1 /\ e[k - 1] = d[k - 1] - 1
        BY <3>1
      <3>3. PICK a \in Nat, b \in Nat : a = d[k] /\ b = d[k - 1]
        BY <1>2, <3>1
      <3>4. timer_list'[k].expires = a - b
        BY <1>2, <1>3, <2>2, <3>3
      <3>5. e[k] = a - 1 /\ e[k - 1] = b - 1
        BY <3>2, <3>3
      <3>6. a - b = (a - 1) - (b - 1)
        OBVIOUS
      <3> QED
        BY <3>4, <3>5, <3>6, Zenon
    <2> QED
      BY <2>1, <2>2
  <1>7. Due(timer_list', e)
    BY <1>3, <1>4, <1>5, <1>6 DEF Due
  <1>8. \A k \in 1..len : e[k] = d[k] - 1
    OBVIOUS
  <1> HIDE DEF e
  <1> QED
    BY <1>1, <1>3, <1>7, <1>8

(* The first timer goes when it is due. *)
LEMMA TailDue ==
  ASSUME TimersTyped, timer_list # <<>>, timer_list' = Tail(timer_list),
         NEW d, Due(timer_list, d), timer_list[1].expires = 0
  PROVE  \E e :
           /\ Due(timer_list', e) /\ Len(timer_list') = Len(timer_list) - 1
           /\ \A k \in 1..(Len(timer_list) - 1) :
                timer_list'[k] = timer_list[k + 1] /\ e[k] = d[k + 1]
           /\ d[1] = 0
  <1>1. PICK X : timer_list \in Seq([proc : Procs, expires : X])
    BY DEF TimersTyped, Timers
  <1>2. PICK len \in Nat : len = Len(timer_list)
    BY <1>1
  <1>3. /\ len >= 1 /\ Len(timer_list') = len - 1
        /\ \A k \in 1..(len - 1) : timer_list'[k] = timer_list[k + 1]
    BY <1>1, <1>2
  <1>4. /\ \A k \in 0..len : d[k] \in Nat
        /\ \A j, k \in 0..len : j <= k => d[j] <= d[k]
        /\ \A k \in 1..len : timer_list[k].expires = d[k] - d[k - 1]
        /\ d[0] = 0
    BY <1>2 DEF Due
  <1>5. d[1] = 0
    <2>1. 1 \in 1..len /\ d[1] \in Nat
      BY <1>3, <1>4
    <2>2. timer_list[1].expires = d[1] - d[0]
      BY <1>4, <2>1
    <2> QED
      BY <1>4, <2>1, <2>2
  <1> DEFINE e == [k \in 0..(len - 1) |-> d[k + 1]]
  <1>6. \A k \in 0..(len - 1) : k + 1 \in 0..len
    OBVIOUS
  <1>7. e \in [0..(len - 1) -> Nat] /\ e[0] = 0
    BY <1>3, <1>4, <1>5, <1>6
  <1>8. \A j, k \in 0..(len - 1) : j <= k => e[j] <= e[k]
    BY <1>4, <1>6
  <1>9. ASSUME NEW k \in 1..(len - 1) PROVE timer_list'[k].expires = e[k] - e[k - 1]
    <2>1. k + 1 \in 1..len /\ (k + 1) - 1 = k /\ (k - 1) + 1 = k
      OBVIOUS
    <2>2. e[k] = d[k + 1] /\ e[k - 1] = d[k]
      BY <2>1
    <2> QED
      BY <1>3, <1>4, <2>1, <2>2
  <1>10. Due(timer_list', e)
    BY <1>3, <1>7, <1>8, <1>9 DEF Due
  <1>11. \A k \in 1..(len - 1) : e[k] = d[k + 1]
    OBVIOUS
  <1> HIDE DEF e
  <1> QED
    BY <1>2, <1>3, <1>5, <1>10, <1>11
-----------------------------------------------------------------------------
(* The timers are due in order, and outside the interrupt handler none is  *)
(* overdue.                                                                *)
TInv ==
  \E d : /\ Due(timer_list, d)
         /\ tick = "none" => \A k \in 1..Len(timer_list) : d[k] > 0

LEMMA AlarmOf ==
  ASSUME SInv, NEW d, Due(timer_list, d), NEW p
  PROVE  /\ Len(timer_list) \in Nat
         /\ (\A k \in 1..Len(timer_list) : timer_list[k].proc # p) => Alarm(p) = 0
         /\ \A k \in 1..Len(timer_list) : timer_list[k].proc = p => Alarm(p) = d[k]
  <1>1. PICK t : t = timer_list
    OBVIOUS
  <1>2. Len(t) \in Nat
    BY <1>1, TimersLength DEF SInv, IInv, Scheduling, SchedTyped, TimersTyped
  <1>3. \A j, k \in 1..Len(t) : t[j].proc = t[k].proc => j = k
    BY <1>1 DEF SInv, Timed
  <1>4. Alarm(p) = Ticks(t, p)
    BY <1>1, AlarmTicks
  <1>5. Due(t, d)
    BY <1>1
  <1>6. (\A k \in 1..Len(t) : t[k].proc # p) => Ticks(t, p) = 0
    BY <1>2, <1>5, TicksAre
  <1>7. ASSUME NEW k \in 1..Len(t), t[k].proc = p PROVE Ticks(t, p) = d[k]
    <2>1. \A j \in 1..Len(t) : t[j].proc = p => j = k
      BY <1>3, <1>7
    <2> QED
      BY <1>2, <1>5, <1>7, <2>1, TicksAre
  <1> QED
    BY <1>1, <1>2, <1>4, <1>6, <1>7

LEMMA AlarmOfNext ==
  ASSUME SInv', NEW d, Due(timer_list', d), NEW p
  PROVE  /\ Len(timer_list') \in Nat
         /\ (\A k \in 1..Len(timer_list') : timer_list'[k].proc # p) => Alarm(p)' = 0
         /\ \A k \in 1..Len(timer_list') : timer_list'[k].proc = p => Alarm(p)' = d[k]
  <1>1. PICK t : t = timer_list'
    OBVIOUS
  <1>2. Len(t) \in Nat
    <2>1. Timers(t)
      BY <1>1 DEF SInv, IInv, Scheduling, SchedTyped, TimersTyped
    <2> QED
      BY <2>1, TimersLength
  <1>3. \A j, k \in 1..Len(t) : t[j].proc = t[k].proc => j = k
    BY <1>1 DEF SInv, Timed
  <1>4. Alarm(p)' = Ticks(t, p)
    BY <1>1, AlarmTicksNext
  <1>5. Due(t, d)
    BY <1>1
  <1>6. (\A k \in 1..Len(t) : t[k].proc # p) => Ticks(t, p) = 0
    BY <1>2, <1>5, TicksAre
  <1>7. ASSUME NEW k \in 1..Len(t), t[k].proc = p PROVE Ticks(t, p) = d[k]
    <2>1. \A j \in 1..Len(t) : t[j].proc = p => j = k
      BY <1>3, <1>7
    <2> QED
      BY <1>2, <1>5, <1>7, <2>1, TicksAre
  <1> QED
    BY <1>1, <1>2, <1>4, <1>6, <1>7

(* The alarm of q is as it was if its timer is due at the same time. *)
LEMMA AlarmKept ==
  ASSUME SInv, SInv', NEW d, Due(timer_list, d), NEW e, Due(timer_list', e), NEW q,
         \A k \in 1..Len(timer_list') : timer_list'[k].proc = q =>
           \E j \in 1..Len(timer_list) : timer_list[j].proc = q /\ e[k] = d[j],
         \A j \in 1..Len(timer_list) : timer_list[j].proc = q =>
           \E k \in 1..Len(timer_list') : timer_list'[k].proc = q
  PROVE  Alarm(q)' = Alarm(q)
  <1>1. CASE \E k \in 1..Len(timer_list') : timer_list'[k].proc = q
    <2>1. PICK k \in 1..Len(timer_list') : timer_list'[k].proc = q
      BY <1>1
    <2>2. PICK j \in 1..Len(timer_list) : timer_list[j].proc = q /\ e[k] = d[j]
      BY <2>1
    <2>3. Alarm(q)' = e[k]
      BY <2>1, AlarmOfNext
    <2>4. Alarm(q) = d[j]
      BY <2>2, AlarmOf
    <2> QED
      BY <2>2, <2>3, <2>4
  <1>2. CASE \A k \in 1..Len(timer_list') : timer_list'[k].proc # q
    <2>1. \A j \in 1..Len(timer_list) : timer_list[j].proc # q
      BY <1>2
    <2>2. Alarm(q) = 0
      BY <2>1, AlarmOf
    <2>3. Alarm(q)' = 0
      BY <1>2, AlarmOfNext
    <2> QED
      BY <2>2, <2>3
  <1> QED
    BY <1>1, <1>2

(* Steps that leave the timers alone. *)
LEMMA TimersLeft ==
  ASSUME TInv, TimersTyped, UNCHANGED timer_list,
         tick' = "none" => \/ tick = "none"
                           \/ timer_list = <<>> \/ timer_list[1].expires # 0
  PROVE  TInv' /\ UNCHANGED alarm
  <1>1. \A p : Alarm(p)' = Alarm(p)
    <2>1. \A p : Alarm(p)' = Ticks(timer_list', p)
      BY AlarmTicksNext
    <2>2. \A p : Alarm(p) = Ticks(timer_list, p)
      BY AlarmTicks
    <2> QED
      BY <2>1, <2>2
  <1>2. PICK d : /\ Due(timer_list, d)
                 /\ tick = "none" => \A k \in 1..Len(timer_list) : d[k] > 0
    BY DEF TInv
  <1>3. ASSUME tick' = "none", NEW k \in 1..Len(timer_list) PROVE d[k] > 0
    <2>1. CASE tick = "none"
      BY <1>2, <2>1
    <2>2. CASE tick # "none"
      <3>1. Len(timer_list) \in Nat
        BY TimersLength DEF TimersTyped
      <3>2. timer_list # <<>>
        BY <1>3, <3>1
      <3>3. timer_list[1].expires # 0
        BY <1>3, <2>2, <3>2
      <3>4. 1 \in 1..Len(timer_list) /\ 0 \in 0..Len(timer_list) /\ 1 \in 0..Len(timer_list)
            /\ k \in 0..Len(timer_list) /\ 1 <= k
        BY <3>1
      <3>5. /\ timer_list[1].expires = d[1] - d[0] /\ d[0] = 0
            /\ d[1] \in Nat /\ d[k] \in Nat /\ d[1] <= d[k]
        BY <1>2, <3>4 DEF Due
      <3>6. d[1] # 0
        BY <3>3, <3>5
      <3> QED
        BY <3>5, <3>6
    <2> QED
      BY <2>1, <2>2
  <1>4. TInv'
    BY <1>2, <1>3 DEF TInv
  <1> QED
    BY <1>1, <1>4 DEF alarm

LEMMA SleepAlarm ==
  ASSUME SInv, SInv', TInv, NEW n \in 1..MAX_SLEEP, do_sleep(n)
  PROVE  TInv' /\ current \in Procs /\ Alarms!Sleep(current, n)
  <1>1. PICK c \in Procs : c = current
    BY DEF do_sleep, At
  <1>2. /\ add_timer(c, n) /\ tick = "none" /\ tick' = tick /\ TimersTyped
        /\ n \in Nat \ {0} /\ pc[c] \in {"run", "critical"}
    BY <1>1, SyncAssumption
       DEF do_sleep, At, Running, SInv, IInv, Scheduling, SchedTyped
  <1>3. PICK d : /\ Due(timer_list, d)
                 /\ \A k \in 1..Len(timer_list) : d[k] > 0
    BY <1>2 DEF TInv
  <1>4a. PICK at \in 1..(Len(timer_list) + 1) : \E e : InsertedDue(d, e, at, c, n)
    BY <1>2, <1>3, InsertDue
  <1>4b. PICK e : InsertedDue(d, e, at, c, n)
    BY <1>4a
  <1>4. /\ Due(timer_list', e) /\ Len(timer_list') = Len(timer_list) + 1
        /\ \A k \in 1..(Len(timer_list) + 1) :
             /\ timer_list'[k].proc = IF k < at THEN timer_list[k].proc
                                      ELSE IF k = at THEN c ELSE timer_list[k - 1].proc
             /\ e[k] = IF k < at THEN d[k] ELSE IF k = at THEN n ELSE d[k - 1]
    BY <1>4b DEF InsertedDue
  <1>5. PICK len \in Nat : len = Len(timer_list)
    BY <1>2, TimersLength DEF TimersTyped
  <1>6. ASSUME NEW k \in 1..(len + 1) PROVE e[k] > 0
    <2>1. CASE k < at
      <3>1. k \in 1..len
        BY <1>4, <1>5, <2>1
      <3> QED
        BY <1>3, <1>4, <1>5, <2>1, <3>1
    <2>2. CASE k = at
      BY <1>2, <1>4, <1>5, <2>2
    <2>3. CASE k > at
      <3>1. k - 1 \in 1..len
        BY <1>4, <1>5, <2>3
      <3> QED
        BY <1>3, <1>4, <1>5, <2>3, <3>1
    <2> QED
      BY <1>4, <1>5, <2>1, <2>2, <2>3
  <1>7. TInv'
    BY <1>4, <1>5, <1>6 DEF TInv
  <1>8. \A k \in 1..Len(timer_list) : timer_list[k].proc # c
    BY <1>2 DEF SInv, Timed, InSleep
  <1>9. Alarm(c) = 0
    BY <1>3, <1>8, AlarmOf
  <1>10. Alarm(c)' = n
    <2>1. timer_list'[at].proc = c /\ e[at] = n /\ at \in 1..Len(timer_list')
      BY <1>4, <1>5
    <2> QED
      BY <1>4, <2>1, AlarmOfNext
  <1>11. ASSUME NEW q \in Procs, q # c PROVE Alarm(q)' = Alarm(q)
    <2>1. ASSUME NEW k \in 1..Len(timer_list'), timer_list'[k].proc = q
          PROVE  \E j \in 1..Len(timer_list) : timer_list[j].proc = q /\ e[k] = d[j]
      <3>1. k # at
        BY <1>4, <1>11, <2>1
      <3>2. CASE k < at
        <4>1. k \in 1..len
          BY <1>4, <1>5, <3>2
        <4> QED
          BY <1>4, <1>5, <2>1, <3>2, <4>1
      <3>3. CASE k > at
        <4>1. PICK j \in 1..len : j = k - 1
          BY <1>4, <1>5, <3>3
        <4> QED
          BY <1>4, <1>5, <2>1, <3>3, <4>1
      <3> QED
        BY <1>4, <1>5, <3>1, <3>2, <3>3
    <2>2. ASSUME NEW j \in 1..Len(timer_list), timer_list[j].proc = q
          PROVE  \E k \in 1..Len(timer_list') : timer_list'[k].proc = q
      <3>1. CASE j < at
        <4>1. j \in 1..(len + 1)
          BY <1>5
        <4> QED
          BY <1>4, <1>5, <2>2, <3>1, <4>1
      <3>2. CASE j >= at
        <4>1. PICK k \in 1..(len + 1) : k = j + 1
          BY <1>5
        <4>2. ~(k < at) /\ k # at /\ k - 1 = j
          BY <1>4, <1>5, <3>2, <4>1
        <4> QED
          BY <1>4, <1>5, <2>2, <4>1, <4>2
      <3> QED
        BY <1>4, <1>5, <3>1, <3>2
    <2> QED
      BY <1>3, <1>4, <2>1, <2>2, AlarmKept
  <1>12. Alarms!Sleep(c, n)
    <2>1. alarm' = [alarm EXCEPT ![c] = n] /\ alarm[c] = 0
      BY <1>9, <1>10, <1>11 DEF alarm
    <2> QED
      BY <2>1 DEF alarm, Alarms!Sleep
  <1> QED
    BY <1>1, <1>7, <1>12

LEMMA ReturnsAlarm ==
  ASSUME SInv, SInv', TInv, sleep_returns
  PROVE  TInv' /\ current \in Procs /\ (UNCHANGED alarm \/ Alarms!Cancel(current))
  <1>1. PICK c \in Procs : c = current
    BY DEF sleep_returns, At
  <1>2. /\ del_timer(c) /\ tick = "none" /\ tick' = tick /\ TimersTyped
    BY <1>1 DEF sleep_returns, At, Running, SInv, IInv, Scheduling, SchedTyped
  <1>3. PICK d : /\ Due(timer_list, d)
                 /\ \A k \in 1..Len(timer_list) : d[k] > 0
    BY <1>2 DEF TInv
  <1>4. ASSUME UNCHANGED timer_list PROVE TInv' /\ UNCHANGED alarm
    BY <1>2, <1>4, TimersLeft
  <1>5. ASSUME NEW i \in 1..Len(timer_list), NEW e,
               timer_list[i].proc = c,
               Due(timer_list', e), Len(timer_list') = Len(timer_list) - 1,
               \A k \in 1..(Len(timer_list) - 1) :
                 /\ timer_list'[k].proc = IF k < i THEN timer_list[k].proc
                                          ELSE timer_list[k + 1].proc
                 /\ e[k] = IF k < i THEN d[k] ELSE d[k + 1]
        PROVE  TInv' /\ Alarms!Cancel(c)
    <2>1. PICK len \in Nat : len = Len(timer_list)
      BY <1>2, TimersLength DEF TimersTyped
    <2>2. ASSUME NEW k \in 1..(len - 1) PROVE e[k] > 0
      <3>1. k \in 1..len /\ k + 1 \in 1..len
        BY <2>1
      <3> QED
        BY <1>3, <1>5, <2>1, <3>1
    <2>3. TInv'
      BY <1>5, <2>1, <2>2 DEF TInv
    <2>4. \A k \in 1..Len(timer_list) : timer_list[k].proc = c => k = i
      BY <1>5 DEF SInv, Timed
    <2>5. Alarm(c)' = 0
      <3>1. ASSUME NEW k \in 1..Len(timer_list'), timer_list'[k].proc = c PROVE FALSE
        <4>1. k \in 1..(len - 1) /\ k \in 1..len /\ k + 1 \in 1..len
          BY <1>5, <2>1
        <4>2. timer_list'[k].proc = IF k < i THEN timer_list[k].proc ELSE timer_list[k + 1].proc
          BY <1>5, <2>1, <4>1
        <4>3. CASE k < i
          BY <1>5, <2>1, <2>4, <3>1, <4>1, <4>2, <4>3
        <4>4. CASE k >= i
          BY <1>5, <2>1, <2>4, <3>1, <4>1, <4>2, <4>4
        <4> QED
          BY <4>1, <4>3, <4>4
      <3> QED
        BY <1>5, <3>1, AlarmOfNext
    <2>6. ASSUME NEW q \in Procs, q # c PROVE Alarm(q)' = Alarm(q)
      <3>1. ASSUME NEW k \in 1..Len(timer_list'), timer_list'[k].proc = q
            PROVE  \E j \in 1..Len(timer_list) : timer_list[j].proc = q /\ e[k] = d[j]
        <4>1. PICK j \in 1..len : /\ j = IF k < i THEN k ELSE k + 1
                                  /\ timer_list'[k].proc = timer_list[j].proc
                                  /\ e[k] = d[j]
          BY <1>5, <2>1
        <4> QED
          BY <2>1, <3>1, <4>1
      <3>2. ASSUME NEW j \in 1..Len(timer_list), timer_list[j].proc = q
            PROVE  \E k \in 1..Len(timer_list') : timer_list'[k].proc = q
        <4>1. j # i
          BY <1>5, <2>6, <3>2
        <4>2. CASE j < i
          <5>1. j \in 1..(len - 1)
            BY <2>1, <4>2
          <5> QED
            BY <1>5, <2>1, <3>2, <4>2, <5>1
        <4>3. CASE j > i
          <5>1. PICK k \in 1..(len - 1) : k = j - 1
            BY <2>1, <4>3
          <5>2. ~(k < i) /\ k + 1 = j
            BY <2>1, <4>3, <5>1
          <5> QED
            BY <1>5, <2>1, <3>2, <5>1, <5>2
        <4> QED
          BY <2>1, <4>1, <4>2, <4>3
      <3> QED
        BY <1>3, <1>5, <3>1, <3>2, AlarmKept
    <2>7. Alarms!Cancel(c)
      <3>1. alarm' = [alarm EXCEPT ![c] = 0]
        BY <2>5, <2>6 DEF alarm
      <3> QED
        BY <3>1 DEF alarm, Alarms!Cancel
    <2> QED
      BY <2>3, <2>7
  <1>6. TInv' /\ (UNCHANGED alarm \/ Alarms!Cancel(c))
    BY <1>2, <1>3, <1>4, <1>5, RemoveDue
  <1> QED
    BY <1>1, <1>6

LEMMA TickAlarm ==
  ASSUME SInv, SInv', TInv, TimerInterrupt
  PROVE  TInv' /\ Alarms!Tick
  <1>1. run_timer_list /\ tick = "none" /\ tick' = "loop" /\ TimersTyped
    BY DEF TimerInterrupt, run_timer_list, SInv, IInv, Scheduling, SchedTyped
  <1>2. PICK d : /\ Due(timer_list, d)
                 /\ \A k \in 1..Len(timer_list) : d[k] > 0
    BY <1>1 DEF TInv
  <1>3. PICK e :
           /\ Due(timer_list', e) /\ Len(timer_list') = Len(timer_list)
           /\ \A k \in 1..Len(timer_list) :
                timer_list'[k].proc = timer_list[k].proc /\ e[k] = d[k] - 1
    BY <1>1, <1>2, TickDue
  <1>4. TInv'
    BY <1>1, <1>3 DEF TInv
  <1>5. ASSUME NEW q \in Procs
        PROVE  Alarm(q)' = IF Alarm(q) > 0 THEN Alarm(q) - 1 ELSE 0
    <2>1. CASE \E k \in 1..Len(timer_list) : timer_list[k].proc = q
      <3>1. PICK k \in 1..Len(timer_list) : timer_list[k].proc = q
        BY <2>1
      <3>2. Alarm(q) = d[k] /\ d[k] > 0
        BY <1>2, <3>1, AlarmOf
      <3>3. timer_list'[k].proc = q /\ e[k] = d[k] - 1 /\ k \in 1..Len(timer_list')
        BY <1>3, <3>1
      <3>4. Alarm(q)' = e[k]
        BY <1>3, <3>3, AlarmOfNext
      <3> QED
        BY <3>2, <3>3, <3>4
    <2>2. CASE \A k \in 1..Len(timer_list) : timer_list[k].proc # q
      <3>1. Alarm(q) = 0
        BY <1>2, <2>2, AlarmOf
      <3>2. \A k \in 1..Len(timer_list') : timer_list'[k].proc # q
        BY <1>3, <2>2
      <3>3. Alarm(q)' = 0
        BY <1>3, <3>2, AlarmOfNext
      <3> QED
        BY <3>1, <3>3
    <2> QED
      BY <2>1, <2>2
  <1>6. Alarms!Tick
    BY <1>5 DEF alarm, Alarms!Tick
  <1> QED
    BY <1>4, <1>6

LEMMA ExpiresAlarm ==
  ASSUME SInv, SInv', TInv, TimerExpires
  PROVE  TInv' /\ UNCHANGED alarm
  <1>1. /\ TimersTyped /\ timer_list # <<>> /\ timer_list[1].expires = 0
        /\ timer_list' = Tail(timer_list) /\ tick' = "loop"
    BY DEF TimerExpires, timer_expires, Expired, SInv, IInv, Scheduling, SchedTyped
  <1>2. PICK d : Due(timer_list, d)
    BY DEF TInv
  <1>3. PICK e :
           /\ Due(timer_list', e) /\ Len(timer_list') = Len(timer_list) - 1
           /\ \A k \in 1..(Len(timer_list) - 1) :
                timer_list'[k] = timer_list[k + 1] /\ e[k] = d[k + 1]
           /\ d[1] = 0
    BY <1>1, <1>2, TailDue
  <1>4. TInv'
    BY <1>1, <1>3 DEF TInv
  <1>5. PICK len \in Nat : len = Len(timer_list) /\ 1 \in 1..len
    BY <1>1, TimersLength DEF TimersTyped
  <1>6. ASSUME NEW q \in Procs PROVE Alarm(q)' = Alarm(q)
    <2>1. ASSUME NEW k \in 1..Len(timer_list'), timer_list'[k].proc = q
          PROVE  \E j \in 1..Len(timer_list) : timer_list[j].proc = q /\ e[k] = d[j]
      <3>1. k \in 1..(len - 1) /\ k + 1 \in 1..len
        BY <1>3, <1>5
      <3> QED
        BY <1>3, <1>5, <2>1, <3>1
    <2>2. CASE timer_list[1].proc = q
      <3>1. Alarm(q) = 0
        BY <1>2, <1>3, <1>5, <2>2, AlarmOf
      <3>2. ASSUME NEW k \in 1..Len(timer_list'), timer_list'[k].proc = q PROVE FALSE
        <4>1. k \in 1..(len - 1) /\ k + 1 \in 1..len /\ k + 1 # 1
          BY <1>3, <1>5
        <4>2. timer_list[k + 1].proc = q
          BY <1>3, <1>5, <3>2, <4>1
        <4> QED
          BY <1>5, <2>2, <4>1, <4>2 DEF SInv, Timed
      <3>3. Alarm(q)' = 0
        BY <1>3, <3>2, AlarmOfNext
      <3> QED
        BY <3>1, <3>3
    <2>3. CASE timer_list[1].proc # q
      <3>1. ASSUME NEW j \in 1..Len(timer_list), timer_list[j].proc = q
            PROVE  \E k \in 1..Len(timer_list') : timer_list'[k].proc = q
        <4>1. PICK k \in 1..(len - 1) : j = k + 1
          <5>1. j - 1 \in 1..(len - 1) /\ j = (j - 1) + 1
            BY <1>5, <2>3, <3>1
          <5> QED
            BY <5>1
        <4> QED
          BY <1>3, <1>5, <3>1, <4>1
      <3> QED
        BY <1>2, <1>3, <2>1, <3>1, AlarmKept
    <2> QED
      BY <2>2, <2>3
  <1>7. UNCHANGED alarm
    BY <1>6 DEF alarm
  <1> QED
    BY <1>4, <1>7
-----------------------------------------------------------------------------
(* Every step is a step of the countdowns or leaves them alone. *)
Moved ==
  \/ \E n \in 1..MAX_SLEEP : do_sleep(n)
  \/ TimerInterrupt
  \/ sleep_returns /\ Alarms!Cancel(current)
  \/ UNCHANGED alarm

LEMMA AlarmMoves ==
  ASSUME SInv, SInv', TInv, [Next]_vars
  PROVE  TInv' /\ Moved
  <1>1. TimersTyped
    BY DEF SInv, IInv, Scheduling, SchedTyped
  <1>2. CASE sleep_returns
    BY <1>2, ReturnsAlarm DEF Moved
  <1>3. ASSUME NEW n \in 1..MAX_SLEEP, do_sleep(n) PROVE TInv' /\ Moved
    BY <1>3, SleepAlarm DEF Moved
  <1>4. CASE TimerInterrupt
    BY <1>4, TickAlarm DEF Moved
  <1>5. CASE TimerExpires
    BY <1>5, ExpiresAlarm DEF Moved
  <1>6. CASE TimerReturns
    <2>1. UNCHANGED timer_list /\ (timer_list = <<>> \/ timer_list[1].expires # 0)
      BY <1>6 DEF TimerReturns, timer_returns, Expired
    <2> QED
      BY <1>1, <2>1, TimersLeft DEF Moved
  <1>7. CASE UNCHANGED <<timer_list, tick>>
    BY <1>1, <1>7, TimersLeft DEF Moved
  <1>8. CASE Kernel
    <2>1. CASE ~sleep_returns
      <3>1. UNCHANGED <<timer_list, tick>>
        BY <1>8, <2>1
           DEF Kernel, down_schedule, sem_down_returns, down_returns, sleep_schedule,
               exit_schedule, do_exit, trap_exit, Idle, cpu_idle, schedule, schedVars
      <3> QED
        BY <1>7, <3>1
    <2> QED
      BY <1>2, <2>1
  <1>9. CASE do_exit
    BY <1>7, <1>9 DEF do_exit
  <1>10. CASE sem_up
    BY <1>7, <1>10 DEF sem_up, up, schedVars
  <1>11. CASE Handler
    BY <1>5, <1>6, <1>11 DEF Handler
  <1>12. ASSUME NEW s \in Sems, sem_down(s) \/ sem_try_down(s) PROVE TInv' /\ Moved
    BY <1>7, <1>12 DEF sem_down, sem_try_down, down_takes, down_waits, schedVars
  <1>13. ASSUME NEW q \in Procs, sys_kill(q) PROVE TInv' /\ Moved
    BY <1>7, <1>13 DEF sys_kill, schedVars
  <1>14. CASE UNCHANGED vars
    BY <1>7, <1>14 DEF vars, schedVars
  <1> QED
    BY <1>3, <1>4, <1>8, <1>9, <1>10, <1>11, <1>12, <1>13, <1>14 DEF Next

(* Every step is a step of the countdowns, the one of its operation.       *)
LEMMA AlarmStep ==
  ASSUME SInv, SInv', TInv, [Next]_vars
  PROVE  TInv' /\ [Alarms!Next]_alarm /\ [Counted]_vars
  <1>1. TInv' /\ Moved
    BY AlarmMoves
  <1>2. \A n \in 1..MAX_SLEEP : do_sleep(n) => current \in Procs /\ Alarms!Sleep(current, n)
    BY SleepAlarm
  <1>3. TimerInterrupt => Alarms!Tick
    BY TickAlarm
  <1>4. Counted
    BY <1>1, <1>2, <1>3 DEF Counted, Moved
  <1>5. sleep_returns => current \in Procs
    BY ReturnsAlarm
  <1>6. [Alarms!Next]_alarm
    BY <1>1, <1>2, <1>3, <1>5 DEF Moved, Alarms!Next
  <1> QED
    BY <1>1, <1>4, <1>6

LEMMA AlarmInit ==
  ASSUME Init
  PROVE  TInv /\ Alarms!Init
  <1>1. timer_list = <<>>
    BY DEF Init, SchedInit
  <1> DEFINE d == [k \in {0} |-> 0]
  <1>2. Due(timer_list, d)
    BY <1>1 DEF Due
  <1>3. TInv
    <2>1. \A k \in 1..Len(timer_list) : FALSE
      BY <1>1
    <2> HIDE DEF d
    <2> QED
      BY <1>2, <2>1 DEF TInv
  <1>4. SInv
    BY SleepInit
  <1>5. \A p : Alarm(p) = 0
    <2>1. \A k \in 1..Len(timer_list) : FALSE
      BY <1>1
    <2> HIDE DEF d
    <2> QED
      BY <1>2, <1>4, <2>1, AlarmOf
  <1> QED
    BY <1>3, <1>5 DEF alarm, Alarms!Init

(* The list of relative expiries is one countdown for each sleeper: of the *)
(* ticks that do_sleep is called for, a timer interrupt counts all of them *)
(* down, and the return of do_sleep drops that of its own process.         *)
THEOREM AlarmRefinement == Spec => AlarmSpec
  <1>1. Init => SInv /\ TInv /\ Alarms!Init
    BY SleepInit, AlarmInit
  <1>2. SInv /\ TInv /\ [Next]_vars => SInv' /\ TInv' /\ [Alarms!Next]_alarm /\ [Counted]_vars
    BY SleepInductive, AlarmStep
  <1> QED
    BY <1>1, <1>2, PTL DEF Spec, AlarmSpec, Alarms!Spec
-----------------------------------------------------------------------------
(* A process sleeps on a semaphore in down() only, and is a zombie only    *)
(* when it has ended; no process waits for a child here.                   *)
Blocked ==
  \A p \in Procs :
    /\ wait_state[p] # "WT_CHILD"
    /\ wait_state[p] = "WT_KSEM" => InDown(p) /\ state[p] = "SLEEPING"
    /\ state[p] = "ZOMBIE" => pc[p] \in {"exit", "dead"}

AInv == SInv /\ TInv /\ Blocked /\ panic = "no"

(* Who is not left as it was is woken. *)
LEMMA BlockedKept ==
  ASSUME Blocked,
         \A p \in Procs :
           /\ \/ state'[p] = state[p] /\ wait_state'[p] = wait_state[p]
              \/ state'[p] = "RUNNABLE" /\ wait_state'[p] = "0"
           /\ InDown(p) /\ state[p] = "SLEEPING" => InDown(p)'
           /\ pc[p] \in {"exit", "dead"} => pc'[p] \in {"exit", "dead"}
  PROVE  Blocked'
  BY DEF Blocked

(* The process on the CPU moves on. *)
LEMMA PcMoves ==
  ASSUME AInv, current \in Procs, NEW to, Goto(to),
         InDown(current) /\ state[current] = "SLEEPING" => to = "down_ret",
         pc[current] = "exit" => to = "dead", pc[current] # "dead"
  PROVE  \A p \in Procs : /\ InDown(p) /\ state[p] = "SLEEPING" => InDown(p)'
                          /\ pc[p] \in {"exit", "dead"} => pc'[p] \in {"exit", "dead"}
  <1>1. \A p \in Procs : pc'[p] = IF p = current THEN to ELSE pc[p]
    BY DEF AInv, SInv, IInv, Typing, Goto, AllProcs
  <1> QED
    BY <1>1 DEF InDown

LEMMA WakesSafely ==
  ASSUME AInv, NEW q \in Procs, wakeup_proc(q), UNCHANGED current, TimersTyped',
         state[q] # "ZOMBIE"
  PROVE  /\ panic' = "no"
         /\ \A p \in Procs : \/ state'[p] = state[p] /\ wait_state'[p] = wait_state[p]
                             \/ state'[p] = "RUNNABLE" /\ wait_state'[p] = "0"
  <1>1. SchedTyped /\ QueueOK /\ panic = "no" /\ q \in AllProcs
    BY DEF AInv, SInv, IInv, Scheduling, AllProcs
  <1>2. panic' = "no"
    <2>1. state[q] # "RUNNABLE" => ~Contains(run_list, q)
      BY <1>1 DEF QueueOK, Contains
    <2> QED
      BY <1>1, <2>1 DEF wakeup_proc, assert
  <1>3. /\ state' = [state EXCEPT ![q] = "RUNNABLE"]
        /\ wait_state' = IF state[q] = "RUNNABLE" THEN wait_state ELSE [wait_state EXCEPT ![q] = "0"]
    BY <1>1, WakeEffect
  <1> QED
    BY <1>1, <1>2, <1>3 DEF SchedTyped, AllProcs

(* schedule() does not find the process it puts back in the queue. *)
LEMMA SchedulesSafely ==
  ASSUME AInv, schedule
  PROVE  panic' = "no" /\ UNCHANGED <<state, wait_state>>
  <1>1. QueueOK /\ panic = "no"
    BY DEF AInv, SInv, IInv, Scheduling
  <1>2. ~Contains(run_list, current)
    BY <1>1 DEF QueueOK, Contains
  <1> QED
    BY <1>1, <1>2 DEF schedule, assert

LEMMA KernelSafe ==
  ASSUME AInv, Kernel \/ do_exit
  PROVE  Blocked' /\ panic' = "no"
  <1>1. Blocked /\ panic = "no" /\ IInv
    BY DEF AInv, SInv
  <1>2. CASE down_schedule \/ sleep_schedule \/ exit_schedule \/ trap_exit
    <2>1. panic' = "no" /\ UNCHANGED <<state, wait_state>>
      BY <1>1, <1>2, SchedulesSafely
         DEF down_schedule, sleep_schedule, exit_schedule, trap_exit, schedVars
    <2>2. current \in Procs /\ pc[current] # "dead"
      BY <1>2 DEF down_schedule, sleep_schedule, exit_schedule, trap_exit, At
    <2>3. PICK to : /\ Goto(to)
                    /\ InDown(current) => to = "down_ret"
                    /\ pc[current] = "exit" => to = "dead"
      BY <1>2 DEF down_schedule, sleep_schedule, exit_schedule, trap_exit, At, InDown
    <2>4. \A p \in Procs : /\ InDown(p) /\ state[p] = "SLEEPING" => InDown(p)'
                           /\ pc[p] \in {"exit", "dead"} => pc'[p] \in {"exit", "dead"}
      BY <2>2, <2>3, PcMoves
    <2> QED
      BY <1>1, <2>1, <2>4, BlockedKept
  <1>3. CASE Idle
    <2>1. panic' = "no" /\ UNCHANGED <<state, wait_state>>
      BY <1>3, SchedulesSafely DEF Idle, cpu_idle
    <2> QED
      BY <1>1, <1>3, <2>1, BlockedKept DEF Idle, procVars, InDown
  <1>4. CASE sem_down_returns
    <2>1. current \in Procs /\ pc[current] = "down_ret" /\ state[current] = "RUNNABLE"
      BY <1>1, <1>4, OnCPU DEF sem_down_returns
    <2>2. wakeup_flags[current] = "WT_KSEM"
      BY <1>1, <2>1 DEF IInv, Waiting, InDown
    <2>3. panic' = "no" /\ UNCHANGED <<state, wait_state>> /\ Goto("critical")
      BY <1>1, <1>4, <2>2 DEF sem_down_returns, down_returns, assert
    <2>4. \A p \in Procs : /\ InDown(p) /\ state[p] = "SLEEPING" => InDown(p)'
                           /\ pc[p] \in {"exit", "dead"} => pc'[p] \in {"exit", "dead"}
      BY <2>1, <2>3, PcMoves
    <2> QED
      BY <1>1, <2>3, <2>4, BlockedKept
  <1>5. CASE sleep_returns
    <2>1. current \in Procs /\ pc[current] = "sleep_ret" /\ Goto(ret[current])
      BY <1>5 DEF sleep_returns, At
    <2>2. panic' = "no" /\ UNCHANGED <<state, wait_state>>
      BY <1>1, <1>5 DEF sleep_returns
    <2>3. \A p \in Procs : /\ InDown(p) /\ state[p] = "SLEEPING" => InDown(p)'
                           /\ pc[p] \in {"exit", "dead"} => pc'[p] \in {"exit", "dead"}
      <3>1. PICK to : to = ret[current]
        OBVIOUS
      <3> QED
        BY <2>1, <3>1, PcMoves DEF InDown
    <2> QED
      BY <1>1, <2>2, <2>3, BlockedKept
  <1>6. CASE do_exit
    <2>1. /\ current \in Procs /\ current \in AllProcs /\ SchedTyped /\ Typing
          /\ pc[current] \in {"run", "trap_exit"}
          /\ state' = [state EXCEPT ![current] = "ZOMBIE"]
          /\ pc' = [pc EXCEPT ![current] = "exit"]
          /\ UNCHANGED <<wait_state, panic>>
      BY <1>1, <1>6, OnCPU DEF do_exit, At, Goto
    <2>2. \A p \in Procs : pc'[p] = IF p = current THEN "exit" ELSE pc[p]
      BY <2>1 DEF Typing, AllProcs
    <2>3. \A p \in Procs : state'[p] = IF p = current THEN "ZOMBIE" ELSE state[p]
      BY <2>1 DEF SchedTyped, AllProcs
    <2> QED
      BY <1>1, <2>1, <2>2, <2>3 DEF Blocked, InDown
  <1> QED
    BY <1>2, <1>3, <1>4, <1>5, <1>6 DEF Kernel

(* up() finds the process that it wakes asleep on the semaphore. *)
LEMMA UpSafe ==
  ASSUME AInv, sem_up
  PROVE  Blocked' /\ panic' = "no"
  <1>1. Blocked /\ panic = "no" /\ IInv
    BY DEF AInv, SInv
  <1>2. /\ current \in Procs /\ pc[current] = "critical" /\ Goto(Outside(current))
        /\ UNCHANGED <<current, timer_list>>
    BY DEF sem_up, At, up, schedVars
  <1>3. \A p \in Procs : /\ InDown(p) /\ state[p] = "SLEEPING" => InDown(p)'
                         /\ pc[p] \in {"exit", "dead"} => pc'[p] \in {"exit", "dead"}
    BY <1>2, PcMoves DEF InDown
  <1>4. PICK s \in Sems : s = sem[current] /\ up(s)
    BY <1>1, <1>2 DEF sem_up, IInv, Located, Place, InSleep
  <1>5. CASE wait_queue[s] = <<>>
    BY <1>1, <1>3, <1>4, <1>5, BlockedKept DEF up, schedVars
  <1>6. CASE wait_queue[s] # <<>>
    <2>1. PICK q : q = wait_queue[s][1]
      OBVIOUS
    <2>2. q \in Procs /\ 1 \in 1..Len(wait_queue[s])
      BY <1>1, <1>6, <2>1, FirstEntry DEF IInv, Typing
    <2>3. InDown(q) /\ wakeup_flags[q] = "WT_INTERRUPTED"
      BY <1>1, <2>1, <2>2 DEF IInv, Queued
    <2>4. state[q] = "SLEEPING" /\ wait_state[q] = "WT_KSEM"
      BY <1>1, <2>2, <2>3 DEF IInv, Waiting
    <2>5. wakeup_proc(q)
      BY <1>4, <1>6, <2>1, <2>4 DEF up, wait_queue_first
    <2>6. TimersTyped'
      BY <1>1, <1>2 DEF IInv, Scheduling, SchedTyped, TimersTyped
    <2> QED
      BY <1>1, <1>2, <1>3, <2>2, <2>4, <2>5, <2>6, WakesSafely, BlockedKept
  <1> QED
    BY <1>5, <1>6

(* do_kill wakes nobody who has ended. *)
LEMMA KillSafe ==
  ASSUME AInv, NEW q \in Procs, sys_kill(q)
  PROVE  Blocked' /\ panic' = "no"
  <1>1. Blocked /\ panic = "no" /\ IInv
    BY DEF AInv, SInv
  <1>2. /\ current \in Procs /\ pc[current] = "run" /\ Goto("trap_exit")
        /\ UNCHANGED <<current, timer_list>>
    BY DEF sys_kill, At, schedVars
  <1>3. \A p \in Procs : /\ InDown(p) /\ state[p] = "SLEEPING" => InDown(p)'
                         /\ pc[p] \in {"exit", "dead"} => pc'[p] \in {"exit", "dead"}
    BY <1>2, PcMoves DEF InDown
  <1>4. CASE KillWakes(q) /\ wakeup_proc(q)
    <2>1. wait_state[q] = "WT_TIMER"
      BY <1>1, <1>4 DEF KillWakes, Interruptible, Blocked
    <2>2. state[q] = "SLEEPING"
      BY <2>1 DEF AInv, SInv, Timed
    <2>3. TimersTyped'
      BY <1>1, <1>2 DEF IInv, Scheduling, SchedTyped, TimersTyped
    <2> QED
      BY <1>1, <1>2, <1>3, <1>4, <2>2, <2>3, WakesSafely, BlockedKept
  <1>5. CASE UNCHANGED schedVars
    BY <1>1, <1>3, <1>5, BlockedKept DEF schedVars
  <1> QED
    BY <1>4, <1>5 DEF sys_kill

(* No timer is overdue at a tick, and an expired one is of a process in    *)
(* do_sleep, which is asleep there or has been woken.                      *)
LEMMA ClockSafe ==
  ASSUME AInv, TimerInterrupt \/ TimerExpires \/ TimerReturns
  PROVE  Blocked' /\ panic' = "no"
  <1>1. Blocked /\ panic = "no" /\ IInv
    BY DEF AInv, SInv
  <1>2. CASE TimerInterrupt
    <2>1. UNCHANGED <<state, wait_state, pc>>
      BY <1>2 DEF TimerInterrupt, run_timer_list, procVars
    <2>2. timer_list # <<>> => timer_list[1].expires # 0
      <3>1. PICK t : t = timer_list
        OBVIOUS
      <3>2. PICK d : Due(t, d) /\ \A k \in 1..Len(t) : d[k] > 0
        BY <1>2, <3>1 DEF AInv, TInv, TimerInterrupt, run_timer_list
      <3>3. t # <<>> => Len(t) \in Nat /\ 1 \in 1..Len(t)
        BY <1>1, <3>1, TimersLength DEF IInv, Scheduling, SchedTyped, TimersTyped
      <3>4. t # <<>> => t[1].expires = d[1] - d[0] /\ d[0] = 0 /\ d[1] > 0 /\ d[1] \in Nat
        BY <3>2, <3>3 DEF Due
      <3> QED
        BY <3>1, <3>4
    <2>3. panic' = "no"
      BY <1>1, <1>2, <2>2 DEF TimerInterrupt, run_timer_list, assert
    <2> QED
      BY <1>1, <2>1, <2>3, BlockedKept DEF InDown
  <1>3. CASE TimerExpires
    <2>1. PICK p : p = timer_list[1].proc
      OBVIOUS
    <2>2. /\ timer_list # <<>> /\ timer_list' = Tail(timer_list) /\ UNCHANGED <<current, pc>>
      BY <1>3 DEF TimerExpires, timer_expires, Expired, procVars
    <2>3. p \in Procs /\ TimersTyped' /\ 1 \in 1..Len(timer_list)
      BY <1>1, <2>1, <2>2, TimersLength DEF IInv, Scheduling, SchedTyped, TimersTyped
    <2>4. InSleep(p)
      BY <2>1, <2>3 DEF AInv, SInv, Timed
    <2>5. wait_state[p] \in Interruptible \cup {"0"} /\ state[p] # "ZOMBIE"
      <3>1. wait_state[p] \in {"0", "WT_TIMER", "WT_KSEM", "WT_CHILD"}
        BY <1>1, <2>3 DEF IInv, Scheduling, SchedTyped, AllProcs
      <3> QED
        BY <1>1, <2>3, <2>4, <3>1 DEF Blocked, InSleep, InDown, Interruptible
    <2>6. wakeup_proc(p)
      BY <1>3, <2>1, <2>5 DEF TimerExpires, timer_expires
    <2> QED
      BY <1>1, <2>2, <2>3, <2>5, <2>6, WakesSafely, BlockedKept DEF InDown
  <1>4. CASE TimerReturns
    <2>1. panic' = "no" /\ UNCHANGED <<state, wait_state>>
      BY <1>1, <1>4 DEF TimerReturns, timer_returns
    <2>2. CASE UNCHANGED pc
      BY <1>1, <2>1, <2>2, BlockedKept DEF InDown
    <2>3. CASE current \in Procs /\ Goto("trap_exit") /\ pc[current] = "run"
      BY <1>1, <2>1, <2>3, PcMoves, BlockedKept DEF InDown
    <2> QED
      BY <1>4, <2>2, <2>3, SchedAssumption
         DEF TimerReturns, AInv, SInv, Interrupted, InterruptsOn, timer_returns
  <1> QED
    BY <1>2, <1>3, <1>4

LEMMA DownSafe ==
  ASSUME AInv, NEW s \in Sems, sem_down(s) \/ sem_try_down(s)
  PROVE  Blocked' /\ panic' = "no"
  <1>1. Blocked /\ panic = "no" /\ IInv
    BY DEF AInv, SInv
  <1>2. current \in Procs /\ current \in AllProcs /\ pc[current] = "run" /\ SchedTyped /\ Typing
    BY <1>1, OnCPU DEF sem_down, sem_try_down
  <1>3. CASE down_takes(s) /\ Goto("critical")
    BY <1>1, <1>2, <1>3, PcMoves, BlockedKept DEF InDown, down_takes, schedVars
  <1>4. CASE down_waits(s) /\ Goto("down")
    <2>1. /\ state' = [state EXCEPT ![current] = "SLEEPING"]
          /\ wait_state' = [wait_state EXCEPT ![current] = "WT_KSEM"]
          /\ pc' = [pc EXCEPT ![current] = "down"]
          /\ panic' = "no"
      BY <1>1, <1>4 DEF down_waits, fall_asleep, Goto
    <2>2. \A p \in Procs : p # current =>
            pc'[p] = pc[p] /\ state'[p] = state[p] /\ wait_state'[p] = wait_state[p]
      BY <1>2, <2>1 DEF Typing, SchedTyped, AllProcs
    <2>3. pc'[current] = "down" /\ state'[current] = "SLEEPING" /\ wait_state'[current] = "WT_KSEM"
      BY <1>2, <2>1 DEF Typing, SchedTyped
    <2> QED
      BY <1>1, <2>1, <2>2, <2>3 DEF Blocked, InDown
  <1>5. CASE UNCHANGED schedVars /\ Goto(Outside(current))
    BY <1>1, <1>2, <1>5, PcMoves, BlockedKept DEF InDown, schedVars
  <1> QED
    BY <1>3, <1>4, <1>5 DEF sem_down, sem_try_down

LEMMA SleepSafe ==
  ASSUME AInv, NEW n, do_sleep(n)
  PROVE  Blocked' /\ panic' = "no"
  <1>1. Blocked /\ panic = "no" /\ IInv
    BY DEF AInv, SInv
  <1>2. current \in Procs /\ current \in AllProcs /\ SchedTyped /\ Typing
    BY <1>1, OnCPU DEF do_sleep
  <1>3. /\ state' = [state EXCEPT ![current] = "SLEEPING"]
        /\ wait_state' = [wait_state EXCEPT ![current] = "WT_TIMER"]
        /\ pc' = [pc EXCEPT ![current] = "sleep"]
        /\ panic' = "no"
    BY <1>1 DEF do_sleep, fall_asleep, Goto
  <1>4. \A p \in Procs : p # current =>
          pc'[p] = pc[p] /\ state'[p] = state[p] /\ wait_state'[p] = wait_state[p]
    BY <1>2, <1>3 DEF Typing, SchedTyped, AllProcs
  <1>5. state'[current] = "SLEEPING" /\ wait_state'[current] = "WT_TIMER"
    BY <1>2, <1>3 DEF SchedTyped
  <1> QED
    BY <1>1, <1>3, <1>4, <1>5 DEF Blocked, InDown

LEMMA AssertsStep ==
  ASSUME AInv, [Next]_vars
  PROVE  Blocked' /\ panic' = "no"
  <1>1. CASE UNCHANGED vars
    BY <1>1, BlockedKept DEF AInv, vars, schedVars, procVars, InDown
  <1> QED
    BY <1>1, KernelSafe, UpSafe, KillSafe, ClockSafe, DownSafe, SleepSafe DEF Next, Handler

(* No assertion of wakeup_proc, RR_enqueue, up(), down() or run_timer_list *)
(* fails, whatever the kernel threads, the user processes and the timer    *)
(* interrupt do, and however many semaphores there are.                    *)
THEOREM NoAssertFails == Spec => []AssertsHold
  <1>1. Init => AInv
    <2>1. Init => panic = "no" /\ \A p \in Procs : wait_state[p] = "0" /\ state[p] = "RUNNABLE"
      BY DEF Init, SchedInit, AllProcs
    <2> QED
      BY <2>1, SleepInit, AlarmInit DEF AInv, Blocked
  <1>2. AInv /\ [Next]_vars => AInv'
    BY SleepInductive, AlarmStep, AssertsStep DEF AInv
  <1>3. AInv => AssertsHold
    BY DEF AInv, AssertsHold
  <1> QED
    BY <1>1, <1>2, <1>3, PTL DEF Spec
=============================================================================
