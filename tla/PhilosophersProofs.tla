------------------------- MODULE PhilosophersProofs -------------------------
(***************************************************************************)
(* Two neighbours never eat at the same time, the forks go with the        *)
(* semaphores, whoever holds the mutex has the CPU, so that nobody ever    *)
(* waits for it, and when it is free no philosopher is hungry that could   *)
(* eat: for every number of philosophers, of meals and of user processes   *)
(* that kill them.                                                         *)
(***************************************************************************)
EXTENDS Philosophers, SemaphoreProofs

Locs ==
  {"loop", "exit", "dead", "take", "hungry", "take_unlock", "take_forks", "eat", "put",
   "put_left", "put_right", "put_unlock", "down", "down_ret", "sleep", "sleep_ret"}

(* The philosopher is inside down(), or inside do_sleep(). *)
InDown(i) == pc[i] \in {"down", "down_ret"}
InSleep(i) == pc[i] \in {"sleep", "sleep_ret"}

(* Where it is in its own code, whatever it waits for. *)
Place(i) == IF ret[i] = "none" THEN pc[i] ELSE ret[i]

(* A philosopher on the CPU is RUNNABLE, unless it is about to call        *)
(* schedule(): nobody else takes the CPU from it or puts it to sleep.      *)
Scheduling ==
  /\ SchedTyped /\ QueueOK
  /\ current \in Phils =>
       pc[current] \in {"down", "sleep", "exit"} \/ state[current] = "RUNNABLE"

Typing ==
  /\ value \in [Sems -> Nat]
  /\ wait_queue \in [Sems -> Seq(Phils)]
  /\ wakeup_flags \in [AllProcs -> {"0", "WT_INTERRUPTED", "WT_KSEM"}]
  /\ state_sema \in [Phils -> {"THINKING", "HUNGRY", "EATING"}]
  /\ pc \in [AllProcs -> Locs \cup {"user", "trap_exit", "cpu_idle"}]
  /\ wanted \in [AllProcs -> Sems]
  /\ ret \in [AllProcs -> Locs \cup {"none"}]

(* Only philosopher i ever waits for its own semaphore. *)
Located ==
  \A i \in Phils :
    /\ pc[i] \in Locs
    /\ InDown(i) => \/ wanted[i] = mutex /\ ret[i] \in {"hungry", "put_left"}
                    \/ wanted[i] = i /\ ret[i] = "eat"
    /\ InSleep(i) => wanted[i] = mutex /\ ret[i] \in {"take", "put"}
    /\ ~InDown(i) /\ ~InSleep(i) => wanted[i] = mutex /\ ret[i] = "none"

(* A philosopher in down() sleeps until up() has marked its wait_t, and is *)
(* in the queue of the semaphore it wants only before that.                *)
Waiting ==
  \A i \in Phils : InDown(i) =>
    /\ wakeup_flags[i] \in {"WT_INTERRUPTED", "WT_KSEM"}
    /\ wakeup_flags[i] = "WT_INTERRUPTED" => state[i] = "SLEEPING" /\ wait_state[i] = "WT_KSEM"

Queued ==
  \A s \in Sems :
    /\ \A k \in 1..Len(wait_queue[s]) :
         /\ InDown(wait_queue[s][k])
         /\ wanted[wait_queue[s][k]] = s
         /\ wakeup_flags[wait_queue[s][k]] = "WT_INTERRUPTED"
    /\ \A j, k \in 1..Len(wait_queue[s]) : wait_queue[s][j] = wait_queue[s][k] => j = k

(* up() has given i the unit of its semaphore that it waits for. *)
Granted(i) == wanted[i] = i /\ wakeup_flags[i] = "WT_KSEM"

(* It has put its forks down, or has not asked for them yet. *)
Apart(i) == Place(i) \in {"loop", "exit", "dead", "take", "hungry", "put_right", "put_unlock"}

Forks ==
  /\ ForksGranted
  /\ \A i \in Phils : Eats(i) \/ Granted(i) => value[i] = 0
  /\ \A i \in Phils : Apart(i) => state_sema[i] = "THINKING"
  /\ \A i \in Phils : state_sema[i] = "EATING" => state_sema[RIGHT(i)] # "EATING"

IInv == Scheduling /\ Typing /\ Located /\ Waiting /\ Queued /\ Forks
-----------------------------------------------------------------------------
LEMMA Names ==
  /\ Phils \subseteq Procs /\ Procs \subseteq AllProcs /\ Users \subseteq Procs
  /\ Phils \subseteq Sems /\ mutex \in Sems /\ mutex \notin Phils
  /\ \A u \in Users : u \notin Phils
  /\ \A s \in Sems : s \in Phils \/ s = mutex
  BY PhilosophersAssumption DEF AllProcs

LEMMA Table ==
  \A i \in Phils :
    /\ LEFT(i) \in Phils /\ RIGHT(i) \in Phils
    /\ RIGHT(LEFT(i)) = i /\ LEFT(RIGHT(i)) = i
    /\ LEFT(i) # i /\ RIGHT(i) # i /\ RIGHT(i) # LEFT(i)
  <1>1. N \in Nat /\ N >= 3
    BY PhilosophersAssumption
  <1>2. ASSUME NEW i \in Phils
        PROVE  /\ LEFT(i) = (IF i = 0 THEN N - 1 ELSE i - 1)
               /\ RIGHT(i) = (IF i = N - 1 THEN 0 ELSE i + 1)
    <2>1. i \in Nat /\ i < N
      BY <1>1 DEF Phils
    <2>2. (i + 1) % N = IF i = N - 1 THEN 0 ELSE i + 1
      BY <1>1, <2>1
    <2>3. (i - 1 + N) % N = IF i = 0 THEN N - 1 ELSE i - 1
      BY <1>1, <2>1
    <2> QED
      BY <2>2, <2>3 DEF LEFT, RIGHT
  <1> HIDE DEF LEFT, RIGHT
  <1>3. \A i \in Phils : LEFT(i) \in Phils /\ RIGHT(i) \in Phils
    BY <1>1, <1>2 DEF Phils
  <1> QED
    BY <1>1, <1>2, <1>3 DEF Phils

(* Nothing that the forks depend on has changed. *)
LEMMA ForksSame ==
  ASSUME Forks, UNCHANGED state_sema,
         \A j \in Phils : /\ value'[j] = value[j]
                          /\ Eats(j)' <=> Eats(j)
                          /\ Granted(j)' <=> Granted(j)
                          /\ Apart(j)' => Apart(j)
  PROVE  Forks'
  <1>1. \A j \in Phils : (wanted'[j] = j /\ wakeup_flags'[j] = "WT_KSEM")
                         <=> (wanted[j] = j /\ wakeup_flags[j] = "WT_KSEM")
    BY DEF Granted
  <1>2. ForksGranted'
    BY <1>1 DEF Forks, ForksGranted
  <1> QED
    BY <1>2 DEF Forks

(* No process has gone into down(), come out of it or been marked. *)
LEMMA BlockedSame ==
  ASSUME IInv, UNCHANGED <<wait_queue, wakeup_flags, wanted>>,
         \A j \in Phils : InDown(j)' <=> InDown(j),
         \A j \in Phils : InDown(j) /\ wakeup_flags[j] = "WT_INTERRUPTED" =>
                             state'[j] = state[j] /\ wait_state'[j] = wait_state[j]
  PROVE  Waiting' /\ Queued'
  <1>1. Waiting'
    BY DEF IInv, Waiting
  <1>2. \A s \in Sems : \A k \in 1..Len(wait_queue[s]) : wait_queue[s][k] \in Phils
    BY EntryIn DEF IInv, Typing
  <1>3. Queued'
    BY <1>2 DEF IInv, Queued
  <1> QED
    BY <1>1, <1>3
-----------------------------------------------------------------------------
(* up(s), called by philosopher i from its own code. *)
LEMMA UpStep ==
  ASSUME IInv, NEW i \in Phils, i = current, ~InDown(i), ~InSleep(i), pc[i] # "exit",
         NEW s \in Sems, up(s),
         NEW loc \in Locs \ {"down", "down_ret", "sleep", "sleep_ret"}, Goto(i, loc),
         UNCHANGED <<wanted, ret>>, state_sema' \in [Phils -> {"THINKING", "HUNGRY", "EATING"}]
  PROVE  /\ Scheduling' /\ Typing' /\ Located' /\ Waiting' /\ Queued'
         /\ \A j \in Phils \ {s} : value'[j] = value[j] /\ (Granted(j)' <=> Granted(j))
         /\ s \in Phils => \/ value'[s] = value[s] + 1 /\ (Granted(s)' <=> Granted(s))
                           \/ value'[s] = value[s] /\ Granted(s)'
  <1>1. /\ SchedTyped /\ QueueOK /\ Typing
        /\ state[i] = "RUNNABLE" /\ i \in AllProcs /\ s \in DOMAIN value
    BY Names DEF IInv, Scheduling, InDown, InSleep, Typing
  <1>2. pc' = [pc EXCEPT ![i] = loc]
    BY DEF Goto
  <1>3. Located'
    BY <1>1, <1>2 DEF IInv, Located, Typing, InDown, InSleep
  <1>4. /\ \A j \in Phils : InDown(j)' <=> InDown(j)
        /\ pc' \in [AllProcs -> Locs \cup {"user", "trap_exit", "cpu_idle"}]
    BY <1>1, <1>2 DEF Typing, InDown
  <1>5. CASE wait_queue[s] = <<>>
    <2>1. /\ value' = [value EXCEPT ![s] = @ + 1]
          /\ UNCHANGED <<schedVars, wait_queue, wakeup_flags>>
      BY <1>5 DEF up
    <2>2. Scheduling'
      <3>1. SchedTyped' /\ QueueOK'
        BY <1>1, <2>1 DEF SchedTyped, QueueOK, TimersTyped, schedVars
      <3>2. state'[current'] = "RUNNABLE"
        BY <1>1, <2>1 DEF schedVars
      <3> QED
        BY <3>1, <3>2 DEF Scheduling
    <2>3. Typing'
      BY <1>1, <1>4, <2>1 DEF Typing
    <2>4. Waiting' /\ Queued'
      BY <1>4, <2>1, BlockedSame DEF schedVars
    <2> QED
      BY <1>1, <1>3, <2>1, <2>2, <2>3, <2>4 DEF Granted, Typing
  <1>6. CASE wait_queue[s] # <<>>
    <2> DEFINE p == wait_queue[s][1]
               q == wait_queue[s]
    <2>1. /\ q \in Seq(Phils) /\ 1 \in 1..Len(q) /\ p \in Phils /\ Len(q) \in Nat
      BY <1>1, <1>6, FirstEntry DEF Typing
    <2>2. InDown(p) /\ wanted[p] = s /\ wakeup_flags[p] = "WT_INTERRUPTED"
      BY <2>1 DEF IInv, Queued
    <2>3. state[p] = "SLEEPING" /\ wait_state[p] = "WT_KSEM"
      BY <2>1, <2>2 DEF IInv, Waiting
    <2>4. /\ wakeup_proc(p)
          /\ wait_queue' = [wait_queue EXCEPT ![s] = RemoveAt(q, 1)]
          /\ wakeup_flags' = [wakeup_flags EXCEPT ![p] = "WT_KSEM"]
          /\ UNCHANGED <<current, timer_list, value>>
      BY <1>6, <2>3 DEF up, wait_queue_first
    <2>5. TimersTyped'
      BY <1>1, <2>4 DEF SchedTyped, TimersTyped
    <2>6. /\ SchedTyped' /\ QueueOK'
          /\ state' = [state EXCEPT ![p] = "RUNNABLE"]
          /\ wait_state' = [wait_state EXCEPT ![p] = "0"]
      BY <1>1, <2>1, <2>3, <2>4, <2>5, WakeEffect, Names
    <2> HIDE DEF p, q
    <2>7. Scheduling'
      BY <1>1, <2>4, <2>6 DEF Scheduling, SchedTyped
    <2>8. /\ RemoveAt(q, 1) \in Seq(Phils) /\ Len(RemoveAt(q, 1)) = Len(q) - 1
          /\ \A k \in 1..(Len(q) - 1) : RemoveAt(q, 1)[k] = q[k + 1]
      BY <2>1, RemoveAtEntries
    <2>9. Typing'
      BY <1>1, <1>4, <2>1, <2>4, <2>8, Names DEF Typing
    <2>10. Waiting'
      BY <1>1, <1>4, <2>1, <2>4, <2>6, Names DEF IInv, Waiting, Typing, SchedTyped
    <2>11. ASSUME NEW t \in Sems, NEW k \in 1..Len(wait_queue'[t])
           PROVE  \E m \in 1..Len(wait_queue[t]) :
                    wait_queue'[t][k] = wait_queue[t][m] /\ m = (IF t = s THEN k + 1 ELSE k)
      <3>1. t # s => wait_queue'[t] = wait_queue[t]
        BY <1>1, <2>4 DEF Typing
      <3>2. t = s => wait_queue'[t] = RemoveAt(q, 1)
        BY <1>1, <2>4 DEF Typing
      <3>3. CASE t = s
        <4>1. k \in 1..(Len(q) - 1)
          BY <2>8, <3>2, <3>3
        <4>2. k + 1 \in 1..Len(q) /\ RemoveAt(q, 1)[k] = q[k + 1]
          BY <2>1, <2>8, <4>1
        <4> QED
          BY <3>2, <3>3, <4>2 DEF q
      <3>4. CASE t # s
        BY <3>1, <3>4
      <3> QED
        BY <3>3, <3>4
    <2>12. \A t \in Sems : \A m \in 1..Len(wait_queue[t]) :
             wait_queue[t][m] = p => t = s /\ m = 1
      BY <2>1, <2>2 DEF IInv, Queued, p, q
    <2>13. Queued'
      <3>1. ASSUME NEW t \in Sems, NEW k \in 1..Len(wait_queue'[t])
            PROVE  /\ pc'[wait_queue'[t][k]] \in {"down", "down_ret"}
                   /\ wanted'[wait_queue'[t][k]] = t
                   /\ wakeup_flags'[wait_queue'[t][k]] = "WT_INTERRUPTED"
        <4>1. PICK m \in 1..Len(wait_queue[t]) :
                wait_queue'[t][k] = wait_queue[t][m] /\ m = (IF t = s THEN k + 1 ELSE k)
          BY <2>11
        <4>2. k \in Nat \ {0} /\ wait_queue[t][m] \in Phils
          BY <1>1, <2>9, EntryIn DEF Typing
        <4>3. wait_queue[t][m] # p
          BY <2>12, <4>1, <4>2
        <4>4. /\ InDown(wait_queue[t][m]) /\ wanted[wait_queue[t][m]] = t
              /\ wakeup_flags[wait_queue[t][m]] = "WT_INTERRUPTED"
          BY <4>1 DEF IInv, Queued
        <4>5. PICK r \in Phils : r = wait_queue[t][m]
          BY <4>2
        <4>6. r \in AllProcs /\ r # p /\ wait_queue'[t][k] = r
          BY <4>1, <4>3, <4>5, Names
        <4>7. InDown(r)' /\ wanted'[r] = t
          BY <1>4, <4>4, <4>5
        <4>8. wakeup_flags'[r] = "WT_INTERRUPTED"
          BY <1>1, <2>4, <4>4, <4>5, <4>6 DEF Typing
        <4> QED
          BY <4>6, <4>7, <4>8 DEF InDown
      <3>2. ASSUME NEW t \in Sems, NEW j \in 1..Len(wait_queue'[t]), NEW k \in 1..Len(wait_queue'[t]),
                   wait_queue'[t][j] = wait_queue'[t][k]
            PROVE  j = k
        <4>1. PICK m \in 1..Len(wait_queue[t]) :
                wait_queue'[t][j] = wait_queue[t][m] /\ m = (IF t = s THEN j + 1 ELSE j)
          BY <2>11
        <4>2. PICK n \in 1..Len(wait_queue[t]) :
                wait_queue'[t][k] = wait_queue[t][n] /\ n = (IF t = s THEN k + 1 ELSE k)
          BY <2>11
        <4>3. wait_queue[t][m] = wait_queue[t][n]
          BY <3>2, <4>1, <4>2
        <4>4. m = n
          BY <4>3 DEF IInv, Queued
        <4> QED
          BY <4>1, <4>2, <4>4
      <3>3. ASSUME NEW t \in Sems
            PROVE  /\ \A k \in 1..Len(wait_queue'[t]) :
                        /\ pc'[wait_queue'[t][k]] \in {"down", "down_ret"}
                        /\ wanted'[wait_queue'[t][k]] = t
                        /\ wakeup_flags'[wait_queue'[t][k]] = "WT_INTERRUPTED"
                   /\ \A j, k \in 1..Len(wait_queue'[t]) :
                        wait_queue'[t][j] = wait_queue'[t][k] => j = k
        BY <3>1, <3>2
      <3> QED
        BY <3>3 DEF Queued, InDown
    <2>14. \A j \in Phils : j # s => (Granted(j)' <=> Granted(j))
      BY <1>1, <2>1, <2>2, <2>4, Names DEF Granted, Typing
    <2>15. s \in Phils => Granted(s)'
      <3>1. s \in Phils => p = s
        BY <2>1, <2>2, Names DEF IInv, Located
      <3> QED
        BY <1>1, <2>2, <2>4, <3>1, Names DEF Granted, Typing
    <2> QED
      BY <1>3, <2>4, <2>7, <2>9, <2>10, <2>13, <2>14, <2>15
  <1> QED
    BY <1>5, <1>6

(* A call of schedule(), at the end of down(), do_sleep() or do_exit(). *)
LEMMA ScheduleStep ==
  ASSUME IInv, NEW i \in Phils, schedule, NEW to, Goto(i, to),
         \/ pc[i] = "down" /\ to = "down_ret"
         \/ pc[i] = "sleep" /\ to = "sleep_ret"
         \/ pc[i] = "exit" /\ to = "dead",
         UNCHANGED <<semVars, tableVars, wanted, ret>>
  PROVE  IInv'
  <1>1. /\ SchedTyped /\ QueueOK /\ Typing /\ i \in AllProcs
        /\ pc' = [pc EXCEPT ![i] = to]
        /\ UNCHANGED <<value, wait_queue, wakeup_flags, state_sema>>
    BY Names DEF IInv, Scheduling, Goto, semVars, tableVars
  <1>2. /\ SchedTyped' /\ QueueOK' /\ UNCHANGED <<state, wait_state>>
        /\ current' \in Procs => state[current'] = "RUNNABLE"
    BY <1>1, ScheduleEffect
  <1>3. Scheduling'
    BY <1>2, Names DEF Scheduling
  <1>4. Typing'
    BY <1>1 DEF Typing, Locs
  <1>5. Located'
    BY <1>1 DEF IInv, Located, Typing, InDown, InSleep, Locs
  <1>6. \A j \in Phils : InDown(j)' <=> InDown(j)
    BY <1>1 DEF Typing, InDown
  <1>7. Waiting' /\ Queued'
    BY <1>1, <1>2, <1>6, BlockedSame
  <1>8. \A j \in Phils : (Eats(j)' <=> Eats(j)) /\ (Apart(j)' => Apart(j))
    BY <1>1 DEF IInv, Located, Typing, InDown, InSleep, Eats, Apart, Place
  <1>9. Forks'
    BY <1>1, <1>8, ForksSame DEF IInv, Granted
  <1> QED
    BY <1>3, <1>4, <1>5, <1>7, <1>9 DEF IInv

(* A call of do_sleep(), up to its call of schedule(). *)
LEMMA SleepStep ==
  ASSUME IInv, NEW i \in Phils, i = current, NEW next,
         \/ pc[i] = "loop" /\ next = "take"
         \/ pc[i] = "eat" /\ next = "put",
         do_sleep(i, next)
  PROVE  IInv'
  <1>1. /\ SchedTyped /\ QueueOK /\ Typing /\ i \in AllProcs /\ i \in Procs
        /\ pc' = [pc EXCEPT ![i] = "sleep"] /\ ret' = [ret EXCEPT ![i] = next]
        /\ state' = [state EXCEPT ![i] = "SLEEPING"]
        /\ wait_state' = [wait_state EXCEPT ![i] = "WT_TIMER"]
        /\ UNCHANGED <<run_list, current, value, wait_queue, wakeup_flags, state_sema, wanted>>
    BY Names DEF IInv, Scheduling, Goto, semVars, do_sleep, fall_asleep
  <1>2. TimersTyped'
    BY <1>1, AddTimerTyped DEF do_sleep, SchedTyped
  <1>3. SchedTyped'
    BY <1>1, <1>2 DEF SchedTyped
  <1>4. QueueOK'
    BY <1>1 DEF QueueOK
  <1>5. Scheduling'
    BY <1>1, <1>3, <1>4 DEF Scheduling, Typing
  <1>6. Typing'
    BY <1>1 DEF Typing, Locs
  <1>7. Located'
    BY <1>1 DEF IInv, Located, Typing, InDown, InSleep, Locs
  <1>8. \A j \in Phils : InDown(j)' <=> InDown(j)
    BY <1>1 DEF Typing, InDown
  <1>9. ASSUME NEW j \in Phils, InDown(j)
        PROVE  state'[j] = state[j] /\ wait_state'[j] = wait_state[j]
    BY <1>1, <1>9, Names DEF InDown, SchedTyped
  <1>10. Waiting' /\ Queued'
    BY <1>1, <1>8, <1>9, BlockedSame
  <1>11. \A j \in Phils : (Eats(j)' <=> Eats(j)) /\ (Apart(j)' => Apart(j))
    BY <1>1 DEF IInv, Located, Typing, InDown, InSleep, Eats, Apart, Place
  <1>12. Forks'
    BY <1>1, <1>11, ForksSame DEF IInv, Granted
  <1> QED
    BY <1>5, <1>6, <1>7, <1>10, <1>12 DEF IInv

(* The return from do_sleep(), that deletes the timer. *)
LEMMA SleepRetStep ==
  ASSUME IInv, NEW i \in Phils, sleep_ret(i)
  PROVE  IInv'
  <1>1. /\ SchedTyped /\ QueueOK /\ Typing /\ i \in AllProcs
        /\ i = current /\ pc[i] = "sleep_ret" /\ ret[i] \in {"take", "put"} /\ wanted[i] = mutex
        /\ pc' = [pc EXCEPT ![i] = ret[i]] /\ ret' = [ret EXCEPT ![i] = "none"]
        /\ UNCHANGED <<state, wait_state, run_list, current, value, wait_queue, wakeup_flags,
                      state_sema, wanted>>
    BY Names DEF IInv, Scheduling, Located, InSleep, Goto, At, Running, semVars, tableVars, sleep_ret
  <1>2. TimersTyped'
    BY <1>1, DelTimerTyped DEF sleep_ret, SchedTyped
  <1>3. SchedTyped' /\ QueueOK'
    BY <1>1, <1>2 DEF SchedTyped, QueueOK
  <1>4. Scheduling'
    BY <1>1, <1>3 DEF Scheduling, IInv
  <1>5. Typing'
    BY <1>1 DEF Typing, Locs
  <1>6. Located'
    BY <1>1 DEF IInv, Located, Typing, InDown, InSleep, Locs
  <1>7. \A j \in Phils : InDown(j)' <=> InDown(j)
    BY <1>1 DEF Typing, InDown
  <1>8. Waiting' /\ Queued'
    BY <1>1, <1>7, BlockedSame
  <1>9. \A j \in Phils : (Eats(j)' <=> Eats(j)) /\ (Apart(j)' => Apart(j))
    BY <1>1 DEF IInv, Located, Typing, InDown, InSleep, Eats, Apart, Place
  <1>10. Forks'
    BY <1>1, <1>9, ForksSame DEF IInv, Granted
  <1> QED
    BY <1>4, <1>5, <1>6, <1>8, <1>10 DEF IInv

(* The end of a philosopher, up to its call of schedule(). *)
LEMMA QuitStep ==
  ASSUME IInv, NEW i \in Phils, quit(i)
  PROVE  IInv'
  <1>1. /\ SchedTyped /\ QueueOK /\ Typing /\ i \in AllProcs
        /\ i = current /\ pc[i] = "loop"
        /\ pc' = [pc EXCEPT ![i] = "exit"] /\ state' = [state EXCEPT ![i] = "ZOMBIE"]
        /\ UNCHANGED <<wait_state, run_list, current, timer_list, value, wait_queue, wakeup_flags,
                      state_sema, wanted, ret>>
    BY Names DEF IInv, Scheduling, Goto, At, Running, semVars, tableVars, quit
  <1>2. SchedTyped'
    BY <1>1 DEF SchedTyped, TimersTyped
  <1>3. QueueOK'
    BY <1>1 DEF QueueOK
  <1>4. Scheduling'
    BY <1>1, <1>2, <1>3 DEF Scheduling, Typing
  <1>5. Typing'
    BY <1>1 DEF Typing, Locs
  <1>6. Located'
    BY <1>1 DEF IInv, Located, Typing, InDown, InSleep, Locs
  <1>7. \A j \in Phils : InDown(j)' <=> InDown(j)
    BY <1>1 DEF Typing, InDown
  <1>8. ASSUME NEW j \in Phils, InDown(j)
        PROVE  state'[j] = state[j] /\ wait_state'[j] = wait_state[j]
    BY <1>1, <1>8, Names DEF InDown, SchedTyped
  <1>9. Waiting' /\ Queued'
    BY <1>1, <1>7, <1>8, BlockedSame
  <1>10. \A j \in Phils : (Eats(j)' <=> Eats(j)) /\ (Apart(j)' => Apart(j))
    BY <1>1 DEF IInv, Located, Typing, InDown, InSleep, Eats, Apart, Place
  <1>11. Forks'
    BY <1>1, <1>10, ForksSame DEF IInv, Granted
  <1> QED
    BY <1>4, <1>5, <1>6, <1>9, <1>11 DEF IInv

(* A call of down(s), up to its call of schedule() if it has to wait. *)
LEMMA DownStep ==
  ASSUME IInv, NEW i \in Phils, NEW loc, NEW s \in Sems, NEW next, Down(i, loc, s, next),
         \/ loc = "take" /\ s = mutex /\ next = "hungry"
         \/ loc = "put" /\ s = mutex /\ next = "put_left"
         \/ loc = "take_forks" /\ s = i /\ next = "eat"
  PROVE  IInv'
  <1>1. /\ SchedTyped /\ QueueOK /\ Typing /\ i \in AllProcs
        /\ i = current /\ pc[i] = loc /\ state_sema' = state_sema
        /\ wanted[i] = mutex /\ ret[i] = "none" /\ state[i] = "RUNNABLE" /\ value[s] \in Nat
    BY Names DEF IInv, Scheduling, Located, InDown, InSleep, At, Running, tableVars, Down, Typing
  <1>2. CASE /\ down_takes(s) /\ Goto(i, next) /\ UNCHANGED <<wanted, ret>>
    <2>1. /\ pc' = [pc EXCEPT ![i] = next] /\ value' = [value EXCEPT ![s] = @ - 1]
          /\ value[s] > 0
          /\ UNCHANGED <<state, wait_state, run_list, current, timer_list, wait_queue,
                        wakeup_flags, wanted, ret>>
      BY <1>2 DEF down_takes, HasUnit, Goto, schedVars
    <2>2. Scheduling'
      BY <1>1, <2>1 DEF Scheduling, SchedTyped, TimersTyped, QueueOK
    <2>3. Typing'
      BY <1>1, <2>1 DEF Typing, Locs
    <2>4. Located'
      BY <1>1, <2>1 DEF IInv, Located, Typing, InDown, InSleep, Locs
    <2>5. \A j \in Phils : InDown(j)' <=> InDown(j)
      BY <1>1, <2>1 DEF Typing, InDown
    <2>6. Waiting' /\ Queued'
      BY <1>1, <2>1, <2>5, BlockedSame
    <2>7. Forks'
      <3>1. CASE s = mutex
        <4>1. \A j \in Phils : value'[j] = value[j]
          BY <1>1, <2>1, <3>1, Names DEF Typing
        <4>2. \A j \in Phils : (Eats(j)' <=> Eats(j)) /\ (Apart(j)' => Apart(j))
          BY <1>1, <2>1, <3>1, Names DEF IInv, Located, Typing, InDown, InSleep, Eats, Apart, Place
        <4> QED
          BY <1>1, <2>1, <4>1, <4>2, ForksSame DEF IInv, Granted
      <3>2. CASE s = i
        <4>1. pc[i] = "take_forks" /\ next = "eat"
          BY <1>1, <3>2, Names
        <4>2. value[i] = 1 /\ value'[i] = 0 /\ Eats(i)' /\ ~Granted(i)'
          BY <1>1, <2>1, <3>2, <4>1, Names DEF IInv, Forks, ForksGranted, Typing, Eats, Granted
        <4>3. \A j \in Phils \ {i} : value'[j] = value[j] /\ pc'[j] = pc[j]
          BY <1>1, <2>1, <3>2, Names DEF Typing
        <4>4. ~Apart(i)'
          BY <1>1, <2>1, <4>1 DEF Apart, Place, Typing
        <4>5. state_sema[i] = "EATING"
          BY <4>2 DEF IInv, Forks, ForksGranted
        <4>6. ForksGranted'
          BY <1>1, <2>1, <4>2, <4>3, <4>5 DEF IInv, Forks, ForksGranted, Eats
        <4>7. \A j \in Phils : Eats(j)' \/ Granted(j)' => value'[j] = 0
          BY <2>1, <4>2, <4>3 DEF IInv, Forks, Eats, Granted
        <4>8. \A j \in Phils : Apart(j)' => state_sema'[j] = "THINKING"
          BY <1>1, <2>1, <4>3, <4>4 DEF IInv, Forks, Apart, Place
        <4> QED
          BY <1>1, <4>6, <4>7, <4>8 DEF IInv, Forks
      <3> QED
        BY <3>1, <3>2
    <2> QED
      BY <2>2, <2>3, <2>4, <2>6, <2>7 DEF IInv
  <1>3. CASE /\ down_waits(s) /\ Goto(i, "down")
             /\ wanted' = [wanted EXCEPT ![i] = s] /\ ret' = [ret EXCEPT ![i] = next]
    <2>1. /\ pc' = [pc EXCEPT ![i] = "down"]
          /\ wanted' = [wanted EXCEPT ![i] = s] /\ ret' = [ret EXCEPT ![i] = next]
          /\ state' = [state EXCEPT ![i] = "SLEEPING"]
          /\ wait_state' = [wait_state EXCEPT ![i] = "WT_KSEM"]
          /\ wakeup_flags' = [wakeup_flags EXCEPT ![i] = "WT_INTERRUPTED"]
          /\ wait_queue' = [wait_queue EXCEPT ![s] = Append(@, i)]
          /\ value[s] = 0
          /\ UNCHANGED <<run_list, current, timer_list, value>>
      BY <1>1, <1>3 DEF down_waits, HasUnit, Goto, fall_asleep
    <2>2. SchedTyped'
      BY <1>1, <2>1 DEF SchedTyped, TimersTyped
    <2>3. QueueOK'
      BY <1>1, <2>1 DEF QueueOK
    <2>4. Scheduling'
      BY <1>1, <2>1, <2>2, <2>3 DEF Scheduling, Typing
    <2> DEFINE q == wait_queue[s]
               new == Append(q, i)
    <2>5. q \in Seq(Phils) /\ Len(q) \in Nat
      BY <1>1 DEF Typing
    <2>6. /\ new \in Seq(Phils) /\ Len(new) = Len(q) + 1 /\ new[Len(q) + 1] = i
          /\ \A k \in 1..Len(q) : new[k] = q[k]
      BY <2>5
    <2>7. /\ wait_queue'[s] = new
          /\ \A t \in Sems \ {s} : wait_queue'[t] = wait_queue[t]
      BY <1>1, <2>1 DEF Typing
    <2>8. \A k \in 1..Len(q) : q[k] # i
      BY <1>1, <2>5 DEF IInv, Queued, InDown
    <2> HIDE DEF q, new
    <2>9. Typing'
      BY <1>1, <2>1, <2>6, <2>7 DEF Typing, Locs
    <2>10. Located'
      BY <1>1, <2>1 DEF IInv, Located, Typing, InDown, InSleep, Locs
    <2>11. Waiting'
      BY <1>1, <2>1, Names DEF IInv, Waiting, Typing, InDown, SchedTyped
    <2>12. ASSUME NEW j \in Phils, InDown(j)
           PROVE  j # i /\ pc'[j] = pc[j] /\ wanted'[j] = wanted[j] /\ wakeup_flags'[j] = wakeup_flags[j]
      BY <1>1, <2>1, <2>12, Names DEF Typing, InDown
    <2>13. ASSUME NEW t \in Sems
           PROVE  /\ \A k \in 1..Len(wait_queue'[t]) :
                       /\ pc'[wait_queue'[t][k]] \in {"down", "down_ret"}
                       /\ wanted'[wait_queue'[t][k]] = t
                       /\ wakeup_flags'[wait_queue'[t][k]] = "WT_INTERRUPTED"
                  /\ \A j, k \in 1..Len(wait_queue'[t]) :
                       wait_queue'[t][j] = wait_queue'[t][k] => j = k
      <3>1. \A k \in 1..Len(wait_queue[t]) :
              /\ wait_queue[t][k] \in Phils /\ InDown(wait_queue[t][k])
              /\ wanted[wait_queue[t][k]] = t
              /\ wakeup_flags[wait_queue[t][k]] = "WT_INTERRUPTED"
        BY <1>1, EntryIn DEF IInv, Queued, Typing
      <3>2. \A k \in 1..Len(wait_queue[t]) :
              /\ pc'[wait_queue[t][k]] \in {"down", "down_ret"}
              /\ wanted'[wait_queue[t][k]] = t
              /\ wakeup_flags'[wait_queue[t][k]] = "WT_INTERRUPTED"
        BY <2>12, <3>1 DEF InDown
      <3>3. \A j, k \in 1..Len(wait_queue[t]) : wait_queue[t][j] = wait_queue[t][k] => j = k
        BY DEF IInv, Queued
      <3>4. pc'[i] = "down" /\ wanted'[i] = s /\ wakeup_flags'[i] = "WT_INTERRUPTED"
        BY <1>1, <2>1 DEF Typing
      <3>5. CASE t = s
        <4>1. \A k \in 1..Len(new) : k = Len(q) + 1 \/ k \in 1..Len(q)
          BY <2>5, <2>6
        <4>2. ASSUME NEW k \in 1..Len(new)
              PROVE  /\ pc'[new[k]] \in {"down", "down_ret"} /\ wanted'[new[k]] = s
                     /\ wakeup_flags'[new[k]] = "WT_INTERRUPTED"
          BY <2>6, <3>2, <3>4, <3>5, <4>1 DEF q
        <4>3. \A j, k \in 1..Len(q) : q[j] = q[k] => j = k
          BY <3>3, <3>5 DEF q
        <4>4. ASSUME NEW j \in 1..Len(new), NEW k \in 1..Len(new), new[j] = new[k] PROVE j = k
          BY <2>6, <2>8, <4>1, <4>3, <4>4
        <4> QED
          BY <2>7, <3>5, <4>2, <4>4
      <3>6. CASE t # s
        BY <2>7, <3>2, <3>3, <3>6
      <3> QED
        BY <3>5, <3>6
    <2>14. Queued'
      BY <2>13 DEF Queued, InDown
    <2>15. ASSUME NEW j \in Phils PROVE (Eats(j)' <=> Eats(j)) /\ (Apart(j)' => Apart(j))
      <3>1. CASE j # i
        BY <1>1, <2>1, <3>1 DEF Eats, Apart, Place, Typing
      <3>2. CASE j = i
        <4>1. pc'[i] = "down" /\ ret'[i] = next
          BY <1>1, <2>1 DEF Typing
        <4> QED
          BY <1>1, <3>2, <4>1 DEF Eats, Apart, Place
      <3> QED
        BY <3>1, <3>2
    <2>16. \A j \in Phils : Granted(j)' <=> Granted(j)
      BY <1>1, <2>1, Names DEF Granted, Typing
    <2>17. Forks'
      BY <1>1, <2>1, <2>15, <2>16, ForksSame DEF IInv
    <2> QED
      BY <2>4, <2>9, <2>10, <2>11, <2>14, <2>17 DEF IInv
  <1> QED
    BY <1>2, <1>3 DEF Down

(* The return from down(): i was marked by up(), since it is on the CPU. *)
LEMMA DownRetStep ==
  ASSUME IInv, NEW i \in Phils, down_ret(i)
  PROVE  IInv'
  <1>1. /\ SchedTyped /\ QueueOK /\ Typing /\ i \in AllProcs
        /\ i = current /\ pc[i] = "down_ret" /\ state[i] = "RUNNABLE" /\ InDown(i)
        /\ \/ wanted[i] = mutex /\ ret[i] \in {"hungry", "put_left"}
           \/ wanted[i] = i /\ ret[i] = "eat"
        /\ pc' = [pc EXCEPT ![i] = ret[i]] /\ ret' = [ret EXCEPT ![i] = "none"]
        /\ wanted' = [wanted EXCEPT ![i] = mutex]
        /\ wakeup_flags' = [wakeup_flags EXCEPT ![i] = "0"]
        /\ UNCHANGED <<state, wait_state, run_list, current, timer_list, value, state_sema>>
    BY Names DEF IInv, Scheduling, Located, InDown, Goto, At, Running, tableVars, down_ret, down_returns
  <1>2. wakeup_flags[i] = "WT_KSEM"
    BY <1>1 DEF IInv, Waiting
  <1>3. \A s \in Sems : \A k \in 1..Len(wait_queue[s]) : wait_queue[s][k] # i
    BY <1>2 DEF IInv, Queued
  <1>4. wait_queue' = wait_queue
    <2>1. wanted[i] \in Sems
      BY <1>1 DEF Typing
    <2>2. ~Contains(wait_queue[wanted[i]], i)
      BY <1>3, <2>1 DEF Contains
    <2> QED
      BY <1>1, <2>2 DEF down_ret, down_returns, QueueDel
  <1>5. Scheduling'
    BY <1>1 DEF Scheduling, SchedTyped, TimersTyped, QueueOK
  <1>6. Typing'
    BY <1>1, <1>4, Names DEF Typing, Locs
  <1>7. Located'
    BY <1>1 DEF IInv, Located, Typing, InDown, InSleep, Locs
  <1>8. ASSUME NEW j \in Phils, j # i
        PROVE  /\ pc'[j] = pc[j] /\ wanted'[j] = wanted[j] /\ wakeup_flags'[j] = wakeup_flags[j]
               /\ ret'[j] = ret[j]
    BY <1>1, <1>8 DEF Typing
  <1>9. Waiting'
    <2>1. ~InDown(i)'
      BY <1>1 DEF InDown, Typing
    <2> QED
      BY <1>1, <1>8, <2>1 DEF IInv, Waiting, InDown
  <1>10. Queued'
    <2>1. \A t \in Sems : \A k \in 1..Len(wait_queue[t]) : wait_queue[t][k] \in Phils
      BY <1>1, EntryIn DEF Typing
    <2>2. \A t \in Sems : \A k \in 1..Len(wait_queue[t]) :
            /\ pc'[wait_queue[t][k]] \in {"down", "down_ret"}
            /\ wanted'[wait_queue[t][k]] = t
            /\ wakeup_flags'[wait_queue[t][k]] = "WT_INTERRUPTED"
      BY <1>3, <1>8, <2>1 DEF IInv, Queued, InDown
    <2> QED
      BY <1>4, <2>2 DEF IInv, Queued, InDown
  <1>11. Forks'
    <2>1. ~Granted(i)' /\ pc'[i] = ret[i] /\ ret'[i] = "none" /\ (Apart(i)' => Apart(i))
      BY <1>1, Names DEF Granted, Apart, Place, Typing
    <2>2. Eats(i)' <=> (Eats(i) \/ Granted(i))
      BY <1>1, <1>2, <2>1, Names DEF Eats, Granted
    <2>3. \A j \in Phils \ {i} : (Eats(j)' <=> Eats(j)) /\ (Granted(j)' <=> Granted(j)) /\ (Apart(j)' => Apart(j))
      BY <1>8 DEF Eats, Granted, Apart, Place
    <2>4. \A j \in Phils : (Eats(j)' \/ Granted(j)') <=> (Eats(j) \/ Granted(j))
      BY <2>1, <2>2, <2>3
    <2>5. \A j \in Phils :
            /\ (wanted'[j] = j /\ wakeup_flags'[j] = "WT_KSEM") <=> Granted(j)'
            /\ (wanted[j] = j /\ wakeup_flags[j] = "WT_KSEM") <=> Granted(j)
      BY DEF Granted
    <2>6. ForksGranted'
      BY <1>1, <2>4, <2>5 DEF IInv, Forks, ForksGranted
    <2> QED
      BY <1>1, <2>1, <2>3, <2>4, <2>6 DEF IInv, Forks
  <1> QED
    BY <1>5, <1>6, <1>7, <1>9, <1>10, <1>11 DEF IInv

(* A philosopher goes on in its own code and nothing else changes. *)
LEMMA OwnStep ==
  ASSUME IInv, NEW i \in Phils, i = current, ~InDown(i), ~InSleep(i), pc[i] # "exit",
         NEW loc \in Locs \ {"down", "down_ret", "sleep", "sleep_ret"}, Goto(i, loc),
         UNCHANGED <<schedVars, semVars, wanted, ret>>,
         state_sema' \in [Phils -> {"THINKING", "HUNGRY", "EATING"}]
  PROVE  Scheduling' /\ Typing' /\ Located' /\ Waiting' /\ Queued'
  <1>1. /\ SchedTyped /\ QueueOK /\ Typing /\ state[i] = "RUNNABLE" /\ i \in AllProcs
        /\ pc' = [pc EXCEPT ![i] = loc]
        /\ UNCHANGED <<state, wait_state, run_list, current, timer_list, value, wait_queue, wakeup_flags>>
    BY Names DEF IInv, Scheduling, InDown, InSleep, Goto, schedVars, semVars
  <1>2. Scheduling'
    BY <1>1 DEF Scheduling, SchedTyped, TimersTyped, QueueOK
  <1>3. Typing'
    BY <1>1 DEF Typing
  <1>4. Located'
    BY <1>1 DEF IInv, Located, Typing, InDown, InSleep
  <1>5. \A j \in Phils : InDown(j)' <=> InDown(j)
    BY <1>1 DEF Typing, InDown
  <1>6. Waiting' /\ Queued'
    BY <1>1, <1>5, BlockedSame
  <1> QED
    BY <1>2, <1>3, <1>4, <1>6

(* A call of up(mutex), after state_sema has been looked at. *)
LEMMA UnlockStep ==
  ASSUME IInv, NEW i \in Phils, i = current, NEW loc, Goto(i, loc), up(mutex),
         \/ pc[i] = "take_unlock" /\ loc = "take_forks"
         \/ pc[i] = "put_unlock" /\ loc = "loop",
         UNCHANGED <<tableVars, wanted, ret>>
  PROVE  IInv'
  <1>1. /\ ~InDown(i) /\ ~InSleep(i) /\ pc[i] # "exit" /\ i \in AllProcs /\ Typing /\ ret[i] = "none"
        /\ pc' = [pc EXCEPT ![i] = loc] /\ state_sema' = state_sema
        /\ loc \in Locs \ {"down", "down_ret", "sleep", "sleep_ret"}
    BY Names DEF IInv, Located, InDown, InSleep, Goto, tableVars, Locs
  <1>2. /\ Scheduling' /\ Typing' /\ Located' /\ Waiting' /\ Queued'
        /\ \A j \in Phils : value'[j] = value[j] /\ (Granted(j)' <=> Granted(j))
    <2>1. state_sema' \in [Phils -> {"THINKING", "HUNGRY", "EATING"}] /\ pc[i] # "exit"
      BY <1>1 DEF Typing
    <2>2. /\ Scheduling' /\ Typing' /\ Located' /\ Waiting' /\ Queued'
          /\ \A j \in Phils \ {mutex} : value'[j] = value[j] /\ (Granted(j)' <=> Granted(j))
      BY <1>1, <2>1, UpStep, Names
    <2> QED
      BY <2>2, Names
  <1>3. \A j \in Phils : (Eats(j)' <=> Eats(j)) /\ (Apart(j)' => Apart(j))
    BY <1>1 DEF Eats, Apart, Place, Typing
  <1>4. Forks'
    BY <1>1, <1>2, <1>3, ForksSame DEF IInv
  <1> QED
    BY <1>2, <1>4 DEF IInv

(* phi_test_sema(j) in the step that has made st the state_sema: whoever   *)
(* becomes EATING is given one unit of its semaphore.                      *)
LEMMA TestStep ==
  ASSUME IInv, NEW i \in Phils, i = current, NEW loc, NEW j, NEW st,
         Goto(i, loc), phi_test_sema(j, st), UNCHANGED <<wanted, ret>>,
         \/ /\ pc[i] = "hungry" /\ loc = "take_unlock"
            /\ j = i /\ st = [state_sema EXCEPT ![i] = "HUNGRY"]
         \/ /\ pc[i] = "put_left" /\ loc = "put_right"
            /\ j = LEFT(i) /\ st = [state_sema EXCEPT ![i] = "THINKING"]
         \/ /\ pc[i] = "put_right" /\ loc = "put_unlock" /\ j = RIGHT(i) /\ st = state_sema
  PROVE  IInv'
  <1>1. /\ ~InDown(i) /\ ~InSleep(i) /\ pc[i] # "exit" /\ i \in AllProcs /\ Typing
        /\ ret[i] = "none" /\ wanted[i] = mutex
        /\ pc' = [pc EXCEPT ![i] = loc]
        /\ loc \in Locs \ {"down", "down_ret", "sleep", "sleep_ret"}
        /\ j \in Phils /\ st \in [Phils -> {"THINKING", "HUNGRY", "EATING"}]
    <2>1. /\ ~InDown(i) /\ ~InSleep(i) /\ pc[i] # "exit" /\ i \in AllProcs /\ Typing
          /\ ret[i] = "none" /\ wanted[i] = mutex
      BY Names DEF IInv, Located, InDown, InSleep
    <2>2. /\ pc' = [pc EXCEPT ![i] = loc]
          /\ loc \in Locs \ {"down", "down_ret", "sleep", "sleep_ret"}
      BY DEF Goto, Locs
    <2>3. j \in Phils
      BY Table
    <2>4. st \in [Phils -> {"THINKING", "HUNGRY", "EATING"}]
      BY <2>1 DEF Typing
    <2> QED
      BY <2>1, <2>2, <2>3, <2>4
  <1>2. /\ pc'[i] = loc /\ \A k \in Phils \ {i} : pc'[k] = pc[k] /\ st[k] = state_sema[k]
        /\ ~Granted(i)
    BY <1>1, Names DEF Typing, Granted
  <1>3. /\ ~Eats(i)' /\ (Apart(i)' => st[i] = "THINKING") /\ st[i] # "EATING"
        /\ value[i] = 0
    <2>1. pc[i] = "put_left" => Eats(i)
      BY DEF Eats
    <2>2. pc[i] \in {"hungry", "put_right"} => Apart(i) /\ ~Eats(i)
      BY <1>1 DEF Apart, Place, Eats
    <2>3. value[i] = 0
      BY <1>1, <2>1, <2>2, Names DEF IInv, Forks, ForksGranted, Typing
    <2> QED
      BY <1>1, <1>2, <2>2, <2>3 DEF IInv, Forks, Eats, Apart, Place, Typing
  <1>4. \A k \in Phils \ {i} : (Eats(k)' <=> Eats(k)) /\ (Apart(k)' <=> Apart(k))
    BY <1>2 DEF Eats, Apart, Place
  <1>5. ASSUME NEW k \in Phils
        PROVE  /\ value[k] <= 1 /\ value[k] \in Nat
               /\ st[k] = "EATING" <=> Eats(k)' \/ value[k] = 1 \/ Granted(k)
               /\ Eats(k)' \/ Granted(k) => value[k] = 0
               /\ Apart(k)' => st[k] = "THINKING"
               /\ st[k] = "EATING" => st[RIGHT(k)] # "EATING"
    <2>1. /\ value[k] <= 1 /\ value[k] \in Nat
          /\ state_sema[k] = "EATING" <=> Eats(k) \/ value[k] = 1 \/ Granted(k)
          /\ Eats(k) \/ Granted(k) => value[k] = 0
          /\ Apart(k) => state_sema[k] = "THINKING"
          /\ state_sema[k] = "EATING" => state_sema[RIGHT(k)] # "EATING"
      BY <1>1, Names DEF IInv, Forks, ForksGranted, Granted, Typing
    <2>2. RIGHT(k) \in Phils
      BY Table
    <2> QED
      BY <1>2, <1>3, <1>4, <2>1, <2>2
  <1>6. CASE Free(j, st)
    <2>1. /\ state_sema' = [st EXCEPT ![j] = "EATING"] /\ up(j)
          /\ st[j] = "HUNGRY" /\ st[LEFT(j)] # "EATING" /\ st[RIGHT(j)] # "EATING"
      BY <1>6 DEF phi_test_sema, Free
    <2>2. state_sema' \in [Phils -> {"THINKING", "HUNGRY", "EATING"}]
      BY <1>1, <2>1
    <2>3. /\ Scheduling' /\ Typing' /\ Located' /\ Waiting' /\ Queued'
          /\ \A k \in Phils \ {j} : value'[k] = value[k] /\ (Granted(k)' <=> Granted(k))
          /\ \/ value'[j] = value[j] + 1 /\ (Granted(j)' <=> Granted(j))
             \/ value'[j] = value[j] /\ Granted(j)'
      BY <1>1, <2>1, <2>2, UpStep, Names
    <2>4. /\ ~Eats(j)' /\ value[j] = 0 /\ ~Granted(j) /\ ~Apart(j)'
      BY <1>1, <1>5, <2>1
    <2>5. state_sema'[j] = "EATING" /\ \A k \in Phils \ {j} : state_sema'[k] = st[k]
      BY <1>1, <2>1
    <2>6. ASSUME NEW k \in Phils
          PROVE  /\ value'[k] <= 1
                 /\ state_sema'[k] = "EATING" <=> Eats(k)' \/ value'[k] = 1 \/ Granted(k)'
                 /\ Eats(k)' \/ Granted(k)' => value'[k] = 0
                 /\ Apart(k)' => state_sema'[k] = "THINKING"
      BY <1>5, <2>3, <2>4, <2>5
    <2>7. ASSUME NEW k \in Phils, state_sema'[k] = "EATING"
          PROVE  state_sema'[RIGHT(k)] # "EATING"
      <3>1. RIGHT(k) \in Phils /\ RIGHT(k) # k /\ LEFT(RIGHT(k)) = k
        BY Table
      <3>2. CASE k = j
        BY <2>1, <2>5, <3>1, <3>2
      <3>3. CASE RIGHT(k) = j
        BY <2>1, <2>5, <2>7, <3>1, <3>3
      <3>4. CASE k # j /\ RIGHT(k) # j
        BY <1>5, <2>5, <2>7, <3>1, <3>4
      <3> QED
        BY <3>2, <3>3, <3>4
    <2>8. Forks'
      BY <2>6, <2>7 DEF Forks, ForksGranted, Granted
    <2> QED
      BY <2>3, <2>8 DEF IInv
  <1>7. CASE ~Free(j, st)
    <2>1. state_sema' = st /\ UNCHANGED <<schedVars, semVars>>
      BY <1>7 DEF phi_test_sema
    <2>2. Scheduling' /\ Typing' /\ Located' /\ Waiting' /\ Queued'
      BY <1>1, <2>1, OwnStep
    <2>3. \A k \in Phils : value'[k] = value[k] /\ (Granted(k)' <=> Granted(k))
      BY <2>1 DEF semVars, Granted
    <2>4. Forks'
      BY <1>5, <2>1, <2>3 DEF Forks, ForksGranted, Granted
    <2> QED
      BY <2>2, <2>4 DEF IInv
  <1> QED
    BY <1>6, <1>7
-----------------------------------------------------------------------------
(* A step of somebody else: no philosopher moves, and none that sleeps on  *)
(* a semaphore is woken.                                                   *)
LEMMA OtherStep ==
  ASSUME IInv, Scheduling', UNCHANGED <<semVars, state_sema, wanted, ret>>,
         pc' \in [AllProcs -> Locs \cup {"user", "trap_exit", "cpu_idle"}],
         \A j \in Phils : pc'[j] = pc[j],
         \A j \in Phils : wait_state[j] = "WT_KSEM" /\ state[j] = "SLEEPING" =>
                             state'[j] = state[j] /\ wait_state'[j] = wait_state[j]
  PROVE  IInv'
  <1>1. Typing'
    BY DEF IInv, Typing, semVars
  <1>2. Located'
    BY DEF IInv, Located, InDown, InSleep
  <1>3. \A j \in Phils : InDown(j)' <=> InDown(j)
    BY DEF InDown
  <1>4. Waiting' /\ Queued'
    BY <1>3, BlockedSame DEF IInv, Waiting, semVars
  <1>5. \A j \in Phils : (Eats(j)' <=> Eats(j)) /\ (Apart(j)' => Apart(j))
    BY DEF Eats, Apart, Place
  <1>6. Forks'
    BY <1>5, ForksSame DEF IInv, Granted, semVars
  <1> QED
    BY <1>1, <1>2, <1>4, <1>6 DEF IInv

LEMMA KillStep ==
  ASSUME IInv, NEW u \in Users, NEW i \in Phils, sys_kill(u, i)
  PROVE  IInv'
  <1>1. /\ SchedTyped /\ QueueOK /\ Typing /\ current = u /\ u \notin Phils
        /\ i \in Procs /\ i \in AllProcs
        /\ pc' = [pc EXCEPT ![u] = "trap_exit"]
        /\ UNCHANGED <<semVars, state_sema, wanted, ret>>
    BY Names DEF IInv, Scheduling, sys_kill, Goto, At, Running
  <1>2. /\ pc' \in [AllProcs -> Locs \cup {"user", "trap_exit", "cpu_idle"}]
        /\ \A j \in Phils : pc'[j] = pc[j]
    <2>1. \A j \in Phils : j # u
      BY <1>1
    <2> QED
      BY <1>1, <2>1, Names DEF Typing
  <1>3. CASE wait_state[i] \in Interruptible /\ wakeup_proc(i) /\ UNCHANGED <<current, timer_list>>
    <2>1. TimersTyped'
      BY <1>1, <1>3 DEF SchedTyped, TimersTyped
    <2>2. /\ SchedTyped' /\ QueueOK'
          /\ state' = [state EXCEPT ![i] = "RUNNABLE"]
          /\ wait_state' = IF state[i] = "RUNNABLE" THEN wait_state ELSE [wait_state EXCEPT ![i] = "0"]
      BY <1>1, <1>3, <2>1, WakeEffect
    <2>3. Scheduling'
      BY <1>1, <1>3, <2>2 DEF Scheduling
    <2>4. \A j \in Phils : wait_state[j] = "WT_KSEM" /\ state[j] = "SLEEPING" =>
                             state'[j] = state[j] /\ wait_state'[j] = wait_state[j]
      BY <1>1, <1>3, <2>2, Names DEF Interruptible, SchedTyped
    <2> QED
      BY <1>1, <1>2, <2>3, <2>4, OtherStep
  <1>4. CASE UNCHANGED schedVars
    <2>1. Scheduling'
      BY <1>1, <1>4 DEF Scheduling, SchedTyped, TimersTyped, QueueOK, schedVars
    <2> QED
      BY <1>1, <1>2, <1>4, <2>1, OtherStep DEF schedVars
  <1> QED
    BY <1>3, <1>4 DEF sys_kill

(* schedule() outside the philosophers: at the end of a trap of a user     *)
(* process, and in cpu_idle.                                               *)
LEMMA YieldStep ==
  ASSUME IInv, schedule, UNCHANGED <<semVars, state_sema, wanted, ret>>,
         pc' \in [AllProcs -> Locs \cup {"user", "trap_exit", "cpu_idle"}],
         \A j \in Phils : pc'[j] = pc[j]
  PROVE  IInv'
  <1>1. /\ SchedTyped' /\ QueueOK' /\ UNCHANGED <<state, wait_state>>
        /\ current' \in Procs => state[current'] = "RUNNABLE"
    BY ScheduleEffect DEF IInv, Scheduling
  <1>2. Scheduling'
    BY <1>1, Names DEF Scheduling
  <1> QED
    BY <1>1, <1>2, OtherStep

LEMMA TrapStep ==
  ASSUME IInv, NEW u \in Users, trap_exit(u)
  PROVE  IInv'
  <1>1. /\ SchedTyped /\ QueueOK /\ Typing /\ current = u /\ u \notin Phils
        /\ pc' = [pc EXCEPT ![u] = "user"]
        /\ UNCHANGED <<semVars, state_sema, wanted, ret>>
    BY Names DEF IInv, Scheduling, trap_exit, Goto, At, Running, tableVars
  <1>2. /\ pc' \in [AllProcs -> Locs \cup {"user", "trap_exit", "cpu_idle"}]
        /\ \A j \in Phils : pc'[j] = pc[j]
    <2>1. \A j \in Phils : j # u
      BY <1>1
    <2> QED
      BY <1>1, <2>1, Names DEF Typing
  <1>3. CASE schedule
    BY <1>1, <1>2, <1>3, YieldStep
  <1>4. CASE UNCHANGED schedVars
    <2>1. Scheduling'
      BY <1>1, <1>4 DEF Scheduling, SchedTyped, TimersTyped, QueueOK, schedVars
    <2> QED
      BY <1>1, <1>2, <1>4, <2>1, OtherStep DEF schedVars
  <1> QED
    BY <1>3, <1>4 DEF trap_exit

(* The timer interrupt. *)
LEMMA TickStep ==
  ASSUME IInv, TimerInterrupt
  PROVE  IInv'
  <1>1. /\ SchedTyped /\ QueueOK /\ Typing
        /\ UNCHANGED <<semVars, state_sema, wanted, ret, pc, state, wait_state, run_list, current>>
    BY DEF IInv, Scheduling, TimerInterrupt, run_timer_list, tableVars
  <1>2. TimersTyped'
    BY <1>1, TickTyped DEF TimerInterrupt, SchedTyped
  <1>3. Scheduling'
    BY <1>1, <1>2 DEF IInv, Scheduling, SchedTyped, QueueOK
  <1> QED
    BY <1>1, <1>3, OtherStep DEF Typing

LEMMA ExpiresStep ==
  ASSUME IInv, TimerExpires
  PROVE  IInv'
  <1> DEFINE p == timer_list[1].proc
  <1>1. /\ SchedTyped /\ QueueOK /\ Typing
        /\ UNCHANGED <<semVars, state_sema, wanted, ret, pc, current>>
        /\ timer_list # <<>> /\ timer_list' = Tail(timer_list)
    BY DEF IInv, Scheduling, TimerExpires, timer_expires, Expired, tableVars
  <1>2. p \in Procs /\ p \in AllProcs /\ TimersTyped'
    BY <1>1, TimersLength, Names DEF TimersTyped, SchedTyped
  <1>3. \/ wait_state[p] \in Interruptible \cup {"0"} /\ wakeup_proc(p)
        \/ UNCHANGED <<state, wait_state, run_list>>
    BY DEF TimerExpires, timer_expires
  <1> HIDE DEF p
  <1>4. CASE wait_state[p] \in Interruptible \cup {"0"} /\ wakeup_proc(p)
    <2>1. /\ SchedTyped' /\ QueueOK'
          /\ state' = [state EXCEPT ![p] = "RUNNABLE"]
          /\ wait_state' = IF state[p] = "RUNNABLE" THEN wait_state ELSE [wait_state EXCEPT ![p] = "0"]
      BY <1>1, <1>2, <1>4, WakeEffect
    <2>2. Scheduling'
      BY <1>1, <1>2, <2>1 DEF IInv, Scheduling, SchedTyped
    <2>3. \A j \in Phils : wait_state[j] = "WT_KSEM" /\ state[j] = "SLEEPING" =>
                             state'[j] = state[j] /\ wait_state'[j] = wait_state[j]
      BY <1>1, <1>2, <1>4, <2>1, Names DEF Interruptible, SchedTyped
    <2> QED
      BY <1>1, <2>2, <2>3, OtherStep DEF Typing
  <1>5. CASE UNCHANGED <<state, wait_state, run_list>>
    <2>1. Scheduling'
      BY <1>1, <1>2, <1>5 DEF IInv, Scheduling, SchedTyped, QueueOK
    <2> QED
      BY <1>1, <1>5, <2>1, OtherStep DEF Typing
  <1> QED
    BY <1>3, <1>4, <1>5

LEMMA ReturnsStep ==
  ASSUME IInv, TimerReturns
  PROVE  IInv'
  <1>1. /\ SchedTyped /\ QueueOK /\ Typing
        /\ UNCHANGED <<semVars, state_sema, wanted, ret, state, wait_state, run_list, current, timer_list>>
    BY DEF IInv, Scheduling, TimerReturns, timer_returns, tableVars
  <1>2. /\ pc' \in [AllProcs -> Locs \cup {"user", "trap_exit", "cpu_idle"}]
        /\ \A j \in Phils : pc'[j] = pc[j]
    <2>1. CASE current \in Users
      <3>1. pc' = [pc EXCEPT ![current] = "trap_exit"]
        BY <2>1 DEF TimerReturns, Goto
      <3>2. \A j \in Phils : j # current
        BY <2>1, Names
      <3> QED
        BY <1>1, <3>1, <3>2, Names DEF Typing
    <2>2. CASE current \notin Users
      BY <1>1, <2>2 DEF TimerReturns, Typing
    <2> QED
      BY <2>1, <2>2
  <1>3. Scheduling'
    BY <1>1, <1>2 DEF IInv, Scheduling, SchedTyped, TimersTyped, QueueOK
  <1> QED
    BY <1>1, <1>2, <1>3, OtherStep
-----------------------------------------------------------------------------
LEMMA IInvInit == Init => IInv
  <1> SUFFICES ASSUME Init PROVE IInv
    OBVIOUS
  <1>1. PICK ready \in [1..Cardinality(Procs) -> Procs] :
          /\ \A p \in Procs : Contains(ready, p)
          /\ SchedInit(ready)
    BY DEF Init
  <1>2. IsFiniteSet(Procs)
    <2>1. IsFiniteSet(0..(N - 1))
      BY PhilosophersAssumption, FS_Interval
    <2> QED
      BY <2>1, PhilosophersAssumption, FS_Union DEF Phils
  <1>3. SchedTyped /\ QueueOK
    BY <1>1, <1>2, SchedInitEffect
  <1>4. current = idleproc
    BY <1>1 DEF SchedInit
  <1>5. Scheduling
    BY <1>3, <1>4, Names, SchedAssumption DEF Scheduling
  <1>6. /\ value = [s \in Sems |-> IF s = mutex THEN 1 ELSE 0]
        /\ wait_queue = [s \in Sems |-> <<>>]
        /\ wakeup_flags = [p \in AllProcs |-> "0"]
        /\ state_sema = [i \in Phils |-> "THINKING"]
        /\ pc = [p \in AllProcs |-> IF p \in Phils THEN "loop"
                                    ELSE IF p \in Users THEN "user" ELSE "cpu_idle"]
        /\ wanted = [p \in AllProcs |-> mutex] /\ ret = [p \in AllProcs |-> "none"]
    BY DEF Init, SemInit
  <1>7. Typing
    BY <1>6, Names DEF Typing, Locs
  <1>8. Located /\ Waiting
    BY <1>6, Names DEF Located, Waiting, InDown, InSleep, Locs
  <1>9. Queued
    BY <1>6 DEF Queued
  <1>10. \A i \in Phils : /\ value[i] = 0 /\ state_sema[i] = "THINKING"
                          /\ ~Eats(i) /\ ~Granted(i) /\ wanted[i] # i
    BY <1>6, Names DEF Eats, Granted
  <1>11. Forks
    BY <1>10, Table DEF Forks, ForksGranted
  <1> QED
    BY <1>5, <1>7, <1>8, <1>9, <1>11 DEF IInv

THEOREM Inductive == IInv /\ [Next]_vars => IInv'
  <1> SUFFICES ASSUME IInv, [Next]_vars PROVE IInv'
    OBVIOUS
  <1>1. ASSUME NEW i \in Phils, Philosopher(i) PROVE IInv'
    <2>1. CASE think(i)
      <3>1. i = current /\ pc[i] = "loop" /\ do_sleep(i, "take")
        BY <2>1 DEF think, At, Running
      <3> QED
        BY <3>1, SleepStep
    <2>2. CASE eat(i)
      <3>1. i = current /\ pc[i] = "eat" /\ do_sleep(i, "put")
        BY <2>2 DEF eat, At, Running
      <3> QED
        BY <3>1, SleepStep
    <2>3. CASE quit(i)
      BY <2>3, QuitStep
    <2>4. CASE exit_schedule(i) \/ down_schedule(i) \/ sleep_schedule(i)
      <3>1. schedule /\ UNCHANGED <<semVars, tableVars, wanted, ret>>
        BY <2>4 DEF exit_schedule, down_schedule, sleep_schedule
      <3>2. CASE exit_schedule(i)
        BY <3>1, <3>2, ScheduleStep DEF exit_schedule, At
      <3>3. CASE down_schedule(i)
        BY <3>1, <3>3, ScheduleStep DEF down_schedule, At
      <3>4. CASE sleep_schedule(i)
        BY <3>1, <3>4, ScheduleStep DEF sleep_schedule, At
      <3> QED
        BY <2>4, <3>2, <3>3, <3>4
    <2>5. CASE take_lock(i) \/ take_forks(i) \/ put_lock(i)
      BY <2>5, DownStep, Names DEF take_lock, take_forks, put_lock
    <2>6. CASE take_test(i)
      BY <2>6, TestStep DEF take_test, At, Running
    <2>7. CASE put_left(i)
      BY <2>7, TestStep DEF put_left, At, Running
    <2>8. CASE put_right(i)
      BY <2>8, TestStep DEF put_right, At, Running
    <2>9. CASE take_unlock(i)
      <3>1. /\ i = current /\ pc[i] = "take_unlock" /\ Goto(i, "take_forks") /\ up(mutex)
            /\ UNCHANGED <<tableVars, wanted, ret>>
        BY <2>9 DEF take_unlock, At, Running
      <3> QED
        BY <3>1, UnlockStep
    <2>10. CASE put_unlock(i)
      <3>1. /\ i = current /\ pc[i] = "put_unlock" /\ Goto(i, "loop") /\ up(mutex)
            /\ UNCHANGED <<tableVars, wanted, ret>>
        BY <2>10 DEF put_unlock, At, Running
      <3> QED
        BY <3>1, UnlockStep
    <2>11. CASE down_ret(i)
      BY <2>11, DownRetStep
    <2>12. CASE sleep_ret(i)
      BY <2>12, SleepRetStep
    <2> QED
      BY <1>1, <2>1, <2>2, <2>3, <2>4, <2>5, <2>6, <2>7, <2>8, <2>9, <2>10, <2>11, <2>12
         DEF Philosopher
  <1>2. ASSUME NEW u \in Users, trap_exit(u) PROVE IInv'
    BY <1>2, TrapStep
  <1>3. CASE Idle
    BY <1>3, YieldStep DEF Idle, cpu_idle, IInv, Typing, tableVars
  <1>4. CASE TimerInterrupt
    BY <1>4, TickStep
  <1>5. CASE Handler
    BY <1>5, ExpiresStep, ReturnsStep DEF Handler
  <1>6. ASSUME NEW u \in Users, NEW i \in Phils, sys_kill(u, i) PROVE IInv'
    BY <1>6, KillStep
  <1>7. CASE UNCHANGED vars
    <2>1. Scheduling'
      BY <1>7 DEF IInv, Scheduling, SchedTyped, TimersTyped, QueueOK, vars, schedVars
    <2> QED
      BY <1>7, <2>1, OtherStep DEF IInv, Typing, vars, schedVars, tableVars
  <1> QED
    BY <1>1, <1>2, <1>3, <1>4, <1>5, <1>6, <1>7 DEF Next, Kernel

THEOREM Invariance == Spec => []IInv
  BY IInvInit, Inductive, PTL DEF Spec

(* Two neighbours never eat at the same time, whatever the timer           *)
(* interrupts, the kills and the order of the wake-ups.                    *)
THEOREM NeighboursAlwaysApart == Spec => []NeighboursApart
  <1>1. IInv => NeighboursApart
    BY Table DEF IInv, Forks, ForksGranted, NeighboursApart
  <1> QED
    BY <1>1, Invariance, PTL

(* A philosopher is EATING exactly while it has its unit of s[i] or the    *)
(* unit is on its way to it, so none eats without both forks.              *)
THEOREM ForksAlwaysGranted == Spec => []ForksGranted
  <1>1. IInv => ForksGranted
    BY DEF IInv, Forks
  <1> QED
    BY <1>1, Invariance, PTL
-----------------------------------------------------------------------------
(* The philosopher has taken the mutex and not given it back. *)
Inside(i) == pc[i] \in {"hungry", "take_unlock", "put_left", "put_right", "put_unlock"}

(* A philosopher inside is never descheduled there, so that another one on *)
(* the CPU finds the mutex free.                                           *)
Mutex ==
  /\ wait_queue[mutex] = <<>> /\ value[mutex] \in {0, 1}
  /\ value[mutex] = 1 <=> \A i \in Phils : ~Inside(i)
  /\ \A i \in Phils : Inside(i) => i = current
  /\ \A i \in Phils : InDown(i) => wanted[i] = i

(* Only between the two calls of phi_test_sema in phi_put_forks_sema may a *)
(* hungry philosopher be there that could eat: the one tested second.      *)
Served ==
  \A j \in Phils : Free(j, state_sema) => \E i \in Phils : pc[i] = "put_right" /\ j = RIGHT(i)

MInv == IInv /\ Mutex /\ Served
-----------------------------------------------------------------------------
(* Nobody enters or leaves, and who is inside keeps the CPU. *)
LEMMA MutexSame ==
  ASSUME Mutex, Served, value'[mutex] = value[mutex], wait_queue'[mutex] = wait_queue[mutex],
         UNCHANGED state_sema,
         \A j \in Phils : /\ Inside(j)' <=> Inside(j)
                          /\ pc[j] = "put_right" => pc'[j] = "put_right"
                          /\ InDown(j)' => wanted'[j] = j,
         current' = current \/ \A j \in Phils : ~Inside(j)
  PROVE  Mutex' /\ Served'
  <1>1. Mutex'
    BY DEF Mutex
  <1>2. Served'
    BY DEF Served
  <1> QED
    BY <1>1, <1>2

(* A step of philosopher i from one place to another, both outside. *)
LEMMA OutsideStep ==
  ASSUME MInv, NEW i \in Phils, i = current, ~Inside(i), NEW to,
         to \notin {"hungry", "take_unlock", "put_left", "put_right", "put_unlock"},
         pc' = [pc EXCEPT ![i] = to],
         value'[mutex] = value[mutex], wait_queue'[mutex] = wait_queue[mutex],
         UNCHANGED state_sema,
         \A j \in Phils \ {i} : wanted'[j] = wanted[j],
         to \in {"down", "down_ret"} => wanted'[i] = i
  PROVE  Mutex' /\ Served'
  <1>1. pc' \in [AllProcs -> Locs \cup {"user", "trap_exit", "cpu_idle"} \cup {to}] /\ i \in AllProcs
    BY Names DEF MInv, IInv, Typing
  <1>2. \A j \in Phils : /\ j # i => pc'[j] = pc[j]
                         /\ pc'[i] = to
    BY <1>1, Names DEF MInv, IInv, Typing
  <1>3. \A j \in Phils : /\ Inside(j)' <=> Inside(j)
                         /\ pc[j] = "put_right" => pc'[j] = "put_right"
                         /\ InDown(j)' => wanted'[j] = j
    BY <1>2 DEF MInv, Mutex, Inside, InDown
  <1>4. \A j \in Phils : ~Inside(j)
    BY DEF MInv, Mutex
  <1> QED
    BY <1>3, <1>4, MutexSame DEF MInv

(* take_lock and put_lock: the mutex is there. *)
LEMMA LockStep ==
  ASSUME MInv, NEW i \in Phils, NEW loc \in {"take", "put"}, NEW next \in {"hungry", "put_left"},
         Down(i, loc, mutex, next)
  PROVE  Mutex' /\ Served'
  <1>1. /\ Typing /\ i = current /\ pc[i] = loc /\ i \in AllProcs
        /\ state_sema' = state_sema
    BY Names DEF MInv, IInv, Down, At, Running, tableVars
  <1>2. \A j \in Phils : ~Inside(j)
    BY <1>1 DEF MInv, Mutex, Inside
  <1>3. value[mutex] = 1
    BY <1>2 DEF MInv, Mutex
  <1>4. down_takes(mutex) /\ Goto(i, next) /\ UNCHANGED wanted
    BY <1>3 DEF Down, down_waits, HasUnit
  <1>5. /\ pc' = [pc EXCEPT ![i] = next] /\ value'[mutex] = 0
        /\ UNCHANGED <<wait_queue, wanted, current>>
    BY <1>1, <1>3, <1>4, Names DEF Goto, down_takes, Typing, schedVars
  <1>6. pc'[i] = next /\ \A j \in Phils \ {i} : pc'[j] = pc[j]
    BY <1>1, <1>5, Names DEF Typing
  <1>7. Inside(i)' /\ \A j \in Phils \ {i} : ~Inside(j)'
    BY <1>2, <1>6 DEF Inside
  <1>8. \A j \in Phils : InDown(j)' => wanted'[j] = j
    BY <1>5, <1>6 DEF MInv, Mutex, InDown
  <1>9. Mutex'
    BY <1>1, <1>5, <1>7, <1>8 DEF MInv, Mutex
  <1>10. Served'
    BY <1>1, <1>2 DEF MInv, Served, Inside
  <1> QED
    BY <1>9, <1>10

(* take_unlock and put_unlock. *)
LEMMA LeaveStep ==
  ASSUME MInv, NEW i \in Phils, i = current, NEW to \in {"take_forks", "loop"},
         pc[i] \in {"take_unlock", "put_unlock"}, Goto(i, to), up(mutex),
         UNCHANGED <<tableVars, wanted>>
  PROVE  Mutex' /\ Served'
  <1>1. /\ Typing /\ i \in AllProcs /\ state_sema' = state_sema
        /\ pc' = [pc EXCEPT ![i] = to]
    BY Names DEF MInv, IInv, tableVars, Goto
  <1>2. /\ value' = [value EXCEPT ![mutex] = @ + 1]
        /\ UNCHANGED <<wait_queue, current>>
    BY DEF MInv, Mutex, up, schedVars
  <1>3. Inside(i) /\ \A j \in Phils : Inside(j) => j = i
    BY DEF MInv, Mutex, Inside
  <1>4. value[mutex] = 0
    BY <1>3 DEF MInv, Mutex
  <1>5. value'[mutex] = 1
    BY <1>1, <1>2, <1>4, Names DEF Typing
  <1>6. pc'[i] = to /\ \A j \in Phils \ {i} : pc'[j] = pc[j]
    BY <1>1, Names DEF Typing
  <1>7. \A j \in Phils : ~Inside(j)'
    BY <1>3, <1>6 DEF Inside
  <1>8. \A j \in Phils : InDown(j)' => wanted'[j] = j
    BY <1>6 DEF MInv, Mutex, InDown
  <1>9. Mutex'
    BY <1>2, <1>5, <1>7, <1>8 DEF MInv, Mutex
  <1>10. \A j \in Phils : pc[j] # "put_right"
    BY <1>3 DEF Inside
  <1>11. Served'
    BY <1>1, <1>10 DEF MInv, Served
  <1> QED
    BY <1>9, <1>11
-----------------------------------------------------------------------------
(* The mutex is not touched while i goes on inside. *)
LEMMA InsideStep ==
  ASSUME MInv, NEW i \in Phils, i = current, Inside(i), NEW to, Goto(i, to),
         to \in {"take_unlock", "put_right", "put_unlock"},
         NEW s \in Phils, up(s) \/ UNCHANGED <<schedVars, semVars>>, UNCHANGED wanted
  PROVE  Mutex' /\ pc'[i] = to /\ \A j \in Phils \ {i} : pc'[j] = pc[j]
  <1>1. /\ Typing /\ i \in AllProcs /\ pc' = [pc EXCEPT ![i] = to]
    BY Names DEF MInv, IInv, Goto
  <1>2. pc'[i] = to /\ \A j \in Phils \ {i} : pc'[j] = pc[j]
    BY <1>1, Names DEF Typing
  <1>3. /\ value'[mutex] = value[mutex] /\ wait_queue'[mutex] = wait_queue[mutex]
        /\ current' = current
    <2>1. CASE up(s) /\ wait_queue[s] = <<>>
      BY <1>1, <2>1, Names DEF up, Typing, schedVars
    <2>2. CASE up(s) /\ wait_queue[s] # <<>>
      <3>1. /\ wait_queue' = [wait_queue EXCEPT ![s] = RemoveAt(@, wait_queue_first(s))]
            /\ UNCHANGED <<value, current>>
        BY <2>2 DEF up
      <3> QED
        BY <1>1, <3>1, Names DEF Typing
    <2>3. CASE UNCHANGED <<schedVars, semVars>>
      BY <2>3 DEF schedVars, semVars
    <2> QED
      BY <2>1, <2>2, <2>3
  <1>4. \A j \in Phils : (Inside(j)' <=> Inside(j)) /\ (InDown(j)' => wanted'[j] = j)
    BY <1>2 DEF MInv, Mutex, Inside, InDown
  <1>5. Mutex'
    BY <1>3, <1>4 DEF MInv, Mutex
  <1> QED
    BY <1>2, <1>5

(* What phi_test_sema(j) leaves: philosopher j is not free afterwards, and *)
(* no other becomes free.                                                  *)
LEMMA TestServes ==
  ASSUME NEW st \in [Phils -> {"THINKING", "HUNGRY", "EATING"}], NEW j \in Phils,
         phi_test_sema(j, st)
  PROVE  /\ state_sema' \in [Phils -> {"THINKING", "HUNGRY", "EATING"}]
         /\ \A k \in Phils : Free(k, state_sema)' => k # j /\ Free(k, st)
  <1>1. CASE Free(j, st)
    <2>1. state_sema' = [st EXCEPT ![j] = "EATING"]
      BY <1>1 DEF phi_test_sema
    <2>2. state_sema'[j] = "EATING" /\ \A k \in Phils \ {j} : state_sema'[k] = st[k]
      BY <2>1
    <2>3. ASSUME NEW k \in Phils, Free(k, state_sema') PROVE k # j /\ Free(k, st)
      <3>1. k # j /\ LEFT(k) \in Phils /\ RIGHT(k) \in Phils
        BY <2>2, <2>3, Table DEF Free
      <3>2. LEFT(k) # j /\ RIGHT(k) # j
        BY <2>2, <2>3, <3>1 DEF Free
      <3> QED
        BY <2>2, <2>3, <3>1, <3>2 DEF Free
    <2> QED
      BY <2>1, <2>3 DEF Free
  <1>2. CASE ~Free(j, st)
    <2>1. state_sema' = st
      BY <1>2 DEF phi_test_sema
    <2> QED
      BY <1>2, <2>1 DEF Free
  <1> QED
    BY <1>1, <1>2

LEMMA TakeTest ==
  ASSUME MInv, NEW i \in Phils, take_test(i)
  PROVE  Mutex' /\ Served'
  <1> DEFINE st == [state_sema EXCEPT ![i] = "HUNGRY"]
  <1>1. /\ Typing /\ i = current /\ pc[i] = "hungry" /\ Inside(i) /\ Goto(i, "take_unlock")
        /\ phi_test_sema(i, st) /\ UNCHANGED wanted
    BY DEF MInv, IInv, take_test, At, Running, Inside
  <1>2. up(i) \/ UNCHANGED <<schedVars, semVars>>
    BY <1>1 DEF phi_test_sema
  <1>3. Mutex'
    BY <1>1, <1>2, InsideStep
  <1>4. ret[i] = "none"
    BY <1>1 DEF MInv, IInv, Located, InDown, InSleep
  <1>5. state_sema[i] = "THINKING"
    BY <1>1, <1>4 DEF MInv, IInv, Forks, Apart, Place
  <1>6. \A k \in Phils : ~Free(k, state_sema)
    <2>1. \A k \in Phils : pc[k] # "put_right"
      BY <1>1 DEF MInv, Mutex, Inside
    <2> QED
      BY <2>1 DEF MInv, Served
  <1>7. st \in [Phils -> {"THINKING", "HUNGRY", "EATING"}]
    BY <1>1 DEF Typing
  <1>8. \A k \in Phils \ {i} : st[k] = state_sema[k]
    BY <1>1 DEF Typing
  <1>9. \A k \in Phils : k # i => ~Free(k, st)
    <2> SUFFICES ASSUME NEW k \in Phils, k # i, Free(k, st) PROVE FALSE
      OBVIOUS
    <2>1. \A m \in Phils : st[m] # "EATING" => state_sema[m] # "EATING"
      BY <1>5, <1>8
    <2>2. Free(k, state_sema)
      BY <1>8, <2>1, Table DEF Free
    <2> QED
      BY <1>6, <2>2
  <1>10. \A k \in Phils : ~Free(k, state_sema)'
    BY <1>1, <1>7, <1>9, TestServes
  <1> QED
    BY <1>3, <1>10 DEF Served, Free

LEMMA PutLeft ==
  ASSUME MInv, NEW i \in Phils, put_left(i)
  PROVE  Mutex' /\ Served'
  <1> DEFINE st == [state_sema EXCEPT ![i] = "THINKING"]
  <1>1. /\ Typing /\ i = current /\ pc[i] = "put_left" /\ Inside(i) /\ Goto(i, "put_right")
        /\ phi_test_sema(LEFT(i), st) /\ UNCHANGED wanted
    BY DEF MInv, IInv, put_left, At, Running, Inside
  <1>2. LEFT(i) \in Phils /\ (up(LEFT(i)) \/ UNCHANGED <<schedVars, semVars>>)
    BY <1>1, Table DEF phi_test_sema
  <1>3. Mutex' /\ pc'[i] = "put_right"
    BY <1>1, <1>2, InsideStep
  <1>4. \A k \in Phils : ~Free(k, state_sema)
    <2>1. \A k \in Phils : pc[k] # "put_right"
      BY <1>1 DEF MInv, Mutex, Inside
    <2> QED
      BY <2>1 DEF MInv, Served
  <1>5. /\ st \in [Phils -> {"THINKING", "HUNGRY", "EATING"}]
        /\ st[i] = "THINKING" /\ \A k \in Phils \ {i} : st[k] = state_sema[k]
    BY <1>1 DEF Typing
  <1> HIDE DEF st
  <1>6. ASSUME NEW k \in Phils, Free(k, st) PROVE k = LEFT(i) \/ k = RIGHT(i)
    <2>1. k # i /\ LEFT(k) \in Phils /\ RIGHT(k) \in Phils
      BY <1>5, <1>6, Table DEF Free
    <2>2. CASE LEFT(k) # i /\ RIGHT(k) # i
      BY <1>4, <1>5, <1>6, <2>1, <2>2 DEF Free
    <2>3. CASE LEFT(k) = i
      BY <2>3, Table
    <2>4. CASE RIGHT(k) = i
      BY <2>4, Table
    <2> QED
      BY <2>2, <2>3, <2>4
  <1>7. \A k \in Phils : Free(k, state_sema)' => k # LEFT(i) /\ Free(k, st)
    BY <1>1, <1>2, <1>5, TestServes
  <1>8. \A k \in Phils : Free(k, state_sema)' => k = RIGHT(i)
    BY <1>6, <1>7
  <1> QED
    BY <1>3, <1>8 DEF Served, Free

LEMMA PutRight ==
  ASSUME MInv, NEW i \in Phils, put_right(i)
  PROVE  Mutex' /\ Served'
  <1>1. /\ Typing /\ i = current /\ pc[i] = "put_right" /\ Inside(i) /\ Goto(i, "put_unlock")
        /\ phi_test_sema(RIGHT(i), state_sema) /\ UNCHANGED wanted
    BY DEF MInv, IInv, put_right, At, Running, Inside
  <1>2. RIGHT(i) \in Phils /\ (up(RIGHT(i)) \/ UNCHANGED <<schedVars, semVars>>)
    BY <1>1, Table DEF phi_test_sema
  <1>3. Mutex'
    BY <1>1, <1>2, InsideStep
  <1>4. \A k \in Phils : Free(k, state_sema) => k = RIGHT(i)
    BY <1>1 DEF MInv, Mutex, Served, Inside
  <1>5. state_sema \in [Phils -> {"THINKING", "HUNGRY", "EATING"}]
    BY <1>1 DEF Typing
  <1>6. \A k \in Phils : Free(k, state_sema)' => k # RIGHT(i) /\ Free(k, state_sema)
    BY <1>1, <1>2, <1>5, TestServes
  <1>7. \A k \in Phils : ~Free(k, state_sema)'
    BY <1>4, <1>6
  <1> QED
    BY <1>3, <1>7 DEF Served, Free
-----------------------------------------------------------------------------
LEMMA PhilosopherStep ==
  ASSUME MInv, NEW i \in Phils, Philosopher(i)
  PROVE  Mutex' /\ Served'
  <1>1. Typing /\ i = current /\ i \in AllProcs /\ i # mutex
    BY Names DEF MInv, IInv, Philosopher, think, quit, exit_schedule, take_lock, take_test,
       take_unlock, take_forks, eat, put_lock, put_left, put_right, put_unlock, Down,
       down_schedule, down_ret, sleep_schedule, sleep_ret, At, Running
  <1>2. CASE think(i) \/ eat(i)
    <2>1. /\ ~Inside(i) /\ pc' = [pc EXCEPT ![i] = "sleep"]
          /\ UNCHANGED <<value, wait_queue, state_sema, wanted>>
      BY <1>2 DEF think, eat, do_sleep, Goto, At, Inside, semVars
    <2> QED
      BY <1>1, <2>1, OutsideStep
  <1>3. CASE quit(i)
    <2>1. /\ ~Inside(i) /\ pc' = [pc EXCEPT ![i] = "exit"]
          /\ UNCHANGED <<value, wait_queue, state_sema, wanted>>
      BY <1>3 DEF quit, Goto, At, Inside, semVars, tableVars
    <2> QED
      BY <1>1, <2>1, OutsideStep
  <1>4. CASE exit_schedule(i) \/ down_schedule(i) \/ sleep_schedule(i)
    <2>1. PICK to \in {"dead", "down_ret", "sleep_ret"} :
            /\ pc' = [pc EXCEPT ![i] = to] /\ (to = "down_ret" => InDown(i))
            /\ ~Inside(i) /\ UNCHANGED <<value, wait_queue, state_sema, wanted>>
      BY <1>4 DEF exit_schedule, down_schedule, sleep_schedule, Goto, At, Inside, InDown, semVars,
         tableVars
    <2>2. to = "down_ret" => wanted[i] = i
      BY <2>1 DEF MInv, Mutex
    <2> QED
      BY <1>1, <2>1, <2>2, OutsideStep
  <1>5. CASE take_lock(i) \/ put_lock(i)
    BY <1>5, LockStep DEF take_lock, put_lock
  <1>6. CASE take_forks(i)
    <2>1. ~Inside(i) /\ UNCHANGED state_sema
      BY <1>6 DEF take_forks, Down, At, Inside, tableVars
    <2>2. CASE down_takes(i) /\ Goto(i, "eat") /\ UNCHANGED wanted
      <3>1. value'[mutex] = value[mutex] /\ UNCHANGED wait_queue
        BY <1>1, <2>2, Names DEF down_takes, Typing
      <3> QED
        BY <1>1, <2>1, <2>2, <3>1, OutsideStep DEF Goto
    <2>3. CASE down_waits(i) /\ Goto(i, "down") /\ wanted' = [wanted EXCEPT ![i] = i]
      <3>1. UNCHANGED value /\ wait_queue'[mutex] = wait_queue[mutex]
        BY <1>1, <2>3, Names DEF down_waits, Typing
      <3>2. wanted'[i] = i /\ \A j \in Phils \ {i} : wanted'[j] = wanted[j]
        BY <1>1, <2>3, Names DEF Typing
      <3> QED
        BY <1>1, <2>1, <2>3, <3>1, <3>2, OutsideStep DEF Goto
    <2> QED
      BY <1>6, <2>2, <2>3 DEF take_forks, Down
  <1>7. CASE take_test(i)
    BY <1>7, TakeTest
  <1>8. CASE put_left(i)
    BY <1>8, PutLeft
  <1>9. CASE put_right(i)
    BY <1>9, PutRight
  <1>10. CASE take_unlock(i) \/ put_unlock(i)
    BY <1>1, <1>10, LeaveStep DEF take_unlock, put_unlock, At
  <1>11. CASE down_ret(i)
    <2>1. pc[i] = "down_ret" /\ InDown(i) /\ ~Inside(i)
      BY <1>11 DEF down_ret, At, InDown, Inside
    <2>2. wanted[i] = i
      BY <2>1 DEF MInv, Mutex
    <2>3. ret[i] = "eat"
      BY <1>1, <2>1, <2>2 DEF MInv, IInv, Located
    <2>4. /\ pc' = [pc EXCEPT ![i] = "eat"] /\ UNCHANGED <<value, state_sema>>
          /\ QueueDel(i, current) /\ wanted' = [wanted EXCEPT ![i] = mutex]
      BY <1>11, <2>2, <2>3 DEF down_ret, down_returns, Goto, tableVars
    <2>5. wait_queue'[mutex] = wait_queue[mutex]
      BY <1>1, <2>4, Names DEF QueueDel, Typing
    <2>6. \A j \in Phils \ {i} : wanted'[j] = wanted[j]
      BY <1>1, <2>4, Names DEF Typing
    <2> QED
      BY <1>1, <2>1, <2>4, <2>5, <2>6, OutsideStep
  <1>12. CASE sleep_ret(i)
    <2>1. pc[i] = "sleep_ret" /\ InSleep(i) /\ ~Inside(i)
      BY <1>12 DEF sleep_ret, At, InSleep, Inside
    <2>2. ret[i] \in {"take", "put"}
      BY <2>1 DEF MInv, IInv, Located
    <2>3. /\ pc' = [pc EXCEPT ![i] = ret[i]]
          /\ UNCHANGED <<value, wait_queue, state_sema, wanted>>
      BY <1>12 DEF sleep_ret, Goto, semVars, tableVars
    <2> QED
      BY <1>1, <2>1, <2>2, <2>3, OutsideStep
  <1> QED
    BY <1>2, <1>3, <1>4, <1>5, <1>6, <1>7, <1>8, <1>9, <1>10, <1>11, <1>12 DEF Philosopher

(* The steps of the others: no philosopher moves, and the CPU changes      *)
(* hands only when none is inside.                                         *)
LEMMA OthersStep ==
  ASSUME MInv, UNCHANGED <<semVars, state_sema, wanted>>, \A j \in Phils : pc'[j] = pc[j],
         current' = current \/ current \notin Phils
  PROVE  Mutex' /\ Served'
  <1>1. current' = current \/ \A j \in Phils : ~Inside(j)
    BY DEF MInv, Mutex
  <1>2. \A j \in Phils : /\ Inside(j)' <=> Inside(j)
                         /\ pc[j] = "put_right" => pc'[j] = "put_right"
                         /\ InDown(j)' => wanted'[j] = j
    BY DEF MInv, Mutex, Inside, InDown
  <1> QED
    BY <1>1, <1>2, MutexSame DEF MInv, semVars

(* Every step keeps the mutex with the philosopher that has the CPU, and   *)
(* serves whoever may eat.                                                 *)
THEOREM MutexInductive == MInv /\ [Next]_vars => MInv'
  <1> SUFFICES ASSUME MInv, [Next]_vars PROVE Mutex' /\ Served'
    BY Inductive DEF MInv
  <1>1. ASSUME NEW i \in Phils, Philosopher(i) PROVE Mutex' /\ Served'
    BY <1>1, PhilosopherStep
  <1>2. Typing
    BY DEF MInv, IInv
  <1>3. ASSUME NEW u \in Users, NEW loc, pc' = [pc EXCEPT ![u] = loc]
        PROVE  \A j \in Phils : pc'[j] = pc[j]
    <2>1. \A j \in Phils : j # u
      BY Names
    <2> QED
      BY <1>2, <1>3, <2>1, Names DEF Typing
  <1>4. ASSUME NEW u \in Users, trap_exit(u) PROVE Mutex' /\ Served'
    <2>1. pc' = [pc EXCEPT ![u] = "user"] /\ current \notin Phils
      BY <1>4, Names DEF trap_exit, Goto, At, Running
    <2> QED
      BY <1>3, <1>4, <2>1, OthersStep DEF trap_exit, tableVars
  <1>5. CASE Idle
    <2>1. current \notin Phils
      BY <1>5, SchedAssumption, Names DEF Idle, cpu_idle, Running
    <2> QED
      BY <1>5, <2>1, OthersStep DEF Idle, tableVars
  <1>6. CASE TimerInterrupt \/ TimerExpires
    BY <1>6, OthersStep
       DEF TimerInterrupt, TimerExpires, run_timer_list, timer_expires, tableVars
  <1>7. CASE TimerReturns
    <2>1. \A j \in Phils : pc'[j] = pc[j]
      BY <1>3, <1>7 DEF TimerReturns, Goto
    <2> QED
      BY <1>7, <2>1, OthersStep DEF TimerReturns, timer_returns, tableVars
  <1>8. ASSUME NEW u \in Users, NEW i \in Phils, sys_kill(u, i) PROVE Mutex' /\ Served'
    <2>1. pc' = [pc EXCEPT ![u] = "trap_exit"] /\ current \notin Phils
      BY <1>8, Names DEF sys_kill, Goto, At, Running
    <2> QED
      BY <1>3, <1>8, <2>1, OthersStep DEF sys_kill
  <1>9. CASE UNCHANGED vars
    BY <1>9, OthersStep DEF vars, schedVars, tableVars
  <1> QED
    BY <1>1, <1>4, <1>5, <1>6, <1>7, <1>8, <1>9 DEF Next, Kernel, Handler

LEMMA MutexInit == Init => MInv
  <1> SUFFICES ASSUME Init PROVE Mutex /\ Served
    BY IInvInit DEF MInv
  <1>1. /\ value = [s \in Sems |-> IF s = mutex THEN 1 ELSE 0]
        /\ wait_queue = [s \in Sems |-> <<>>]
        /\ state_sema = [i \in Phils |-> "THINKING"]
        /\ pc = [p \in AllProcs |-> IF p \in Phils THEN "loop"
                                    ELSE IF p \in Users THEN "user" ELSE "cpu_idle"]
    BY DEF Init, SemInit
  <1>2. \A i \in Phils : pc[i] = "loop"
    BY <1>1, Names
  <1>3. Mutex
    BY <1>1, <1>2, Names DEF Mutex, Inside, InDown
  <1>4. Served
    BY <1>1 DEF Served, Free
  <1> QED
    BY <1>3, <1>4

THEOREM MutexInvariance == Spec => []MInv
  BY MutexInit, MutexInductive, PTL DEF Spec

(* The critical section of check_sync.c is never contended: a thread in it *)
(* keeps the CPU, so at most one is inside and the queue stays empty.      *)
THEOREM MutexAlwaysFree == Spec => []MutexFree
  <1>1. MInv => MutexFree
    <2> SUFFICES ASSUME MInv PROVE MutexFree
      OBVIOUS
    <2> DEFINE S == {i \in Phils : Inside(i)}
    <2>1. CASE \A i \in Phils : ~Inside(i)
      <3>1. S = {} /\ value[mutex] = 1
        BY <2>1 DEF MInv, Mutex
      <3>2. Cardinality(S) = 0
        BY <3>1, FS_EmptySet
      <3> QED
        BY <3>1, <3>2 DEF MInv, Mutex, MutexFree, Inside
    <2>2. CASE \E i \in Phils : Inside(i)
      <3>1. S = {current} /\ value[mutex] = 0
        BY <2>2 DEF MInv, Mutex
      <3>2. Cardinality(S) = 1
        BY <3>1, FS_Singleton
      <3> QED
        BY <3>1, <3>2 DEF MInv, Mutex, MutexFree, Inside
    <2> QED
      BY <2>1, <2>2
  <1> QED
    BY <1>1, MutexInvariance, PTL

(* phi_put_forks_sema looks at both neighbours, so once the mutex is free  *)
(* no philosopher is left HUNGRY between two that do not eat.              *)
THEOREM NobodyForgotten == Spec => []NoForgottenPhilosopher
  <1>1. MInv => NoForgottenPhilosopher
    <2> SUFFICES ASSUME MInv, value[mutex] = 1, NEW j \in Phils, Free(j, state_sema) PROVE FALSE
      BY DEF NoForgottenPhilosopher
    <2>1. PICK i \in Phils : pc[i] = "put_right"
      BY DEF MInv, Served
    <2> QED
      BY <2>1 DEF MInv, Mutex, Inside
  <1> QED
    BY <1>1, MutexInvariance, PTL
=============================================================================
