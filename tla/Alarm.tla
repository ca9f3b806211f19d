-------------------------------- MODULE Alarm --------------------------------
(***************************************************************************)
(* What the timer list of lab7/kern/schedule/sched.c stands for: each      *)
(* process has a countdown of its own, started by do_sleep, counted down   *)
(* at each tick, and dropped if the process runs before it ends.           *)
(***************************************************************************)
EXTENDS Integers

CONSTANTS Procs, MAX_SLEEP

VARIABLE alarm      \* the ticks each process still sleeps; 0 is no alarm

Init == alarm = [p \in Procs |-> 0]

Sleep(p, n) == alarm[p] = 0 /\ alarm' = [alarm EXCEPT ![p] = n]

Cancel(p) == alarm' = [alarm EXCEPT ![p] = 0]

Tick == alarm' = [p \in Procs |-> IF alarm[p] > 0 THEN alarm[p] - 1 ELSE 0]

Next ==
  \/ Tick
  \/ \E p \in Procs : Cancel(p) \/ \E n \in 1..MAX_SLEEP : Sleep(p, n)

Spec == Init /\ [][Next]_alarm
=============================================================================
