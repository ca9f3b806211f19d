------------------------------- MODULE PidSet -------------------------------
(***************************************************************************)
(* What the rest of the lab5 kernel expects of get_pid: do_fork gives the  *)
(* new process a pid that no process has and that find_proc accepts, and   *)
(* do_wait gives the pid of the process it reaps back.                     *)
(***************************************************************************)
EXTENDS Integers

CONSTANT MAX_PID      \* find_proc accepts the pids 1 .. MAX_PID - 1

VARIABLES
  pids,         \* the pids of the processes of proc_list
  procs         \* how many processes there are in proc_list

Init == pids = {} /\ procs = 0

Take(p) ==
  /\ p \in (1..(MAX_PID - 1)) \ pids
  /\ pids' = pids \cup {p}
  /\ procs' = procs + 1

Give(p) ==
  /\ p \in pids
  /\ pids' = pids \ {p}
  /\ procs' = procs - 1

Next == \E p \in 1..(MAX_PID - 1) : Take(p) \/ Give(p)

Spec == Init /\ [][Next]_<<pids, procs>>
=============================================================================
