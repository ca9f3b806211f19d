-------------------------------- MODULE MCSync --------------------------------
(* Sync with the kernel threads, the user processes and the semaphores     *)
(* interchangeable.                                                        *)
EXTENDS Sync, TLC

Symmetry ==
  Permutations(Procs \ Threads) \cup Permutations(Threads) \cup Permutations(Sems)
=============================================================================
