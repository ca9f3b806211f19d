------------------------------- MODULE GetPid -------------------------------
(***************************************************************************)
(* get_pid of lab5/kern/process/proc.c, one action for each turn of its    *)
(* loop over proc_list, between the two functions that change that list:   *)
(* do_fork, which puts the new process at its head, and do_wait, which     *)
(* takes a reaped process out.  proc_list is the list of the pids.         *)
(*                                                                         *)
(* last_pid and next_safe are static: they keep their values from one call *)
(* to the next, and the pids between them are handed out without a look at *)
(* the list.                                                               *)
(***************************************************************************)
EXTENDS Integers, Sequences

CONSTANTS MAX_PID, MAX_PROCESS

(* The static_assert of get_pid. *)
ASSUME PidAssumption ==
  MAX_PID \in Nat /\ MAX_PROCESS \in Nat /\ MAX_PID > MAX_PROCESS /\ MAX_PROCESS >= 2

VARIABLES
  last_pid, next_safe,
  proc_list,     \* the pids of the processes in list_next order
  le,            \* how many entries of the list the loop has seen
  pc             \* "out" of get_pid, in its "while" loop, at its "return"

pid_vars == <<last_pid, next_safe, proc_list, le, pc>>

PidInit ==
  /\ last_pid = MAX_PID
  /\ next_safe = MAX_PID
  /\ proc_list = <<>>
  /\ le = 0
  /\ pc = "out"

(* A definition named Bug_x is the definition x with a plausible mistake;  *)
(* the mutation runs put it in the place of x.                             *)
Bug_Wrap_clamps(n) == IF n >= MAX_PID THEN MAX_PID - 1 ELSE n

(* The pids go round below MAX_PID. *)
Wrap(n) == IF n >= MAX_PID THEN 1 ELSE n

(* The entry of get_pid, called by do_fork: nr_process, which counts       *)
(* idleproc too, is below MAX_PROCESS.                                     *)
get_pid ==
  /\ pc = "out"
  /\ Len(proc_list) + 1 < MAX_PROCESS
  /\ last_pid' = Wrap(last_pid + 1)
  /\ IF last_pid + 1 >= MAX_PID \/ last_pid + 1 >= next_safe
     THEN next_safe' = MAX_PID /\ pc' = "while"
     ELSE UNCHANGED next_safe /\ pc' = "return"
  /\ le' = 0
  /\ UNCHANGED proc_list

(* A turn of the loop at an entry whose pid is last_pid. *)
pid_taken ==
  /\ pc = "while" /\ le < Len(proc_list)
  /\ proc_list[le + 1] = last_pid
  /\ IF last_pid + 1 >= next_safe
     THEN /\ last_pid' = Wrap(last_pid + 1)
          /\ next_safe' = MAX_PID
          /\ le' = 0
     ELSE /\ last_pid' = last_pid + 1
          /\ le' = le + 1
          /\ UNCHANGED next_safe
  /\ UNCHANGED <<proc_list, pc>>

Bug_Lowered_never(pid) == next_safe

(* next_safe after the loop has met pid. *)
Lowered(pid) == IF pid > last_pid /\ next_safe > pid THEN pid ELSE next_safe

(* A turn of the loop at any other entry. *)
pid_other ==
  /\ pc = "while" /\ le < Len(proc_list)
  /\ LET pid == proc_list[le + 1] IN
     /\ pid # last_pid
     /\ next_safe' = Lowered(pid)
  /\ le' = le + 1
  /\ UNCHANGED <<last_pid, proc_list, pc>>

loop_ends ==
  /\ pc = "while" /\ le = Len(proc_list)
  /\ pc' = "return"
  /\ le' = 0
  /\ UNCHANGED <<last_pid, next_safe, proc_list>>

(* do_fork: the pid is stored and set_links adds the process to the list. *)
set_links ==
  /\ pc = "return"
  /\ proc_list' = <<last_pid>> \o proc_list
  /\ pc' = "out"
  /\ UNCHANGED <<last_pid, next_safe, le>>

(* do_wait: remove_links takes entry i, a zombie, out. *)
remove_links(i) ==
  /\ pc = "out"
  /\ proc_list' = [k \in 1..(Len(proc_list) - 1) |->
                     IF k < i THEN proc_list[k] ELSE proc_list[k + 1]]
  /\ UNCHANGED <<last_pid, next_safe, le, pc>>

Scan == pid_taken \/ pid_other \/ loop_ends

PidNext ==
  \/ get_pid \/ Scan \/ set_links
  \/ \E i \in 1..Len(proc_list) : remove_links(i)

(* Interrupts are off from get_pid to set_links, so the loop runs on. *)
PidSpec == PidInit /\ [][PidNext]_pid_vars /\ WF_pid_vars(Scan)
-----------------------------------------------------------------------------
(* The values of the variables; last_pid is MAX_PID before the first call  *)
(* only.                                                                   *)
TypeOK ==
  /\ last_pid \in 1..MAX_PID
  /\ next_safe \in 1..MAX_PID
  /\ proc_list \in Seq(1..(MAX_PID - 1))
  /\ le \in 0..Len(proc_list) /\ (pc # "while" => le = 0)
  /\ pc \in {"out", "while", "return"}

(* What the loop knows of the first n entries of the list: no pid of theirs *)
(* lies strictly between last_pid and next_safe.                            *)
Gap(n) == \A k \in 1..n : ~(last_pid < proc_list[k] /\ proc_list[k] < next_safe)

(* The fast path of get_pid relies on what an earlier call, maybe long ago, *)
(* left in its static variables: whatever was forked and reaped since, the  *)
(* pids between last_pid and next_safe are free.                            *)
GapOK ==
  /\ pc # "while" => Gap(Len(proc_list))
  /\ pc = "while" => /\ Gap(le)
                     /\ last_pid < next_safe
                     /\ \A k \in 1..le : proc_list[k] # last_pid

(* The pid that get_pid returns is one that no process has, and one that    *)
(* find_proc accepts.                                                       *)
ReturnsFreePid ==
  pc = "return" => /\ last_pid \in 1..(MAX_PID - 1)
                   /\ \A k \in 1..Len(proc_list) : proc_list[k] # last_pid

(* "alloc a unique pid for process": no two processes share a pid. *)
PidsUnique ==
  \A i, j \in 1..Len(proc_list) : proc_list[i] = proc_list[j] => i = j

(* Every call returns: the goto repeat of the loop is not taken for ever,   *)
(* since the list is shorter than the range of the pids.                    *)
GetPidReturns == pc = "while" ~> pc = "return"

Set == INSTANCE PidSet WITH pids <- {proc_list[k] : k \in 1..Len(proc_list)},
                            procs <- Len(proc_list)

(* get_pid, called the way do_fork calls it, is the PidSet that the rest of *)
(* the kernel relies on.                                                    *)
PidSetSpec == Set!Spec
=============================================================================
