------------------------------- MODULE Process -------------------------------
(***************************************************************************)
(* The life cycle of processes in the lab5 kernel: do_fork, do_exit,       *)
(* do_wait, do_kill, do_yield and do_execve of kern/process/proc.c, the    *)
(* scheduler of kern/schedule/sched.c and the way out of trap() in         *)
(* kern/trap/trap.c.                                                       *)
(*                                                                         *)
(* There is one CPU.  Kernel code entered by a system call runs with       *)
(* interrupts off until it calls schedule() or returns to user mode, so    *)
(* what happens between two such points is one action of the current       *)
(* process.  The loop of do_exit that hands the children to initproc takes *)
(* one action per turn.                                                    *)
(*                                                                         *)
(* A proc_struct is named by its pid: GetPid shows that no two live        *)
(* processes share one.                                                    *)
(***************************************************************************)
EXTENDS Integers, Sequences, FiniteSets

CONSTANTS
  Pids,         \* pids of the processes below initproc
  idleproc,     \* the process with pid 0, made by proc_init
  initproc,     \* the process with pid 1, running init_main
  NULL,         \* the null pointer
  MAX_PROCESS,  \* the limit of nr_process tested by do_fork
  Watched       \* bound: the pids that liveness is checked for, which all are alike

Procs == Pids \cup {idleproc, initproc}

ASSUME ProcsAssumption ==
  /\ idleproc # initproc
  /\ idleproc \notin Pids /\ initproc \notin Pids
  /\ NULL \notin Procs
  /\ MAX_PROCESS \in Nat /\ MAX_PROCESS >= 2
  /\ Watched \subseteq Pids

VARIABLES
  state,         \* proc->state; "FREE" when the proc_struct is not allocated
  wait_state,    \* proc->wait_state: 0 or WT_CHILD
  exiting,       \* proc->flags & PF_EXITING
  need_resched,  \* proc->need_resched
  parent, cptr, optr, yptr,   \* the relation links
  proc_list,     \* list_next order of proc_list, without its head
  nr_process,
  current,
  mm,            \* the processes with an address space of their own
  kstack,        \* the processes whose kernel stack pages are allocated
  pc,            \* where the process continues when it is current
  waiting,       \* the pid argument of do_wait; NULL stands for 0, any child
  cursor,        \* the local variable proc of do_wait's loop
  panic          \* the message of panic() or assert(), "no" while running

links   == <<parent, cptr, optr, yptr, proc_list, nr_process>>
vars    == <<state, wait_state, exiting, need_resched, links, current, mm,
             kstack, pc, waiting, cursor, panic>>

UserPC   == {"user", "trap_exit"}
ExitPC   == {"do_exit", "reparent", "dead"}
WaitPC   == {"do_wait", "wait_scan", "wait_sleep", "wait_ret"}
InitPC   == {"init_main", "init_schedule", "init_asserts"}
AllPC    == UserPC \cup ExitPC \cup WaitPC \cup InitPC
              \cup {"none", "cpu_idle", "user_main"}

Live     == {p \in Procs : state[p] # "FREE"}
-----------------------------------------------------------------------------
(* proc_init: idleproc is running and has created initproc. *)
Init ==
  /\ state = [p \in Procs |-> IF p \in Pids THEN "FREE" ELSE "RUNNABLE"]
  /\ wait_state = [p \in Procs |-> "0"]
  /\ exiting = [p \in Procs |-> FALSE]
  /\ need_resched = [p \in Procs |-> p = idleproc]
  /\ parent = [p \in Procs |-> IF p = initproc THEN idleproc ELSE NULL]
  /\ cptr = [p \in Procs |-> IF p = idleproc THEN initproc ELSE NULL]
  /\ optr = [p \in Procs |-> NULL]
  /\ yptr = [p \in Procs |-> NULL]
  /\ proc_list = <<initproc>>
  /\ nr_process = 2
  /\ current = idleproc
  /\ mm = {}
  /\ kstack = {initproc}
  /\ pc = [p \in Procs |-> IF p = idleproc THEN "cpu_idle"
                           ELSE IF p = initproc THEN "init_main" ELSE "none"]
  /\ waiting = [p \in Procs |-> NULL]
  /\ cursor = NULL
  /\ panic = "no"

At(loc) == panic = "no" /\ pc[current] = loc
Goto(loc) == pc' = [pc EXCEPT ![current] = loc]
-----------------------------------------------------------------------------
(* A definition named Bug_x is the definition x with a plausible mistake;  *)
(* the mutation runs put it in the place of x.                             *)
-----------------------------------------------------------------------------
Bug_Rotated == proc_list   \* the search starts at the head each time

(* schedule(): the list is searched from the entry after current round to  *)
(* current itself (from the head for idleproc); the first RUNNABLE entry   *)
(* runs next, idleproc when there is none.                                 *)
Rotated ==
  LET i == IF current = idleproc THEN 0
           ELSE CHOOSE k \in 1..Len(proc_list) : proc_list[k] = current
  IN  SubSeq(proc_list, i + 1, Len(proc_list)) \o SubSeq(proc_list, 1, i)

Bug_IsNext(st, n) == n = Rotated[1]   \* the state of the entry is not tested

IsNext(st, n) ==
  \/ \E k \in 1..Len(Rotated) :
       /\ n = Rotated[k]
       /\ st[n] = "RUNNABLE"
       /\ \A j \in 1..(k - 1) : st[Rotated[j]] # "RUNNABLE"
  \/ /\ n = idleproc
     /\ \A k \in 1..Len(Rotated) : st[Rotated[k]] # "RUNNABLE"

schedule(st) ==
  /\ need_resched' = [need_resched EXCEPT ![current] = FALSE]
  /\ \E n \in Procs : IsNext(st, n) /\ current' = n

Bug_wakeup_proc(cond, st, q) ==   \* wait_state stays
  /\ panic' = IF cond /\ st[q] = "ZOMBIE" THEN "assert" ELSE panic
  /\ state' = IF cond THEN [st EXCEPT ![q] = "RUNNABLE"] ELSE st
  /\ UNCHANGED wait_state

(* if (cond) wakeup_proc(q), in a step that has already made st the state  *)
(* of the processes.                                                       *)
wakeup_proc(cond, st, q) ==
  /\ panic' = IF cond /\ st[q] = "ZOMBIE" THEN "assert" ELSE panic
  /\ state' = IF cond THEN [st EXCEPT ![q] = "RUNNABLE"] ELSE st
  /\ wait_state' = IF cond /\ st[q] # "RUNNABLE"
                   THEN [wait_state EXCEPT ![q] = "0"] ELSE wait_state
-----------------------------------------------------------------------------
(* set_links and remove_links.  remove_links is followed by kfree, which   *)
(* leaves nothing of the fields of p.                                      *)
Bug_set_links(p) ==   \* the old first child keeps its yptr
  /\ proc_list' = <<p>> \o proc_list
  /\ parent' = [parent EXCEPT ![p] = current]
  /\ optr' = [optr EXCEPT ![p] = cptr[current]]
  /\ yptr' = [yptr EXCEPT ![p] = NULL]
  /\ cptr' = [cptr EXCEPT ![current] = p]
  /\ nr_process' = nr_process + 1

set_links(p) ==
  /\ proc_list' = <<p>> \o proc_list
  /\ parent' = [parent EXCEPT ![p] = current]
  /\ optr' = [optr EXCEPT ![p] = cptr[current]]
  /\ yptr' = [q \in Procs |-> IF q = p THEN NULL
                              ELSE IF q = cptr[current] THEN p ELSE yptr[q]]
  /\ cptr' = [cptr EXCEPT ![current] = p]
  /\ nr_process' = nr_process + 1

Bug_Without(s, p) == Tail(s)   \* the wrong entry goes

Without(s, p) ==
  LET i == CHOOSE k \in 1..Len(s) : s[k] = p
  IN  [k \in 1..(Len(s) - 1) |-> IF k < i THEN s[k] ELSE s[k + 1]]

remove_links(p) ==
  /\ proc_list' = Without(proc_list, p)
  /\ yptr' = [q \in Procs |-> IF q = p THEN NULL
                              ELSE IF q = optr[p] THEN yptr[p] ELSE yptr[q]]
  /\ optr' = [q \in Procs |-> IF q = p THEN NULL
                              ELSE IF q = yptr[p] THEN optr[p] ELSE optr[q]]
  /\ cptr' = [q \in Procs |-> IF q = parent[p] /\ yptr[p] = NULL THEN optr[p]
                              ELSE cptr[q]]
  /\ parent' = [parent EXCEPT ![p] = NULL]
  /\ nr_process' = nr_process - 1
-----------------------------------------------------------------------------
(* The limit that do_fork tests. *)
Room == nr_process < MAX_PROCESS

(* do_fork: p is the new process, loc the place it starts at.  *)
do_fork(p, loc, childmm) ==
  /\ Room
  /\ state[p] = "FREE"
  /\ panic' = IF wait_state[current] = "0" THEN panic ELSE "assert"
  /\ state' = [state EXCEPT ![p] = "RUNNABLE"]
  /\ kstack' = kstack \cup {p}
  /\ mm' = mm \cup childmm
  /\ set_links(p)
  /\ pc' = [pc EXCEPT ![current] = loc.parent, ![p] = loc.child]
  /\ UNCHANGED <<wait_state, exiting, need_resched, current, waiting, cursor>>

(* A trap of the current user process that only changes need_resched. *)
QuietTrap(resched) ==
  /\ At("user")
  /\ need_resched' = [need_resched EXCEPT ![current] = @ \/ resched]
  /\ Goto("trap_exit")
  /\ UNCHANGED <<state, wait_state, exiting, links, current, mm, kstack,
                 waiting, cursor, panic>>

sys_fork ==
  /\ At("user")
  /\ \E p \in Pids :
       do_fork(p, [parent |-> "trap_exit", child |-> "user"],
               IF current \in mm THEN {p} ELSE {})

(* -E_NO_FREE_PROC at the limit, or -E_NO_MEM: bad_fork_cleanup_kstack and *)
(* bad_fork_cleanup_proc give back what was allocated.                     *)
sys_fork_fails == QuietTrap(FALSE)

(* -E_INVAL: do_wait is given an address outside the user's memory. *)
sys_wait_fails == QuietTrap(FALSE)

sys_yield == QuietTrap(TRUE)

(* A timer interrupt of user code; one in TICK_NUM asks for a reschedule. *)
TimerInterrupt == \E resched \in BOOLEAN : QuietTrap(resched)

(* A timer interrupt of kernel code that runs with interrupts on. *)
TimerInKernel ==
  /\ panic = "no"
  /\ current \in {idleproc, initproc} \/ pc[current] = "user_main"
  /\ need_resched' = [need_resched EXCEPT ![current] = TRUE]
  /\ UNCHANGED <<state, wait_state, exiting, links, current, mm, kstack, pc,
                 waiting, cursor, panic>>
-----------------------------------------------------------------------------
Bug_KillWakes(q) == state[q] # "FREE" /\ ~exiting[q]   \* any process is woken

(* do_kill wakes its target only out of an interruptible wait. *)
KillWakes(q) == state[q] # "FREE" /\ ~exiting[q] /\ wait_state[q] = "WT_CHILD"

sys_kill(q) ==
  /\ At("user")
  /\ exiting' = IF state[q] # "FREE" THEN [exiting EXCEPT ![q] = TRUE] ELSE exiting
  /\ wakeup_proc(KillWakes(q), state, q)
  /\ Goto("trap_exit")
  /\ UNCHANGED <<need_resched, links, current, mm, kstack, waiting, cursor>>

(* The end of trap() for a trap from user mode. *)
TrapExit ==
  /\ At("trap_exit")
  /\ \/ /\ exiting[current]
        /\ Goto("do_exit")
        /\ UNCHANGED <<need_resched, current>>
     \/ /\ ~exiting[current] /\ need_resched[current]
        /\ Goto("user")
        /\ schedule(state)
     \/ /\ ~exiting[current] /\ ~need_resched[current]
        /\ Goto("user")
        /\ UNCHANGED <<need_resched, current>>
  /\ UNCHANGED <<state, wait_state, exiting, links, mm, kstack, waiting, cursor, panic>>

sys_exit ==
  /\ At("user")
  /\ Goto("do_exit")
  /\ UNCHANGED <<state, wait_state, exiting, need_resched, links, current, mm,
                 kstack, waiting, cursor, panic>>

(* do_execve: the old address space goes; load_icode makes the new one or  *)
(* fails, and then the process exits.                                      *)
do_execve(loc) ==
  /\ \/ mm' = mm \cup {current} /\ Goto(loc)
     \/ mm' = mm \ {current} /\ Goto("do_exit")
  /\ UNCHANGED <<state, wait_state, exiting, need_resched, links, current,
                 kstack, waiting, cursor, panic>>

sys_exec == At("user") /\ do_execve("trap_exit")

(* user_main: kernel_execve from a kernel thread, back by kernel_execve_ret. *)
user_main == At("user_main") /\ do_execve("user")
-----------------------------------------------------------------------------
Bug_ParentWaits == FALSE   \* the parent is not woken

(* do_exit wakes a parent that waits for a child. *)
ParentWaits == wait_state[parent[current]] = "WT_CHILD"

(* do_exit up to its loop. *)
do_exit ==
  /\ At("do_exit")
  /\ IF current = initproc
     THEN /\ panic' = "initproc exit"
          /\ UNCHANGED <<state, wait_state, mm, pc>>
     ELSE /\ mm' = mm \ {current}
          /\ wakeup_proc(ParentWaits, [state EXCEPT ![current] = "ZOMBIE"], parent[current])
          /\ Goto("reparent")
  /\ UNCHANGED <<exiting, need_resched, links, current, kstack, waiting, cursor>>

Bug_AdoptWakes(p) == FALSE   \* nobody tells initproc of a zombie

(* initproc is woken for a child that comes to it as a zombie. *)
AdoptWakes(p) == state[p] = "ZOMBIE" /\ wait_state[initproc] = "WT_CHILD"

(* One turn of the loop of do_exit: the first child moves to initproc. *)
reparent ==
  LET p == cptr[current] IN
  /\ At("reparent")
  /\ p # NULL
  /\ cptr' = [cptr EXCEPT ![current] = optr[p], ![initproc] = p]
  /\ yptr' = [q \in Procs |-> IF q = p THEN NULL
                              ELSE IF q = cptr[initproc] THEN p ELSE yptr[q]]
  /\ optr' = [optr EXCEPT ![p] = cptr[initproc]]
  /\ parent' = [parent EXCEPT ![p] = initproc]
  /\ wakeup_proc(AdoptWakes(p), state, initproc)
  /\ UNCHANGED <<exiting, need_resched, proc_list, nr_process, current, mm,
                 kstack, pc, waiting, cursor>>

exit_schedule ==
  /\ At("reparent")
  /\ cptr[current] = NULL
  /\ Goto("dead")
  /\ schedule(state)
  /\ UNCHANGED <<state, wait_state, exiting, links, mm, kstack, waiting, cursor, panic>>
-----------------------------------------------------------------------------
sys_wait(q) ==
  /\ At("user")
  /\ waiting' = [waiting EXCEPT ![current] = q]
  /\ Goto("do_wait")
  /\ UNCHANGED <<state, wait_state, exiting, need_resched, links, current, mm,
                 kstack, cursor, panic>>

(* Where the caller of do_wait goes on: a system call returns, init_main    *)
(* waits for the next child or has waited for all.                          *)
WaitReturns(ok) == IF current # initproc THEN "trap_exit"
                   ELSE IF ok THEN "init_schedule" ELSE "init_asserts"

(* The label repeat of do_wait: the children are searched, or the one that *)
(* is named.                                                               *)
do_wait ==
  /\ At("do_wait")
  /\ LET q == waiting[current] IN
     IF q = NULL
     THEN cursor' = cptr[current] /\ Goto("wait_scan") /\ UNCHANGED waiting
     ELSE IF state[q] # "FREE" /\ parent[q] = current
     THEN cursor' = q /\ Goto("wait_scan") /\ UNCHANGED waiting
     ELSE cursor' = NULL /\ Goto(WaitReturns(FALSE)) /\ waiting' = [waiting EXCEPT ![current] = NULL]
  /\ UNCHANGED <<state, wait_state, exiting, need_resched, links, current, mm,
                 kstack, panic>>

(* A child that is not a zombie: the next older sibling, or the end of the *)
(* search.                                                                 *)
wait_scan ==
  /\ At("wait_scan")
  /\ \/ /\ cursor # NULL
        /\ state[cursor] # "ZOMBIE"
        /\ cursor' = IF waiting[current] = NULL THEN optr[cursor] ELSE NULL
        /\ IF cursor' = NULL THEN Goto("wait_sleep") ELSE UNCHANGED pc
     \/ /\ cursor = NULL
        /\ Goto(WaitReturns(FALSE))
        /\ UNCHANGED cursor
  /\ UNCHANGED <<state, wait_state, exiting, need_resched, links, current, mm,
                 kstack, waiting, panic>>

(* The label found of do_wait. *)
wait_found ==
  /\ At("wait_scan")
  /\ cursor # NULL
  /\ state[cursor] = "ZOMBIE"
  /\ IF cursor \in {idleproc, initproc}
     THEN /\ panic' = "wait idleproc or initproc"
          /\ UNCHANGED <<state, exiting, need_resched, links, kstack, pc, waiting, cursor>>
     ELSE /\ remove_links(cursor)
          /\ kstack' = kstack \ {cursor}
          /\ state' = [state EXCEPT ![cursor] = "FREE"]
          /\ exiting' = [exiting EXCEPT ![cursor] = FALSE]
          /\ need_resched' = [need_resched EXCEPT ![cursor] = FALSE]
          /\ waiting' = [waiting EXCEPT ![cursor] = NULL, ![current] = NULL]
          /\ pc' = [pc EXCEPT ![cursor] = "none", ![current] = WaitReturns(TRUE)]
          /\ cursor' = NULL
          /\ UNCHANGED panic
  /\ UNCHANGED <<wait_state, current, mm>>

wait_sleep ==
  /\ At("wait_sleep")
  /\ state' = [state EXCEPT ![current] = "SLEEPING"]
  /\ wait_state' = [wait_state EXCEPT ![current] = "WT_CHILD"]
  /\ Goto("wait_ret")
  /\ schedule(state')
  /\ UNCHANGED <<exiting, links, mm, kstack, waiting, cursor, panic>>

Bug_wait_ret ==   \* a killed process waits again
  /\ At("wait_ret")
  /\ Goto("do_wait")
  /\ UNCHANGED <<state, wait_state, exiting, need_resched, links, current, mm,
                 kstack, waiting, cursor, panic>>

(* Back from schedule(): a killed process exits, any other starts over. *)
wait_ret ==
  /\ At("wait_ret")
  /\ Goto(IF exiting[current] THEN "do_exit" ELSE "do_wait")
  /\ UNCHANGED <<state, wait_state, exiting, need_resched, links, current, mm,
                 kstack, waiting, cursor, panic>>
-----------------------------------------------------------------------------
(* init_main: kernel_thread(user_main), then do_wait until no child is     *)
(* left.  Returning from init_main calls do_exit.                          *)
init_main ==
  /\ At("init_main")
  /\ \E p \in Pids : do_fork(p, [parent |-> "do_wait", child |-> "user_main"], {})

init_main_fails ==
  /\ At("init_main")
  /\ panic' = "create user_main failed"
  /\ UNCHANGED <<state, wait_state, exiting, need_resched, links, current, mm,
                 kstack, pc, waiting, cursor>>

init_schedule ==
  /\ At("init_schedule")
  /\ Goto("do_wait")
  /\ schedule(state)
  /\ UNCHANGED <<state, wait_state, exiting, links, mm, kstack, waiting, cursor, panic>>

AllQuit ==
  /\ cptr[initproc] = NULL /\ yptr[initproc] = NULL /\ optr[initproc] = NULL
  /\ nr_process = 2
  /\ proc_list = <<initproc>>

init_asserts ==
  /\ At("init_asserts")
  /\ panic' = IF AllQuit THEN panic ELSE "assert"
  /\ Goto("do_exit")
  /\ UNCHANGED <<state, wait_state, exiting, need_resched, links, current, mm,
                 kstack, waiting, cursor>>

cpu_idle ==
  /\ At("cpu_idle")
  /\ need_resched[current]
  /\ schedule(state)
  /\ UNCHANGED <<state, wait_state, exiting, links, mm, kstack, pc, waiting, cursor, panic>>
-----------------------------------------------------------------------------
Syscall ==
  \/ sys_fork \/ sys_fork_fails \/ sys_wait_fails \/ sys_yield \/ sys_exit \/ sys_exec
  \/ \E q \in Pids \cup {initproc} : sys_kill(q)
  \/ \E q \in Pids \cup {initproc, NULL} : sys_wait(q)

Kernel ==
  \/ TrapExit \/ user_main \/ do_exit \/ reparent \/ exit_schedule
  \/ do_wait \/ wait_scan \/ wait_found \/ wait_sleep \/ wait_ret
  \/ init_main \/ init_schedule \/ init_asserts \/ cpu_idle

Next == Syscall \/ Kernel \/ init_main_fails \/ TimerInterrupt \/ TimerInKernel

Spec == Init /\ [][Next]_vars

(* Kernel code does not stop, and the clock keeps interrupting: a pending  *)
(* interrupt is taken as soon as the CPU is back in user mode.             *)
Fairness ==
  /\ WF_vars(Kernel)
  /\ SF_vars(QuietTrap(TRUE))
  /\ WF_vars(TimerInKernel)

FairSpec == Spec /\ Fairness
-----------------------------------------------------------------------------
(* The values of the variables. *)
TypeOK ==
  /\ state \in [Procs -> {"FREE", "SLEEPING", "RUNNABLE", "ZOMBIE"}]
  /\ wait_state \in [Procs -> {"0", "WT_CHILD"}]
  /\ exiting \in [Procs -> BOOLEAN]
  /\ need_resched \in [Procs -> BOOLEAN]
  /\ parent \in [Procs -> Procs \cup {NULL}]
  /\ cptr \in [Procs -> Procs \cup {NULL}]
  /\ optr \in [Procs -> Procs \cup {NULL}]
  /\ yptr \in [Procs -> Procs \cup {NULL}]
  /\ proc_list \in Seq(Procs)
  /\ nr_process \in 2..MAX_PROCESS
  /\ current \in Procs
  /\ mm \subseteq Procs
  /\ kstack \subseteq Procs
  /\ pc \in [Procs -> AllPC]
  /\ waiting \in [Procs -> Procs \cup {NULL}]
  /\ cursor \in Procs \cup {NULL}
  /\ panic \in {"no", "assert", "initproc exit", "wait idleproc or initproc",
                "create user_main failed"}

Children(p) == {q \in Live : parent[q] = p}

(* The doubly linked lists of children that set_links, remove_links and    *)
(* the loop of do_exit maintain: cptr leads to a child with no younger     *)
(* sibling, optr and yptr are inverse and stay among the children of one   *)
(* process, and every live process is in the list of its parent.  Inside   *)
(* the loop the first child may still have the yptr of its old place; a    *)
(* zombie that has left do_exit has no child, which nobody could wait for. *)
LinksOK ==
  /\ \A p \in Live : pc[p] = "dead" => Children(p) = {}
  /\ \A p \in Live : cptr[p] # NULL => cptr[p] \in Children(p)
  /\ \A p \in Live \ {idleproc} :
       /\ parent[p] \in Live \ {p}
       /\ optr[p] # NULL => /\ optr[p] \in Children(parent[p]) \ {p}
                            /\ yptr[optr[p]] = p
       /\ IF cptr[parent[p]] = p
          THEN yptr[p] = NULL \/ pc[parent[p]] = "reparent"
          ELSE /\ yptr[p] \in Children(parent[p]) \ {p}
               /\ optr[yptr[p]] = p

(* proc_list holds every live process but idleproc once, and nr_process    *)
(* counts them all.                                                        *)
ProcListOK ==
  /\ {proc_list[k] : k \in 1..Len(proc_list)} = Live \ {idleproc}
  /\ nr_process = Len(proc_list) + 1
  /\ nr_process = Cardinality(Live)

(* What do_wait waits for can still happen: a process asleep in do_wait    *)
(* has a child that it waits for, and no such child is a zombie already.   *)
NoLostWakeup ==
  \A p \in Live : state[p] = "SLEEPING" =>
    LET awaited == IF waiting[p] = NULL THEN Children(p)
                   ELSE Children(p) \cap {waiting[p]}
    IN  /\ awaited # {}
        /\ \A q \in awaited : state[q] # "ZOMBIE"

(* wait_state and state agree, so the tests wait_state == WT_CHILD of      *)
(* do_exit and do_kill wake sleepers only, and never a zombie.             *)
WaitStateOK ==
  \A p \in Procs : /\ wait_state[p] = "WT_CHILD" <=> state[p] = "SLEEPING"
                   /\ state[p] = "SLEEPING" => pc[p] = "wait_ret"
                   /\ state[p] = "ZOMBIE" => pc[p] \in {"reparent", "dead"}

(* No assertion of the modelled functions fails: do_fork's on wait_state,  *)
(* wakeup_proc's on the state, and those init_main ends with; and nobody   *)
(* waits for idleproc or initproc.                                         *)
AssertsHold == panic \notin {"assert", "wait idleproc or initproc"}

(* The CPU is given to a process that may use it, and what is held for a   *)
(* process is released with it: the kernel stack by the parent's do_wait,  *)
(* the address space already by do_exit.                                   *)
ResourcesOK ==
  /\ state[current] = "RUNNABLE" \/ pc[current] = "reparent"
  /\ kstack = Live \ {idleproc}
  /\ \A p \in mm : state[p] \in {"RUNNABLE", "SLEEPING"}
  /\ \A p \in Live : pc[p] \in UserPC => p \in mm

(* A zombie stays one until its parent, running do_wait, frees it. *)
ReapedByParent ==
  [][\A p \in Procs : state[p] = "ZOMBIE" =>
       \/ state'[p] = "ZOMBIE"
       \/ state'[p] = "FREE" /\ parent[p] = current /\ pc[current] = "wait_scan"]_vars

(* A process that do_kill marked dies, whatever it is doing: the chain     *)
(* do_kill, PF_EXITING, wakeup_proc, do_wait, do_exit that the comment on  *)
(* the SYS_kill call at the head of proc.c promises.                       *)
KilledDies ==
  \A p \in Pids : exiting[p] ~> (state[p] \in {"ZOMBIE", "FREE"} \/ panic # "no")

(* What do_kill does achieve: a process it wakes in do_wait, and a process *)
(* with no child to wait for, exits.                                       *)
KilledEnds ==
  \A p \in Watched :
    (exiting[p] /\ (Children(p) = {} \/ (state[p] = "RUNNABLE" /\ pc[p] = "wait_ret")))
      ~> (state[p] \in {"ZOMBIE", "FREE"} \/ panic # "no")

(* Every zombie child of initproc is reaped. *)
InitReaps ==
  \A p \in Watched : (state[p] = "ZOMBIE" /\ parent[p] = initproc)
                    ~> (state[p] = "FREE" \/ panic # "no")

(* schedule() is fair: a runnable process gets the CPU, however many       *)
(* others fork, yield and exit.                                            *)
NoStarvation ==
  \A p \in Watched \cup {initproc} :
    state[p] = "RUNNABLE" ~> (current = p \/ panic # "no")
=============================================================================
