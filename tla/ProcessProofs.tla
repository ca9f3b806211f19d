--------------------------- MODULE ProcessProofs ----------------------------
(***************************************************************************)
(* For every set of pids and every MAX_PROCESS: the type invariant of      *)
(* Process; state and wait_state agree; proc_list and nr_process are the   *)
(* live processes and their number; the sibling lists are whole; nobody    *)
(* sleeps in do_wait for what has happened already; every assertion of the *)
(* kernel holds; kernel stacks and address spaces go with their processes; *)
(* and zombies are freed by their parents.                                 *)
(***************************************************************************)
EXTENDS Process, FiniteSetTheorems, TLAPS

(* Who has the CPU, and that idleproc and initproc never end: schedule()   *)
(* gives the CPU to a runnable process, and only do_exit's loop runs in a  *)
(* process that is not runnable any more.                                  *)
RunOK ==
  /\ state[idleproc] = "RUNNABLE" /\ pc[idleproc] = "cpu_idle"
  /\ state[initproc] \in {"RUNNABLE", "SLEEPING"}
  /\ \/ state[current] = "RUNNABLE"
     \/ state[current] = "ZOMBIE" /\ pc[current] = "reparent"

(* ProcListOK without its cardinality, and without duplicates. *)
Listed ==
  /\ \A p \in Procs : (\E k \in 1..Len(proc_list) : proc_list[k] = p)
                        <=> p # idleproc /\ state[p] # "FREE"
  /\ \A j, k \in 1..Len(proc_list) : proc_list[j] = proc_list[k] => j = k
  /\ nr_process = Len(proc_list) + 1

IInv == TypeOK /\ WaitStateOK /\ RunOK /\ Listed

(* What set_links does to the entries of proc_list, and what remove_links  *)
(* does.                                                                   *)
LEMMA PrependEntries ==
  ASSUME NEW S, NEW s \in Seq(S), NEW p \in S
  PROVE  /\ <<p>> \o s \in Seq(S)
         /\ Len(<<p>> \o s) = Len(s) + 1
         /\ (<<p>> \o s)[1] = p
         /\ \A k \in 2..(Len(s) + 1) : (<<p>> \o s)[k] = s[k - 1]
  OBVIOUS

LEMMA WithoutEntry ==
  ASSUME NEW S, NEW s \in Seq(S), NEW i \in 1..Len(s),
         \A j, k \in 1..Len(s) : s[j] = s[k] => j = k
  PROVE  /\ Without(s, s[i]) \in Seq(S)
         /\ Len(Without(s, s[i])) = Len(s) - 1
         /\ \A k \in 1..(Len(s) - 1) :
              Without(s, s[i])[k] = IF k < i THEN s[k] ELSE s[k + 1]
  <1> DEFINE t == [k \in 1..(Len(s) - 1) |-> IF k < i THEN s[k] ELSE s[k + 1]]
  <1>1. (CHOOSE k \in 1..Len(s) : s[k] = s[i]) = i
    <2>1. \E k \in 1..Len(s) : s[k] = s[i]
      OBVIOUS
    <2> QED
      BY <2>1
  <1>2. Without(s, s[i]) = t
    BY <1>1 DEF Without
  <1>3. Len(s) - 1 \in Nat
    OBVIOUS
  <1>4. t \in [1..(Len(s) - 1) -> S]
    OBVIOUS
  <1>5. t \in Seq(S) /\ Len(t) = Len(s) - 1
    BY <1>3, <1>4
  <1> QED
    BY <1>2, <1>5

(* Once proc_list is changed by set_links or remove_links, so is what is   *)
(* said of it.                                                             *)
LEMMA SetLinksListed ==
  ASSUME TypeOK, Listed, Room,
         NEW p \in Pids, state[p] = "FREE", set_links(p), state' = [state EXCEPT ![p] = "RUNNABLE"]
  PROVE  Listed' /\ proc_list' \in Seq(Procs) /\ nr_process' \in 2..MAX_PROCESS
  <1>1. p \in Procs /\ p # idleproc /\ proc_list \in Seq(Procs) /\ nr_process \in 2..MAX_PROCESS
    BY ProcsAssumption DEF TypeOK, Procs
  <1>2. /\ proc_list' \in Seq(Procs)
        /\ Len(proc_list') = Len(proc_list) + 1
        /\ proc_list'[1] = p
        /\ \A k \in 2..(Len(proc_list) + 1) : proc_list'[k] = proc_list[k - 1]
    BY <1>1, PrependEntries DEF set_links
  <1>3. \A k \in 1..Len(proc_list) : proc_list[k] # p
    BY <1>1 DEF Listed
  <1>4. ASSUME NEW q \in Procs
        PROVE  (\E k \in 1..Len(proc_list') : proc_list'[k] = q)
                 <=> q # idleproc /\ state'[q] # "FREE"
    <2>1. CASE q = p
      <3>1. state'[p] = "RUNNABLE"
        BY <1>1 DEF TypeOK
      <3>2. 1 \in 1..Len(proc_list')
        BY <1>1, <1>2
      <3> QED
        BY <1>1, <1>2, <2>1, <3>1, <3>2
    <2>2. CASE q # p
      <3>1. state'[q] = state[q]
        BY <2>2 DEF TypeOK
      <3>2. (\E k \in 1..Len(proc_list') : proc_list'[k] = q)
              <=> (\E k \in 1..Len(proc_list) : proc_list[k] = q)
        <4>1. ASSUME NEW k \in 1..Len(proc_list), proc_list[k] = q
              PROVE  \E j \in 1..Len(proc_list') : proc_list'[j] = q
          <5>1. k + 1 \in 2..(Len(proc_list) + 1) /\ (k + 1) - 1 = k
            BY <1>1
          <5>2. proc_list'[k + 1] = q
            BY <1>2, <4>1, <5>1
          <5> QED
            BY <1>2, <5>1, <5>2
        <4>2. ASSUME NEW k \in 1..Len(proc_list'), proc_list'[k] = q
              PROVE  \E j \in 1..Len(proc_list) : proc_list[j] = q
          <5>1. k \in 2..(Len(proc_list) + 1)
            BY <1>1, <1>2, <2>2, <4>2
          <5> QED
            BY <1>1, <1>2, <4>2, <5>1
        <4> QED
          BY <4>1, <4>2
      <3> QED
        BY <3>1, <3>2 DEF Listed
    <2> QED
      BY <2>1, <2>2
  <1>5. ASSUME NEW j \in 1..Len(proc_list'), NEW k \in 1..Len(proc_list'),
               proc_list'[j] = proc_list'[k]
        PROVE  j = k
    <2>1. \A i \in 2..(Len(proc_list) + 1) : i - 1 \in 1..Len(proc_list)
      BY <1>1
    <2>2. \A i \in 1..Len(proc_list') : i = 1 \/ i \in 2..(Len(proc_list) + 1)
      BY <1>1, <1>2
    <2>3. CASE j = 1 \/ k = 1
      BY <1>2, <1>3, <1>5, <2>1, <2>2, <2>3
    <2>4. CASE j # 1 /\ k # 1
      <3>1. proc_list[j - 1] = proc_list[k - 1] /\ j - 1 \in 1..Len(proc_list) /\ k - 1 \in 1..Len(proc_list)
        BY <1>2, <1>5, <2>1, <2>2, <2>4
      <3> QED
        BY <1>1, <3>1 DEF Listed
    <2> QED
      BY <2>3, <2>4
  <1>6. nr_process' = Len(proc_list') + 1 /\ nr_process' \in 2..MAX_PROCESS
    BY <1>1, <1>2, ProcsAssumption DEF set_links, Room, Listed
  <1> QED
    BY <1>2, <1>4, <1>5, <1>6 DEF Listed

LEMMA RemoveLinksListed ==
  ASSUME TypeOK, Listed, state[initproc] # "FREE",
         NEW p \in Procs, p # idleproc, p # initproc, state[p] # "FREE",
         remove_links(p), state' = [state EXCEPT ![p] = "FREE"]
  PROVE  Listed' /\ proc_list' \in Seq(Procs) /\ nr_process' \in 2..MAX_PROCESS
  <1>1. /\ proc_list \in Seq(Procs) /\ nr_process \in 2..MAX_PROCESS
        /\ Len(proc_list) \in Nat /\ MAX_PROCESS \in Nat
        /\ state \in [Procs -> {"FREE", "SLEEPING", "RUNNABLE", "ZOMBIE"}]
    <2>1. proc_list \in Seq(Procs)
      BY DEF TypeOK
    <2>2. Len(proc_list) \in Nat
      BY <2>1
    <2>3. MAX_PROCESS \in Nat
      BY ProcsAssumption
    <2> QED
      BY <2>1, <2>2, <2>3 DEF TypeOK
  <1>2. PICK i \in 1..Len(proc_list) : proc_list[i] = p
    BY DEF Listed
  <1>3. /\ proc_list' \in Seq(Procs)
        /\ Len(proc_list') = Len(proc_list) - 1
        /\ \A k \in 1..(Len(proc_list) - 1) :
             proc_list'[k] = IF k < i THEN proc_list[k] ELSE proc_list[k + 1]
    <2>1. proc_list' = Without(proc_list, proc_list[i])
      BY <1>2 DEF remove_links
    <2>2. \A j, k \in 1..Len(proc_list) : proc_list[j] = proc_list[k] => j = k
      BY DEF Listed
    <2> QED
      BY <1>1, <2>1, <2>2, WithoutEntry
  <1>4. \A j, k \in 1..Len(proc_list) : proc_list[j] = proc_list[k] => j = k
    BY DEF Listed
  <1>5. ASSUME NEW k \in 1..Len(proc_list')
        PROVE  \E j \in 1..Len(proc_list) : j # i /\ proc_list'[k] = proc_list[j]
    <2>1. CASE k < i
      BY <1>1, <1>2, <1>3, <2>1
    <2>2. CASE ~(k < i)
      BY <1>1, <1>2, <1>3, <2>2
    <2> QED
      BY <2>1, <2>2
  <1>6. ASSUME NEW j \in 1..Len(proc_list), j # i
        PROVE  \E k \in 1..Len(proc_list') : proc_list'[k] = proc_list[j]
    <2>1. CASE j < i
      BY <1>1, <1>2, <1>3, <2>1
    <2>2. CASE ~(j < i)
      <3>1. j - 1 \in 1..(Len(proc_list) - 1) /\ ~(j - 1 < i) /\ (j - 1) + 1 = j
        BY <1>1, <1>2, <1>6, <2>2
      <3> QED
        BY <1>3, <3>1
    <2> QED
      BY <2>1, <2>2
  <1>7. ASSUME NEW q \in Procs
        PROVE  (\E k \in 1..Len(proc_list') : proc_list'[k] = q)
                 <=> q # idleproc /\ state'[q] # "FREE"
    <2>1. CASE q = p
      <3>1. state'[p] = "FREE"
        BY <1>1
      <3>2. \A j \in 1..Len(proc_list) : j # i => proc_list[j] # p
        BY <1>2, <1>4
      <3> QED
        BY <1>5, <2>1, <3>1, <3>2
    <2>2. CASE q # p
      <3>1. state'[q] = state[q]
        BY <1>1, <2>2
      <3>2. (\E k \in 1..Len(proc_list') : proc_list'[k] = q)
              <=> (\E k \in 1..Len(proc_list) : proc_list[k] = q)
        BY <1>2, <1>5, <1>6, <2>2, ZenonT(60)
      <3> QED
        BY <3>1, <3>2 DEF Listed
    <2> QED
      BY <2>1, <2>2
  <1>8. ASSUME NEW j \in 1..Len(proc_list'), NEW k \in 1..Len(proc_list'),
               proc_list'[j] = proc_list'[k]
        PROVE  j = k
    <2> DEFINE old(m) == IF m < i THEN m ELSE m + 1
    <2>1. \A m \in 1..Len(proc_list') : old(m) \in 1..Len(proc_list) /\ proc_list'[m] = proc_list[old(m)]
      BY <1>1, <1>2, <1>3
    <2>2. old(j) = old(k)
      <3>1. /\ old(j) \in 1..Len(proc_list) /\ old(k) \in 1..Len(proc_list)
            /\ proc_list[old(j)] = proc_list[old(k)]
        BY <1>8, <2>1
      <3> HIDE DEF old
      <3> QED
        BY <1>4, <3>1
    <2> QED
      BY <1>1, <1>3, <2>2
  <1>9. PICK m \in 1..Len(proc_list) : proc_list[m] = initproc
    BY ProcsAssumption DEF Listed, Procs
  <1>10. Len(proc_list) >= 2
    BY <1>1, <1>2, <1>9
  <1>11. nr_process' = Len(proc_list') + 1 /\ nr_process' \in 2..MAX_PROCESS
    <2>1. nr_process' = nr_process - 1 /\ nr_process = Len(proc_list) + 1
      BY DEF remove_links, Listed
    <2> QED
      BY <1>1, <1>3, <1>10, <2>1
  <1> QED
    BY <1>3, <1>7, <1>8, <1>11 DEF Listed

(* A step that frees no process and makes none leaves the list as it is. *)
LEMMA SameListed ==
  ASSUME Listed, UNCHANGED <<proc_list, nr_process>>,
         \A p \in Procs : state'[p] = "FREE" <=> state[p] = "FREE"
  PROVE  Listed'
  BY DEF Listed

(* schedule() gives the CPU to a process that is runnable in st. *)
LEMMA ScheduleRunnable ==
  ASSUME NEW st, st[idleproc] = "RUNNABLE", schedule(st)
  PROVE  current' \in Procs /\ st[current'] = "RUNNABLE"
  BY DEF schedule, IsNext

(* Updating a function outside its domain: the parent of a process is a    *)
(* process, but this invariant does not say so.                            *)
LEMMA ExceptOutside ==
  ASSUME NEW S, NEW T, NEW f \in [S -> T], NEW x, x \notin S, NEW v
  PROVE  [f EXCEPT ![x] = v] = f
  OBVIOUS

LEMMA InitIInv == Init => IInv
  <1> SUFFICES ASSUME Init PROVE IInv
    OBVIOUS
  <1> USE ProcsAssumption
  <1>1. TypeOK
    BY DEF Init, TypeOK, Procs, AllPC, UserPC, ExitPC, WaitPC, InitPC
  <1>2. WaitStateOK /\ RunOK
    BY DEF Init, WaitStateOK, RunOK, Procs
  <1>3. Listed
    BY DEF Init, Listed, Procs
  <1> QED
    BY <1>1, <1>2, <1>3 DEF IInv

USE DEF AllPC, UserPC, ExitPC, WaitPC, InitPC

(* The actions in which the current process, which stays RUNNABLE, only    *)
(* moves on: state, wait_state and the links are not changed.              *)
LEMMA QuietStep ==
  ASSUME IInv, state[current] = "RUNNABLE", TypeOK',
         UNCHANGED <<state, wait_state, proc_list, nr_process>>,
         state[current'] = "RUNNABLE",
         \A p \in Procs : p # current => pc'[p] = pc[p],
         current = idleproc => pc'[idleproc] = pc[idleproc]
  PROVE  IInv'
  <1> USE DEF IInv
  <1>1. WaitStateOK'
    BY DEF WaitStateOK, TypeOK
  <1>2. RunOK'
    BY ProcsAssumption DEF RunOK, TypeOK, Procs
  <1>3. Listed'
    BY SameListed
  <1> QED
    BY <1>1, <1>2, <1>3

(* Outside the loop of do_exit the current process is RUNNABLE, and only   *)
(* idleproc is in cpu_idle.                                                *)
LEMMA AtRunnable ==
  ASSUME IInv, NEW loc \in AllPC \ {"reparent", "cpu_idle"}, At(loc)
  PROVE  state[current] = "RUNNABLE" /\ current # idleproc /\ current \in Procs
  BY DEF IInv, RunOK, TypeOK, At

LEMMA NextIInv == IInv /\ [Next]_vars => IInv'
  <1> SUFFICES ASSUME IInv, [Next]_vars PROVE IInv'
    OBVIOUS
  <1>0. TypeOK /\ WaitStateOK /\ RunOK /\ Listed
    BY DEF IInv
  <1>1. ASSUME NEW resched \in BOOLEAN, QuietTrap(resched) PROVE IInv'
    <2>1. state[current] = "RUNNABLE" /\ current # idleproc
      BY <1>1, AtRunnable DEF QuietTrap
    <2>2. TypeOK'
      BY <1>0, <1>1 DEF QuietTrap, Goto, TypeOK, links
    <2> QED
      BY <1>0, <1>1, <2>1, <2>2, QuietStep DEF QuietTrap, Goto, TypeOK, links
  <1>2. CASE TimerInKernel
    <2>1. TypeOK'
      BY <1>0, <1>2 DEF TimerInKernel, TypeOK, links
    <2>2. WaitStateOK' /\ RunOK'
      BY <1>0, <1>2 DEF TimerInKernel, WaitStateOK, RunOK, links
    <2>3. Listed'
      BY <1>0, <1>2, SameListed DEF TimerInKernel, links
    <2> QED
      BY <2>1, <2>2, <2>3 DEF IInv
  <1>3. CASE TrapExit
    <2>1. state[current] = "RUNNABLE" /\ current # idleproc
      BY <1>3, AtRunnable DEF TrapExit
    <2>2. current' \in Procs /\ state[current'] = "RUNNABLE" /\ need_resched' \in [Procs -> BOOLEAN]
      <3>1. CASE schedule(state)
        BY <1>0, <3>1, ScheduleRunnable DEF RunOK, schedule, TypeOK
      <3>2. CASE UNCHANGED <<need_resched, current>>
        BY <1>0, <2>1, <3>2 DEF TypeOK
      <3> QED
        BY <1>3, <3>1, <3>2 DEF TrapExit
    <2>3. UNCHANGED <<state, wait_state, exiting, links, mm, kstack, waiting, cursor, panic>>
      BY <1>3 DEF TrapExit
    <2>4. pc' \in [Procs -> AllPC] /\ \A p \in Procs : p # current => pc'[p] = pc[p]
      BY <1>0, <1>3 DEF TrapExit, Goto, TypeOK
    <2>5. TypeOK'
      BY <1>0, <2>2, <2>3, <2>4 DEF TypeOK, links
    <2> QED
      BY <1>0, <2>1, <2>2, <2>3, <2>4, <2>5, QuietStep DEF links
  <1>4. CASE sys_exit
    <2>1. state[current] = "RUNNABLE" /\ current # idleproc
      BY <1>4, AtRunnable DEF sys_exit
    <2>2. TypeOK'
      BY <1>0, <1>4 DEF sys_exit, Goto, TypeOK, links
    <2> QED
      BY <1>0, <1>4, <2>1, <2>2, QuietStep DEF sys_exit, Goto, TypeOK, links
  <1>5. ASSUME NEW loc \in {"trap_exit", "user"}, At("user") \/ At("user_main"), do_execve(loc)
        PROVE  IInv'
    <2>1. state[current] = "RUNNABLE" /\ current # idleproc /\ current \in Procs
      BY <1>5, AtRunnable
    <2>2. TypeOK'
      BY <1>0, <1>5, <2>1 DEF do_execve, Goto, TypeOK, links
    <2>3. UNCHANGED <<state, wait_state, proc_list, nr_process, current>>
      BY <1>5 DEF do_execve, links
    <2>4. \A p \in Procs : p # current => pc'[p] = pc[p]
      BY <1>0, <1>5 DEF do_execve, Goto, TypeOK
    <2> QED
      BY <2>1, <2>2, <2>3, <2>4, QuietStep
  <1>6. ASSUME NEW q \in Pids \cup {initproc, NULL}, sys_wait(q) PROVE IInv'
    <2>1. state[current] = "RUNNABLE" /\ current # idleproc
      BY <1>6, AtRunnable DEF sys_wait
    <2>2. TypeOK'
      BY <1>0, <1>6 DEF sys_wait, Goto, TypeOK, links, Procs
    <2> QED
      BY <1>0, <1>6, <2>1, <2>2, QuietStep DEF sys_wait, Goto, TypeOK, links
  <1>7. CASE do_wait
    <2>1. state[current] = "RUNNABLE" /\ current # idleproc
      BY <1>7, AtRunnable DEF do_wait
    <2>2. TypeOK'
      BY <1>0, <1>7, ZenonT(60) DEF do_wait, Goto, WaitReturns, TypeOK, links
    <2>3. UNCHANGED <<state, wait_state, proc_list, nr_process, current>>
      BY <1>7 DEF do_wait, links
    <2>4. \A p \in Procs : p # current => pc'[p] = pc[p]
      BY <1>0, <1>7 DEF do_wait, Goto, TypeOK
    <2> QED
      BY <2>1, <2>2, <2>3, <2>4, QuietStep
  <1>8. CASE wait_scan
    <2>1. state[current] = "RUNNABLE" /\ current # idleproc
      BY <1>8, AtRunnable DEF wait_scan
    <2>2. TypeOK'
      BY <1>0, <1>8 DEF wait_scan, Goto, WaitReturns, TypeOK, links
    <2>3. UNCHANGED <<state, wait_state, proc_list, nr_process, current>>
      BY <1>8 DEF wait_scan, links
    <2>4. \A p \in Procs : p # current => pc'[p] = pc[p]
      BY <1>0, <1>8 DEF wait_scan, Goto, TypeOK
    <2> QED
      BY <2>1, <2>2, <2>3, <2>4, QuietStep
  <1>9. CASE wait_ret
    <2>1. state[current] = "RUNNABLE" /\ current # idleproc
      BY <1>9, AtRunnable DEF wait_ret
    <2>2. TypeOK'
      BY <1>0, <1>9 DEF wait_ret, Goto, TypeOK, links
    <2> QED
      BY <1>0, <1>9, <2>1, <2>2, QuietStep DEF wait_ret, Goto, TypeOK, links
  <1>10. CASE init_main_fails
    <2>1. TypeOK'
      BY <1>0, <1>10 DEF init_main_fails, TypeOK, links
    <2>2. state[current] = "RUNNABLE"
      BY <1>10, AtRunnable DEF init_main_fails
    <2> QED
      BY <1>0, <1>10, <2>1, <2>2, QuietStep DEF init_main_fails, links
  <1>11. CASE init_schedule \/ cpu_idle
    <2>1. UNCHANGED <<state, wait_state, exiting, links, mm, kstack, waiting, cursor, panic>>
      BY <1>11 DEF init_schedule, cpu_idle
    <2>2. state[current] = "RUNNABLE"
      BY <1>0, <1>11 DEF init_schedule, cpu_idle, At, RunOK
    <2>3. current' \in Procs /\ state[current'] = "RUNNABLE" /\ need_resched' \in [Procs -> BOOLEAN]
      BY <1>0, <1>11, ScheduleRunnable DEF init_schedule, cpu_idle, schedule, RunOK, TypeOK
    <2>4. /\ pc' \in [Procs -> AllPC] /\ \A p \in Procs : p # current => pc'[p] = pc[p]
          /\ current = idleproc => pc'[idleproc] = pc[idleproc]
      <3>1. CASE init_schedule
        <4>1. current # idleproc
          BY <3>1, AtRunnable DEF init_schedule
        <4> QED
          BY <1>0, <3>1, <4>1 DEF init_schedule, Goto, TypeOK
      <3>2. CASE cpu_idle
        BY <1>0, <3>2 DEF cpu_idle, TypeOK
      <3> QED
        BY <1>11, <3>1, <3>2
    <2>5. TypeOK'
      BY <1>0, <2>1, <2>3, <2>4 DEF TypeOK, links
    <2> QED
      BY <1>0, <2>1, <2>2, <2>3, <2>4, <2>5, QuietStep DEF links
  <1>12. CASE init_asserts
    <2>1. state[current] = "RUNNABLE" /\ current # idleproc
      BY <1>12, AtRunnable DEF init_asserts
    <2>2. TypeOK'
      BY <1>0, <1>12 DEF init_asserts, Goto, TypeOK, links
    <2> QED
      BY <1>0, <1>12, <2>1, <2>2, QuietStep DEF init_asserts, Goto, TypeOK, links
  <1>13. ASSUME NEW q \in Pids \cup {initproc}, sys_kill(q) PROVE IInv'
    <2>1. state[current] = "RUNNABLE" /\ current # idleproc /\ current \in Procs
      BY <1>13, AtRunnable DEF sys_kill
    <2>2. q \in Procs
      BY DEF Procs, ProcsAssumption
    <2>3. TypeOK'
      BY <1>0, <1>13 DEF sys_kill, wakeup_proc, Goto, TypeOK, links
    <2>4. UNCHANGED <<proc_list, nr_process, current>> /\ pc' = [pc EXCEPT ![current] = "trap_exit"]
      BY <1>13 DEF sys_kill, Goto, links
    <2>5. CASE KillWakes(q)
      <3>1. state[q] = "SLEEPING"
        BY <1>0, <2>2, <2>5 DEF WaitStateOK, KillWakes
      <3>2. /\ state' = [state EXCEPT ![q] = "RUNNABLE"]
            /\ wait_state' = [wait_state EXCEPT ![q] = "0"]
        BY <1>13, <2>5, <3>1 DEF sys_kill, wakeup_proc
      <3>3. WaitStateOK'
        BY <1>0, <2>1, <2>4, <3>1, <3>2 DEF WaitStateOK, TypeOK
      <3>4. RunOK'
        BY <1>0, <2>1, <2>2, <2>4, <3>1, <3>2, ProcsAssumption DEF RunOK, TypeOK, Procs
      <3>5. Listed'
        BY <1>0, <2>4, <3>1, <3>2, SameListed DEF TypeOK
      <3> QED
        BY <2>3, <3>3, <3>4, <3>5 DEF IInv
    <2>6. CASE ~KillWakes(q)
      <3>1. UNCHANGED <<state, wait_state>>
        BY <1>13, <2>6 DEF sys_kill, wakeup_proc
      <3> QED
        BY <1>0, <2>1, <2>3, <2>4, <3>1, QuietStep DEF TypeOK
    <2> QED
      BY <2>5, <2>6
  <1>14. ASSUME NEW p \in Pids, NEW loc \in [parent : {"trap_exit", "do_wait"}, child : {"user", "user_main"}],
                NEW childmm \in SUBSET {p}, At("user") \/ At("init_main"), do_fork(p, loc, childmm)
         PROVE  IInv'
    <2>1. state[current] = "RUNNABLE" /\ current # idleproc /\ current \in Procs
      BY <1>14, AtRunnable
    <2>2. p \in Procs /\ p # current /\ p # idleproc /\ p # initproc /\ state[p] = "FREE"
      BY <1>14, <2>1, ProcsAssumption DEF Procs, do_fork
    <2>3. Listed' /\ proc_list' \in Seq(Procs) /\ nr_process' \in 2..MAX_PROCESS
      BY <1>0, <1>14, SetLinksListed DEF do_fork
    <2>4. /\ state' = [state EXCEPT ![p] = "RUNNABLE"]
          /\ pc' = [pc EXCEPT ![current] = loc.parent, ![p] = loc.child]
          /\ UNCHANGED <<wait_state, exiting, need_resched, current, waiting, cursor>>
      BY <1>14 DEF do_fork
    <2>5. parent' \in [Procs -> Procs \cup {NULL}] /\ cptr' \in [Procs -> Procs \cup {NULL}]
          /\ optr' \in [Procs -> Procs \cup {NULL}] /\ yptr' \in [Procs -> Procs \cup {NULL}]
      BY <1>0, <1>14, <2>1, <2>2 DEF do_fork, set_links, TypeOK
    <2>6. mm' \subseteq Procs /\ kstack' \subseteq Procs /\ panic' \in {panic, "assert"}
      BY <1>0, <1>14, <2>2 DEF do_fork, TypeOK
    <2>7. TypeOK'
      BY <1>0, <2>3, <2>4, <2>5, <2>6 DEF TypeOK
    <2>8. WaitStateOK'
      BY <1>0, <2>1, <2>2, <2>4 DEF WaitStateOK, TypeOK
    <2>9. RunOK'
      BY <1>0, <2>1, <2>2, <2>4, ProcsAssumption DEF RunOK, TypeOK, Procs
    <2> QED
      BY <2>3, <2>7, <2>8, <2>9 DEF IInv
  <1>15. CASE do_exit
    <2>1. state[current] = "RUNNABLE" /\ current # idleproc /\ current \in Procs
      BY <1>15, AtRunnable DEF do_exit
    <2>2. TypeOK'
      BY <1>0, <1>15, ZenonT(60) DEF do_exit, wakeup_proc, Goto, TypeOK, links
    <2>3. UNCHANGED <<proc_list, nr_process, current>>
      BY <1>15 DEF do_exit, links
    <2>4. CASE current = initproc
      <3>1. UNCHANGED <<state, wait_state, pc>>
        BY <1>15, <2>4 DEF do_exit
      <3> QED
        BY <2>1, <2>2, <2>3, <3>1, QuietStep
    <2>5. CASE current # initproc
      <3> DEFINE q == parent[current]
                 st == [state EXCEPT ![current] = "ZOMBIE"]
      <3>1. pc' = [pc EXCEPT ![current] = "reparent"] /\ wakeup_proc(ParentWaits, st, q)
        BY <1>15, <2>5 DEF do_exit, Goto
      <3>2. CASE ParentWaits /\ q \in Procs
        <4>1. state[q] = "SLEEPING" /\ q # current /\ q # idleproc /\ st[q] = "SLEEPING"
          BY <1>0, <2>1, <3>2 DEF ParentWaits, WaitStateOK, RunOK, TypeOK
        <4>2. /\ state' = [st EXCEPT ![q] = "RUNNABLE"]
              /\ wait_state' = [wait_state EXCEPT ![q] = "0"]
          BY <3>1, <3>2, <4>1 DEF wakeup_proc
        <4>3. /\ state'[q] = "RUNNABLE" /\ state'[current] = "ZOMBIE" /\ wait_state'[q] = "0"
              /\ \A p \in Procs \ {q, current} : state'[p] = state[p]
              /\ \A p \in Procs \ {q} : wait_state'[p] = wait_state[p]
          BY <1>0, <2>1, <3>2, <4>1, <4>2 DEF TypeOK
        <4>4. pc'[current] = "reparent" /\ \A p \in Procs \ {current} : pc'[p] = pc[p]
          BY <1>0, <2>1, <3>1 DEF TypeOK
        <4> HIDE DEF q, st
        <4>5. WaitStateOK'
          BY <1>0, <2>1, <4>1, <4>3, <4>4 DEF WaitStateOK
        <4>6. RunOK'
          BY <1>0, <2>1, <2>3, <2>5, <4>1, <4>3, <4>4, ProcsAssumption DEF RunOK, Procs
        <4>7. Listed'
          BY <1>0, <2>1, <2>3, <4>1, <4>3, SameListed
        <4> QED
          BY <2>2, <4>5, <4>6, <4>7 DEF IInv
      <3>3. CASE ~(ParentWaits /\ q \in Procs)
        <4>1. /\ state'[current] = "ZOMBIE" /\ UNCHANGED wait_state
              /\ \A p \in Procs \ {current} : state'[p] = state[p]
          <5>1. CASE ~ParentWaits
            BY <1>0, <2>1, <3>1, <5>1 DEF wakeup_proc, TypeOK
          <5>2. CASE q \notin Procs
            <6>1. [st EXCEPT ![q] = "RUNNABLE"] = st /\ [wait_state EXCEPT ![q] = "0"] = wait_state
              <7>1. /\ state \in [Procs -> {"FREE", "SLEEPING", "RUNNABLE", "ZOMBIE"}]
                    /\ wait_state \in [Procs -> {"0", "WT_CHILD"}]
                BY <1>0 DEF TypeOK
              <7>2. st \in [Procs -> {"FREE", "SLEEPING", "RUNNABLE", "ZOMBIE"}]
                BY <7>1
              <7> HIDE DEF q, st
              <7> QED
                BY <5>2, <7>1, <7>2, ExceptOutside
            <6>2. /\ state' = st /\ UNCHANGED wait_state
              BY <3>1, <6>1 DEF wakeup_proc
            <6> QED
              BY <1>0, <2>1, <6>2 DEF TypeOK
          <5> QED
            BY <3>3, <5>1, <5>2
        <4>2. pc'[current] = "reparent" /\ \A p \in Procs \ {current} : pc'[p] = pc[p]
          BY <1>0, <2>1, <3>1 DEF TypeOK
        <4> HIDE DEF q, st
        <4>3. WaitStateOK'
          BY <1>0, <2>1, <4>1, <4>2 DEF WaitStateOK
        <4>4. RunOK'
          BY <1>0, <2>1, <2>3, <2>5, <4>1, <4>2, ProcsAssumption DEF RunOK, Procs
        <4>5. Listed'
          BY <1>0, <2>1, <2>3, <4>1, SameListed
        <4> QED
          BY <2>2, <4>3, <4>4, <4>5 DEF IInv
      <3> QED
        BY <3>2, <3>3
    <2> QED
      BY <2>4, <2>5
  <1>16. CASE reparent
    <2>1. TypeOK'
      BY <1>0, <1>16, ProcsAssumption DEF reparent, wakeup_proc, TypeOK, Procs
    <2>2. UNCHANGED <<proc_list, nr_process, current, pc>> /\ initproc \in Procs /\ initproc # idleproc
      BY <1>16, ProcsAssumption DEF reparent, Procs
    <2>3. CASE AdoptWakes(cptr[current])
      <3>1. state[initproc] = "SLEEPING"
        BY <1>0, <2>2, <2>3 DEF AdoptWakes, WaitStateOK
      <3>2. /\ state' = [state EXCEPT ![initproc] = "RUNNABLE"]
            /\ wait_state' = [wait_state EXCEPT ![initproc] = "0"]
        BY <1>16, <2>3, <3>1 DEF reparent, wakeup_proc
      <3>3. WaitStateOK'
        BY <1>0, <2>2, <3>1, <3>2 DEF WaitStateOK, TypeOK
      <3>4. RunOK'
        <4>1. /\ state'[initproc] = "RUNNABLE"
              /\ \A p \in Procs \ {initproc} : state'[p] = state[p]
          BY <1>0, <2>2, <3>2 DEF TypeOK
        <4>2. current \in Procs /\ idleproc \in Procs
          BY <1>0 DEF TypeOK, Procs
        <4> QED
          BY <1>0, <2>2, <4>1, <4>2 DEF RunOK
      <3>5. Listed'
        BY <1>0, <2>2, <3>1, <3>2, SameListed DEF TypeOK
      <3> QED
        BY <2>1, <3>3, <3>4, <3>5 DEF IInv
    <2>4. CASE ~AdoptWakes(cptr[current])
      <3>1. UNCHANGED <<state, wait_state>>
        BY <1>16, <2>4 DEF reparent, wakeup_proc
      <3>2. WaitStateOK' /\ RunOK'
        BY <1>0, <2>2, <3>1 DEF WaitStateOK, RunOK
      <3>3. Listed'
        BY <1>0, <2>2, <3>1, SameListed
      <3> QED
        BY <2>1, <3>2, <3>3 DEF IInv
    <2> QED
      BY <2>3, <2>4
  <1>17. CASE exit_schedule
    <2>1. current' \in Procs /\ state[current'] = "RUNNABLE"
      BY <1>0, <1>17, ScheduleRunnable DEF exit_schedule, RunOK
    <2>2. pc[current] = "reparent" /\ current \in Procs /\ current # idleproc
      BY <1>0, <1>17 DEF exit_schedule, At, RunOK, TypeOK
    <2>3. /\ UNCHANGED <<state, wait_state, proc_list, nr_process>>
          /\ pc' = [pc EXCEPT ![current] = "dead"]
      BY <1>17 DEF exit_schedule, Goto, links
    <2>4. TypeOK'
      BY <1>0, <1>17, <2>1 DEF exit_schedule, schedule, Goto, TypeOK, links
    <2>5. WaitStateOK'
      BY <1>0, <2>2, <2>3 DEF WaitStateOK, TypeOK
    <2>6. RunOK'
      BY <1>0, <2>1, <2>2, <2>3, ProcsAssumption DEF RunOK, TypeOK, Procs
    <2>7. Listed'
      BY <1>0, <2>3, SameListed
    <2> QED
      BY <2>4, <2>5, <2>6, <2>7 DEF IInv
  <1>18. CASE wait_sleep
    <2>1. state[current] = "RUNNABLE" /\ current # idleproc /\ current \in Procs
      BY <1>18, AtRunnable DEF wait_sleep
    <2>2. /\ state' = [state EXCEPT ![current] = "SLEEPING"]
          /\ wait_state' = [wait_state EXCEPT ![current] = "WT_CHILD"]
          /\ pc' = [pc EXCEPT ![current] = "wait_ret"]
          /\ UNCHANGED <<proc_list, nr_process>>
      BY <1>18 DEF wait_sleep, Goto, links
    <2>3. state'[idleproc] = "RUNNABLE"
      BY <1>0, <2>1, <2>2, ProcsAssumption DEF RunOK, TypeOK, Procs
    <2>4. current' \in Procs /\ state'[current'] = "RUNNABLE"
      BY <1>18, <2>3, ScheduleRunnable DEF wait_sleep
    <2>5. TypeOK'
      BY <1>0, <1>18, <2>2, <2>4 DEF wait_sleep, schedule, TypeOK, links
    <2>6. WaitStateOK'
      BY <1>0, <2>1, <2>2 DEF WaitStateOK, TypeOK
    <2>7. RunOK'
      BY <1>0, <2>1, <2>2, <2>3, <2>4, ProcsAssumption DEF RunOK, TypeOK, Procs
    <2>8. Listed'
      BY <1>0, <2>1, <2>2, SameListed DEF TypeOK
    <2> QED
      BY <2>5, <2>6, <2>7, <2>8 DEF IInv
  <1>19. CASE wait_found
    <2>1. state[current] = "RUNNABLE" /\ current # idleproc /\ current \in Procs
      BY <1>19, AtRunnable DEF wait_found
    <2>2. cursor \in Procs /\ state[cursor] = "ZOMBIE"
      BY <1>0, <1>19 DEF wait_found, TypeOK
    <2>3. cursor \notin {idleproc, initproc} /\ cursor # current
      BY <1>0, <2>1, <2>2 DEF RunOK
    <2>4. /\ remove_links(cursor)
          /\ state' = [state EXCEPT ![cursor] = "FREE"]
          /\ pc' = [pc EXCEPT ![cursor] = "none", ![current] = WaitReturns(TRUE)]
          /\ UNCHANGED <<wait_state, current, mm, panic>>
      BY <1>19, <2>3 DEF wait_found
    <2>5. Listed' /\ proc_list' \in Seq(Procs) /\ nr_process' \in 2..MAX_PROCESS
      BY <1>0, <2>2, <2>3, <2>4, RemoveLinksListed DEF RunOK
    <2>6. parent' \in [Procs -> Procs \cup {NULL}] /\ cptr' \in [Procs -> Procs \cup {NULL}]
          /\ optr' \in [Procs -> Procs \cup {NULL}] /\ yptr' \in [Procs -> Procs \cup {NULL}]
      BY <1>0, <2>2, <2>4 DEF remove_links, TypeOK
    <2>7. exiting' \in [Procs -> BOOLEAN] /\ need_resched' \in [Procs -> BOOLEAN]
          /\ waiting' \in [Procs -> Procs \cup {NULL}] /\ cursor' = NULL /\ kstack' \subseteq Procs
      BY <1>0, <1>19, <2>3 DEF wait_found, TypeOK
    <2>8. pc' \in [Procs -> AllPC] /\ state' \in [Procs -> {"FREE", "SLEEPING", "RUNNABLE", "ZOMBIE"}]
      BY <1>0, <2>4 DEF WaitReturns, TypeOK
    <2>9. TypeOK'
      BY <1>0, <2>4, <2>5, <2>6, <2>7, <2>8 DEF TypeOK
    <2>10. WaitStateOK'
      BY <1>0, <2>1, <2>2, <2>3, <2>4 DEF WaitStateOK, TypeOK
    <2>11. RunOK'
      BY <1>0, <2>1, <2>2, <2>3, <2>4, ProcsAssumption DEF RunOK, TypeOK, Procs
    <2> QED
      BY <2>5, <2>9, <2>10, <2>11 DEF IInv
  <1>20. CASE UNCHANGED vars
    <2> USE <1>20 DEF vars, links
    <2>1. TypeOK'
      BY <1>0 DEF TypeOK
    <2>2. WaitStateOK' /\ RunOK'
      BY <1>0 DEF WaitStateOK, RunOK
    <2>3. Listed'
      BY <1>0, SameListed
    <2> QED
      BY <2>1, <2>2, <2>3 DEF IInv
  <1>21. CASE sys_fork \/ init_main
    <2>1. CASE sys_fork
      <3>1. PICK p \in Pids : do_fork(p, [parent |-> "trap_exit", child |-> "user"],
                                      IF current \in mm THEN {p} ELSE {})
        BY <2>1 DEF sys_fork
      <3> QED
        BY <1>14, <2>1, <3>1 DEF sys_fork
    <2>2. CASE init_main
      <3>1. PICK p \in Pids : do_fork(p, [parent |-> "do_wait", child |-> "user_main"], {})
        BY <2>2 DEF init_main
      <3> QED
        BY <1>14, <2>2, <3>1 DEF init_main
    <2> QED
      BY <1>21, <2>1, <2>2
  <1>22. CASE Syscall
    BY <1>1, <1>4, <1>5, <1>6, <1>13, <1>21, <1>22
       DEF Syscall, sys_fork_fails, sys_wait_fails, sys_yield, sys_exec
  <1>23. CASE Kernel
    BY <1>3, <1>5, <1>7, <1>8, <1>9, <1>11, <1>12, <1>15, <1>16, <1>17, <1>18, <1>19, <1>21, <1>23
       DEF Kernel, user_main
  <1>24. CASE TimerInterrupt
    BY <1>1, <1>24 DEF TimerInterrupt
  <1> QED
    BY <1>2, <1>10, <1>20, <1>22, <1>23, <1>24 DEF Next

(* The invariant holds in every reachable state. *)
THEOREM Invariance == Spec => []IInv
  BY InitIInv, NextIInv, PTL DEF Spec

(* Every variable keeps its type, and nr_process the limits of do_fork,    *)
(* for every set of pids.                                                  *)
THEOREM Typing == Spec => []TypeOK
  <1>1. IInv => TypeOK
    BY DEF IInv
  <1> QED
    BY Invariance, <1>1, PTL

(* The wait_state of a process says WT_CHILD exactly while it sleeps in    *)
(* do_wait: do_exit, the loop that hands children to initproc and do_kill  *)
(* wake sleepers only.                                                     *)
THEOREM WaitState == Spec => []WaitStateOK
  <1>1. IInv => WaitStateOK
    BY DEF IInv
  <1> QED
    BY Invariance, <1>1, PTL

(* proc_list and nr_process agree with the live processes. *)
LEMMA ListedCounts == IInv => ProcListOK
  <1> SUFFICES ASSUME IInv PROVE ProcListOK
    OBVIOUS
  <1> DEFINE S == Live \ {idleproc}
             len == Len(proc_list)
  <1>1. /\ proc_list \in Seq(Procs) /\ len \in Nat /\ nr_process = len + 1
        /\ idleproc \in Live /\ idleproc \in Procs
        /\ \A j, k \in 1..len : proc_list[j] = proc_list[k] => j = k
    <2>1. proc_list \in Seq(Procs)
      BY DEF IInv, TypeOK
    <2>2. len \in Nat
      BY <2>1
    <2> QED
      BY <2>1, <2>2, ProcsAssumption DEF IInv, RunOK, Listed, Live, Procs
  <1>2. \A p \in Procs : p \in S <=> \E k \in 1..len : proc_list[k] = p
    BY DEF IInv, Listed, Live
  <1>3. \A k \in 1..len : proc_list[k] \in Procs
    BY <1>1
  <1>4. {proc_list[k] : k \in 1..len} = S
    BY <1>2, <1>3 DEF Live
  <1>5. proc_list \in Bijection(1..len, S)
    <2>1. proc_list = [k \in 1..len |-> proc_list[k]]
      BY <1>1
    <2>2. proc_list \in [1..len -> S]
      BY <1>4, <2>1
    <2>3. \A p \in S : \E k \in 1..len : proc_list[k] = p
      BY <1>2 DEF Live
    <2> QED
      BY <1>1, <2>2, <2>3 DEF Bijection, Injection, Surjection, IsInjective
  <1>6. IsFiniteSet(S) /\ Cardinality(S) = len
    <2>1. ExistsBijection(1..len, S)
      BY <1>5 DEF ExistsBijection
    <2> HIDE DEF S, len
    <2>2. len \in Nat
      BY <1>1
    <2> QED
      BY <2>1, <2>2, FS_CountingElements, FS_NatBijection
  <1>7. Cardinality(S \cup {idleproc}) = len + 1
    BY <1>6, FS_AddElement
  <1>8. S \cup {idleproc} = Live
    BY <1>1
  <1> QED
    BY <1>1, <1>4, <1>7, <1>8 DEF ProcListOK

(* proc_list holds the live processes but idleproc, and nr_process counts  *)
(* them all, for every set of pids: init_main's assertions count on it.    *)
THEOREM ProcList == Spec => []ProcListOK
  BY Invariance, ListedCounts, PTL
-----------------------------------------------------------------------------
(* The children whose end the process waits for. *)
Awaited(p) == IF waiting[p] = NULL THEN Children(p) ELSE Children(p) \cap {waiting[p]}

(* Where a process may be: the places that are left before schedule(), and *)
(* those of initproc and of the processes with an address space; and what  *)
(* is held for a process.                                                  *)
Places ==
  /\ \A p \in Procs : pc[p] \in {"reparent", "wait_scan", "wait_sleep", "init_asserts"}
                        => p = current
  /\ \A p \in Procs : pc[p] \in UserPC \cup WaitPC => p \in mm \/ p = initproc
  /\ \A p \in Procs : pc[p] \in InitPC => p = initproc
  /\ pc[initproc] \in InitPC \cup WaitPC \cup {"do_exit"}
  /\ waiting[initproc] = NULL
  /\ pc[initproc] = "init_asserts" => cptr[initproc] = NULL
  /\ kstack = Live \ {idleproc}
  /\ \A p \in mm : state[p] \in {"RUNNABLE", "SLEEPING"}

(* Every process descends from initproc: g counts the generations.  A      *)
(* process that has been freed has left no children behind.                *)
Lineage(g) ==
  /\ \A p \in Procs : cptr[p] # NULL => cptr[p] \in Children(p)
  /\ parent[idleproc] = NULL /\ parent[initproc] = idleproc /\ cptr[idleproc] = initproc
  /\ g[initproc] = 0
  /\ \A p \in Live \ {idleproc, initproc} : parent[p] # idleproc /\ g[parent[p]] < g[p]

(* f numbers the children of each process, from the youngest on: the links *)
(* lead through all of them, and in no circle.                             *)
ByAge(f) ==
  \A p \in Live \ {idleproc} :
    /\ cptr[parent[p]] = p => f[p] = 0
    /\ optr[p] # NULL => f[optr[p]] = f[p] + 1
    /\ \A q \in Live \ {idleproc} : parent[p] = parent[q] /\ f[p] = f[q] => p = q

(* What do_wait has seen of the children so far. *)
Search(f) ==
  /\ pc[current] = "wait_scan" =>
       /\ cursor = NULL => waiting[current] = NULL /\ cptr[current] = NULL
       /\ cursor # NULL => /\ cursor \in Children(current)
                           /\ waiting[current] \in {NULL, cursor}
                           /\ waiting[current] = NULL =>
                                \A q \in Children(current) : f[q] < f[cursor] => state[q] # "ZOMBIE"
  /\ pc[current] = "wait_sleep" =>
       Awaited(current) # {} /\ \A q \in Awaited(current) : state[q] # "ZOMBIE"

Tree(f, g) ==
  /\ f \in [Procs -> Nat] /\ g \in [Procs -> Nat]
  /\ LinksOK /\ Lineage(g) /\ ByAge(f)

FInv ==
  /\ IInv /\ Places /\ NoLostWakeup /\ AssertsHold
  /\ \E f, g : Tree(f, g) /\ Search(f)

LEMMA LeastElement ==
  ASSUME NEW T \in SUBSET Nat, T # {}
  PROVE  \E x \in T : \A y \in T : x <= y
  <1> DEFINE R == {ss \in Nat \X Nat : ss[1] < ss[2]}
  <1>1. R = OpToRel(<, Nat)
    BY Zenon DEF OpToRel
  <1>2. IsWellFoundedOn(R, Nat)
    BY <1>1, NatLessThanWellFounded, Zenon
  <1>3. \A x, y \in Nat : y < x => <<y, x>> \in R
    OBVIOUS
  <1> HIDE DEF R
  <1>4. PICK x \in T : \A y \in T : ~ (<<y, x>> \in R)
    BY <1>2, WFMin, Zenon
  <1>5. \A y \in T : ~ (y < x)
    BY <1>3, <1>4
  <1> QED
    BY <1>4, <1>5

(* Of the processes in a set that is not empty, one has the least number.  *)
LEMMA LeastProc ==
  ASSUME NEW f \in [Procs -> Nat], NEW S \in SUBSET Procs, S # {}
  PROVE  \E m \in S : \A q \in S : f[m] <= f[q]
  <1> DEFINE T == {f[q] : q \in S}
  <1>1. T \in SUBSET Nat /\ T # {}
    OBVIOUS
  <1>2. PICK x \in T : \A y \in T : x <= y
    BY <1>1, LeastElement
  <1> QED
    BY <1>2

(* The links of a live process but idleproc: the younger sibling of one    *)
(* that is not the first child, and what f says of it.                     *)
LEMMA YoungerSibling ==
  ASSUME TypeOK, NEW f, NEW g, Tree(f, g),
         NEW q \in Live \ {idleproc}, cptr[parent[q]] # q
  PROVE  /\ yptr[q] \in Children(parent[q]) \ {q} /\ optr[yptr[q]] = q
         /\ f[q] = f[yptr[q]] + 1
  <1>1. yptr[q] \in Children(parent[q]) \ {q} /\ optr[yptr[q]] = q
    BY DEF Tree, LinksOK
  <1>2. yptr[q] \in Live /\ parent[yptr[q]] = parent[q] /\ q # NULL
    BY <1>1, ProcsAssumption DEF Children, Live
  <1>3. yptr[q] # idleproc
    BY <1>1, <1>2, ProcsAssumption DEF Tree, Lineage, LinksOK, Live
  <1> QED
    BY <1>1, <1>2, <1>3 DEF Tree, ByAge

(* Of the links to the older sibling there are not two to the same one,    *)
(* and none to a first child.                                              *)
LEMMA OlderSibling ==
  ASSUME TypeOK, NEW f, NEW g, Tree(f, g),
         NEW q \in Live \ {idleproc}, optr[q] # NULL
  PROVE  /\ optr[q] \in Children(parent[q]) \ {q} /\ yptr[optr[q]] = q
         /\ optr[q] # idleproc /\ cptr[parent[q]] # optr[q]
         /\ f[optr[q]] = f[q] + 1
  <1>1. optr[q] \in Children(parent[q]) \ {q} /\ yptr[optr[q]] = q
    BY DEF Tree, LinksOK
  <1>2. optr[q] # idleproc /\ parent[optr[q]] = parent[q] /\ optr[q] \in Live
    BY <1>1, ProcsAssumption DEF Tree, Lineage, LinksOK, Live, Children
  <1>3. f[optr[q]] = f[q] + 1 /\ f[q] \in Nat
    BY DEF Tree, ByAge, Live
  <1> QED
    BY <1>1, <1>2, <1>3 DEF Tree, ByAge

(* A process without a first child has none.                               *)
LEMMA NoFirstNoChild ==
  ASSUME TypeOK, NEW f, NEW g, Tree(f, g), NEW p \in Procs, cptr[p] = NULL
  PROVE  Children(p) = {}
  <1> SUFFICES ASSUME Children(p) # {} PROVE FALSE
    OBVIOUS
  <1>1. Children(p) \in SUBSET Procs /\ f \in [Procs -> Nat]
    BY DEF Children, Live, Tree
  <1>2. PICK m \in Children(p) : \A q \in Children(p) : f[m] <= f[q]
    BY <1>1, LeastProc
  <1>3. m \in Live \ {idleproc} /\ parent[m] = p /\ m # NULL
    BY <1>2, ProcsAssumption DEF Children, Tree, Lineage, Live
  <1>4. yptr[m] \in Children(p) /\ f[m] = f[yptr[m]] + 1
    BY <1>3, YoungerSibling
  <1> QED
    BY <1>1, <1>2, <1>4

(* The fields that are functions of a process.                             *)
LEMMA Fields ==
  ASSUME TypeOK
  PROVE  /\ state \in [Procs -> {"FREE", "SLEEPING", "RUNNABLE", "ZOMBIE"}]
         /\ wait_state \in [Procs -> {"0", "WT_CHILD"}]
         /\ parent \in [Procs -> Procs \cup {NULL}] /\ cptr \in [Procs -> Procs \cup {NULL}]
         /\ optr \in [Procs -> Procs \cup {NULL}] /\ yptr \in [Procs -> Procs \cup {NULL}]
         /\ pc \in [Procs -> AllPC] /\ waiting \in [Procs -> Procs \cup {NULL}]
         /\ cursor \in Procs \cup {NULL} /\ current \in Procs
         /\ mm \subseteq Procs /\ kstack \subseteq Procs
  BY DEF TypeOK

(* What set_links does to the family when c forks p, its first child so    *)
(* far being h: to the links, and to the numbers that count generations    *)
(* and siblings.                                                           *)
Forked(f, g, f1, g1, p, c, h) ==
  /\ p \notin Live /\ p # initproc /\ c \in Live /\ c # idleproc /\ idleproc \in Live
  /\ pc[c] # "reparent" /\ pc'[c] # "dead" /\ pc'[p] # "dead"
  /\ \A q \in Procs \ {p, c} : pc'[q] = pc[q]
  /\ Live' = Live \cup {p}
  /\ \A q \in Procs : parent'[q] = IF q = p THEN c ELSE parent[q]
  /\ \A q \in Procs : optr'[q] = IF q = p THEN h ELSE optr[q]
  /\ \A q \in Procs : cptr'[q] = IF q = c THEN p ELSE cptr[q]
  /\ \A q \in Procs : yptr'[q] = IF q = p THEN NULL ELSE IF q = h THEN p ELSE yptr[q]
  /\ \A q \in Procs : f1[q] = IF q = p THEN 0 ELSE IF parent[q] = c THEN f[q] + 1 ELSE f[q]
  /\ \A q \in Procs : g1[q] = IF q = p THEN g[c] + 1 ELSE g[q]

(* do_fork: the new process becomes the first child of the current one.    *)
LEMMA ForkTree ==
  ASSUME NEW f, NEW g, Tree(f, g),
         NEW f1 \in [Procs -> Nat], NEW g1 \in [Procs -> Nat],
         NEW p \in Procs, NEW c \in Procs, NEW h, h = cptr[c],
         Forked(f, g, f1, g1, p, c, h)
  PROVE  Tree(f1, g1)'
  <1> USE DEF Forked
  <1>1. /\ p # c /\ p # NULL /\ c # NULL /\ idleproc # initproc /\ p # idleproc
        /\ idleproc \in Procs /\ initproc \in Procs /\ NULL \notin Procs
        /\ Live \subseteq Procs
    BY ProcsAssumption DEF Procs, Live
  <1>2. \A x \in Procs : Children(x)' = Children(x) \cup (IF x = c THEN {p} ELSE {})
    BY <1>1 DEF Children
  <1>3. h # NULL => /\ h \in Children(c) /\ h \in Live /\ h # p /\ parent[h] = c
                    /\ yptr[h] = NULL /\ h # idleproc /\ f[h] = 0
    <2>1. h # NULL => h \in Children(c) /\ h \in Live /\ h # p /\ parent[h] = c
      BY DEF Tree, Lineage, Children
    <2>2. h # NULL => h # idleproc
      BY <1>1, <2>1 DEF Tree, Lineage
    <2> QED
      BY <1>1, <2>1, <2>2 DEF Tree, LinksOK, ByAge
  <1>4. f \in [Procs -> Nat] /\ g \in [Procs -> Nat]
    BY DEF Tree
  <1>5. Lineage(g1)'
    <2>1. \A x \in Procs : cptr'[x] # NULL => cptr'[x] \in Children(x)'
      BY <1>1, <1>2 DEF Tree, Lineage
    <2>2. parent'[idleproc] = NULL /\ parent'[initproc] = idleproc /\ cptr'[idleproc] = initproc
          /\ g1[initproc] = 0
      BY <1>1 DEF Tree, Lineage
    <2>3. ASSUME NEW q \in Live' \ {idleproc, initproc}
          PROVE  parent'[q] # idleproc /\ g1[parent'[q]] < g1[q]
      <3>1. CASE q = p
        BY <1>1, <1>4, <3>1
      <3>2. CASE q # p
        <4>1. q \in Live /\ parent[q] # idleproc /\ g[parent[q]] < g[q] /\ parent[q] \in Live
          BY <1>1, <2>3, <3>2 DEF Tree, Lineage, LinksOK
        <4> QED
          BY <1>1, <3>2, <4>1
      <3> QED
        BY <3>1, <3>2
    <2> QED
      BY <2>1, <2>2, <2>3 DEF Lineage
  <1>6. ASSUME NEW q \in Live \ {idleproc}
        PROVE  /\ q # p /\ q \in Procs /\ parent[q] \in Live \ {q} /\ parent[q] \in Procs
               /\ parent'[q] = parent[q]
    BY <1>1, <1>6 DEF Tree, LinksOK
  <1>7. LinksOK'
    <2>1. ASSUME NEW q \in Live', pc'[q] = "dead" PROVE Children(q)' = {}
      BY <1>1, <1>2, <2>1 DEF Tree, LinksOK
    <2>2. ASSUME NEW q \in Live' \ {idleproc}
          PROVE  /\ parent'[q] \in Live' \ {q}
                 /\ optr'[q] # NULL => /\ optr'[q] \in Live' \ {q} /\ parent'[optr'[q]] = parent'[q]
                                       /\ yptr'[optr'[q]] = q
                 /\ IF cptr'[parent'[q]] = q
                    THEN yptr'[q] = NULL \/ pc'[parent'[q]] = "reparent"
                    ELSE /\ yptr'[q] \in Live' \ {q} /\ parent'[yptr'[q]] = parent'[q]
                         /\ optr'[yptr'[q]] = q
      <3>1. CASE q = p
        <4>1. parent'[q] = c /\ optr'[q] = h /\ cptr'[c] = q /\ yptr'[q] = NULL
          BY <3>1
        <4>2. h # NULL => h \in Live' /\ parent'[h] = c /\ h # q /\ yptr'[h] = q
          BY <1>1, <1>3, <3>1
        <4> QED
          BY <1>1, <3>1, <4>1, <4>2
      <3>2. CASE q # p
        <4>1. q \in Live \ {idleproc}
          BY <2>2, <3>2
        <4>2. parent'[q] \in Live' \ {q}
          BY <1>6, <4>1
        <4>3. optr'[q] # NULL => /\ optr'[q] \in Live' \ {q} /\ parent'[optr'[q]] = parent'[q]
                                 /\ yptr'[optr'[q]] = q
          <5>1. optr[q] # NULL => optr[q] \in Procs /\ optr[q] \in Live \ {q}
                                  /\ parent[optr[q]] = parent[q]
                                  /\ yptr[optr[q]] = q /\ optr[q] # p
            BY <1>1, <4>1 DEF Tree, LinksOK, Children
          <5>2. optr[q] # NULL => optr[q] # h
            BY <1>1, <1>3, <1>6, <4>1, <5>1
          <5> QED
            BY <1>6, <4>1, <5>1, <5>2
        <4>4. CASE cptr[parent[q]] = q /\ parent[q] = c
          <5>1. q = h /\ optr'[p] = q /\ yptr'[q] = p /\ cptr'[c] = p /\ parent'[p] = c
            BY <1>6, <3>2, <4>1, <4>4
          <5> QED
            BY <1>6, <3>2, <4>1, <4>2, <4>3, <4>4, <5>1
        <4>5. CASE cptr[parent[q]] = q /\ parent[q] # c
          <5>1. cptr'[parent'[q]] = q /\ q # h /\ yptr'[q] = yptr[q]
            BY <1>1, <1>3, <1>6, <3>2, <4>1, <4>5
          <5>2. yptr[q] = NULL \/ pc[parent[q]] = "reparent"
            BY <4>1, <4>5 DEF Tree, LinksOK
          <5>3. pc'[parent'[q]] = pc[parent[q]]
            BY <1>6, <4>1, <4>5
          <5> QED
            BY <4>2, <4>3, <5>1, <5>2, <5>3
        <4>6. CASE cptr[parent[q]] # q
          <5>1. /\ yptr[q] \in Live \ {q} /\ parent[yptr[q]] = parent[q] /\ optr[yptr[q]] = q
                /\ yptr[q] \in Procs /\ yptr[q] # p
            BY <1>1, <4>1, <4>6 DEF Tree, LinksOK, Children
          <5>2. q # h
            BY <1>1, <1>3, <1>6, <4>1, <4>6
          <5>3. cptr'[parent'[q]] # q /\ yptr'[q] = yptr[q] /\ optr'[yptr[q]] = q
            BY <1>6, <3>2, <4>1, <4>6, <5>1, <5>2
          <5>4. parent'[yptr[q]] = parent'[q]
            BY <1>6, <4>1, <5>1
          <5> QED
            BY <4>2, <4>3, <5>1, <5>3, <5>4
        <4> QED
          BY <4>4, <4>5, <4>6
      <3> QED
        BY <3>1, <3>2
    <2>3. ASSUME NEW q \in Live', cptr'[q] # NULL PROVE cptr'[q] \in Children(q)'
      BY <1>1, <1>5, <2>3 DEF Lineage
    <2> QED
      BY <2>1, <2>2, <2>3 DEF LinksOK, Children
  <1>8. ByAge(f1)'
    <2> SUFFICES ASSUME NEW q \in Live' \ {idleproc}
                 PROVE  /\ cptr'[parent'[q]] = q => f1[q] = 0
                        /\ optr'[q] # NULL => f1[optr'[q]] = f1[q] + 1
                        /\ \A r \in Live' \ {idleproc} :
                             parent'[q] = parent'[r] /\ f1[q] = f1[r] => q = r
      BY DEF ByAge
    <2>1. CASE q = p
      <3>1. f1[q] = 0 /\ parent'[q] = c /\ optr'[q] = h
        BY <2>1
      <3>2. h # NULL => f1[h] = 1
        BY <1>1, <1>3
      <3>3. ASSUME NEW r \in Live \ {idleproc}, parent'[r] = c PROVE f1[r] # 0
        BY <1>4, <1>6, <3>3
      <3> QED
        BY <2>1, <3>1, <3>2, <3>3
    <2>2. CASE q # p
      <3>1. q \in Live \ {idleproc}
        BY <2>2
      <3>2. cptr'[parent'[q]] = q => f1[q] = 0
        <4>1. CASE parent[q] = c
          BY <1>6, <2>2, <3>1, <4>1
        <4>2. CASE parent[q] # c
          BY <1>6, <2>2, <3>1, <4>2 DEF Tree, ByAge
        <4> QED
          BY <4>1, <4>2
      <3>3. optr'[q] # NULL => f1[optr'[q]] = f1[q] + 1
        <4>1. optr'[q] = optr[q]
          BY <1>6, <2>2, <3>1
        <4>2. optr[q] # NULL => optr[q] \in Procs /\ optr[q] # p /\ parent[optr[q]] = parent[q]
                                /\ f[optr[q]] = f[q] + 1
          BY <1>1, <3>1 DEF Tree, LinksOK, ByAge, Children
        <4> QED
          BY <1>4, <1>6, <2>2, <3>1, <4>1, <4>2
      <3>4. ASSUME NEW r \in Live' \ {idleproc}, parent'[q] = parent'[r], f1[q] = f1[r]
            PROVE  q = r
        <4>1. CASE r = p
          <5>1. parent[q] = c /\ f1[q] = 0
            BY <1>6, <3>1, <3>4, <4>1
          <5> QED
            BY <1>4, <1>6, <2>2, <3>1, <5>1
        <4>2. CASE r # p
          <5>1. r \in Live \ {idleproc} /\ r \in Procs /\ parent[r] = parent[q]
            BY <1>6, <3>1, <3>4, <4>2
          <5>2. f[q] = f[r]
            BY <1>4, <1>6, <2>2, <3>1, <3>4, <4>2, <5>1
          <5> QED
            BY <3>1, <5>1, <5>2 DEF Tree, ByAge
        <4> QED
          BY <4>1, <4>2
      <3> QED
        BY <3>2, <3>3, <3>4
    <2> QED
      BY <2>1, <2>2
  <1> QED
    BY <1>5, <1>7, <1>8 DEF Tree

(* do_wait: a child p of the current process c leaves the list.  The link  *)
(* between its siblings y and o closes the gap.                            *)
LEMMA RemoveTree ==
  ASSUME NEW f, NEW g, Tree(f, g), NEW f1 \in [Procs -> Nat],
         NEW p \in Live, NEW c \in Live, NEW y, y = yptr[p], NEW o, o = optr[p],
         parent[p] = c, p # c, p # idleproc, p # initproc, idleproc \in Live, Children(p) = {},
         pc[c] # "reparent", pc'[c] # "dead",
         \A q \in Procs \ {p, c} : pc'[q] = pc[q],
         Live' = Live \ {p},
         \A q \in Procs : parent'[q] = IF q = p THEN NULL ELSE parent[q],
         \A q \in Procs : yptr'[q] = IF q = p THEN NULL ELSE IF q = o THEN y ELSE yptr[q],
         \A q \in Procs : optr'[q] = IF q = p THEN NULL ELSE IF q = y THEN o ELSE optr[q],
         \A q \in Procs : cptr'[q] = IF q = c /\ y = NULL THEN o ELSE cptr[q],
         \A q \in Procs : f1[q] = IF parent[q] = c /\ f[q] > f[p] THEN f[q] - 1 ELSE f[q]
  PROVE  Tree(f1, g)'
  <1>1. /\ p # NULL /\ c # NULL /\ idleproc # initproc
        /\ idleproc \in Procs /\ initproc \in Procs /\ NULL \notin Procs
        /\ Live \subseteq Procs /\ p \in Procs /\ c \in Procs
        /\ f \in [Procs -> Nat] /\ g \in [Procs -> Nat]
    BY ProcsAssumption DEF Procs, Live, Tree
  <1>2. o # NULL => /\ o \in Live /\ o # p /\ o # idleproc /\ parent[o] = c /\ yptr[o] = p
                    /\ cptr[c] # o /\ f[o] = f[p] + 1
    <2>1. o # NULL => /\ o \in Live /\ o # p /\ parent[o] = c /\ yptr[o] = p
      BY DEF Tree, LinksOK, Children
    <2>2. o # NULL => o # idleproc
      BY <1>1, <2>1 DEF Tree, Lineage
    <2>3. o # NULL => f[o] = f[p] + 1
      BY DEF Tree, ByAge
    <2> QED
      BY <1>1, <2>1, <2>2, <2>3 DEF Tree, ByAge
  <1>3. \/ y = NULL /\ cptr[c] = p
        \/ /\ y \in Live /\ y # p /\ y # idleproc /\ parent[y] = c /\ optr[y] = p
           /\ cptr[c] # p /\ f[p] = f[y] + 1
    <2>1. CASE cptr[c] = p
      BY <2>1 DEF Tree, LinksOK
    <2>2. CASE cptr[c] # p
      <3>1. y \in Live /\ y # p /\ parent[y] = c /\ optr[y] = p
        BY <2>2 DEF Tree, LinksOK, Children
      <3>2. y # idleproc
        BY <1>1, <3>1 DEF Tree, Lineage
      <3> QED
        BY <1>1, <2>2, <3>1, <3>2 DEF Tree, ByAge
    <2> QED
      BY <2>1, <2>2
  <1>4. ASSUME NEW q \in Live \ {idleproc, p}
        PROVE  /\ q \in Procs /\ parent[q] \in Live \ {q} /\ parent[q] \in Procs /\ parent[q] # p
               /\ parent'[q] = parent[q] /\ pc'[parent[q]] # "dead"
    <2>1. parent[q] \in Live \ {q} /\ parent[q] # p
      BY <1>4 DEF Tree, LinksOK, Children
    <2>2. pc[parent[q]] # "dead"
      BY <1>4, <2>1 DEF Tree, LinksOK, Children
    <2> QED
      BY <1>1, <1>4, <2>1, <2>2
  <1>5. ASSUME NEW q \in Live \ {idleproc, p}, optr[q] # NULL
        PROVE  /\ optr[q] \in Live \ {q, idleproc} /\ parent[optr[q]] = parent[q]
               /\ yptr[optr[q]] = q /\ f[optr[q]] = f[q] + 1
    <2>1. optr[q] \in Live \ {q} /\ parent[optr[q]] = parent[q] /\ yptr[optr[q]] = q
      BY <1>5 DEF Tree, LinksOK, Children
    <2>2. optr[q] # idleproc
      BY <1>1, <1>4, <2>1 DEF Tree, Lineage
    <2> QED
      BY <1>5, <2>1, <2>2 DEF Tree, ByAge
  <1>6. Lineage(g)'
    <2>1. ASSUME NEW x \in Procs, cptr'[x] # NULL PROVE cptr'[x] \in Live' /\ parent'[cptr'[x]] = x
      <3>1. CASE x = c /\ y = NULL
        BY <1>1, <1>2, <2>1, <3>1
      <3>2. CASE ~(x = c /\ y = NULL)
        <4>1. cptr'[x] = cptr[x] /\ cptr[x] \in Live /\ parent[cptr[x]] = x
          BY <2>1, <3>2 DEF Tree, Lineage, Children
        <4>2. cptr[x] # p
          BY <1>3, <3>2, <4>1
        <4> QED
          BY <1>1, <4>1, <4>2
      <3> QED
        BY <3>1, <3>2
    <2>2. /\ parent'[idleproc] = NULL /\ parent'[initproc] = idleproc /\ g[initproc] = 0
      BY <1>1 DEF Tree, Lineage
    <2>3. cptr'[idleproc] = initproc
      <3>1. c # idleproc
        BY DEF Tree, Lineage
      <3> QED
        BY <1>1, <3>1 DEF Tree, Lineage
    <2>4. ASSUME NEW q \in Live' \ {idleproc, initproc}
          PROVE  parent'[q] # idleproc /\ g[parent'[q]] < g[q]
      BY <1>4, <2>4 DEF Tree, Lineage
    <2> QED
      BY <2>1, <2>2, <2>3, <2>4 DEF Lineage, Children
  <1>7. LinksOK'
    <2>1. ASSUME NEW q \in Live', pc'[q] = "dead" PROVE Children(q)' = {}
      <3>1. \A r \in Live' : parent'[r] # q
        <4>1. SUFFICES ASSUME NEW r \in Live', parent'[r] = q PROVE FALSE
          OBVIOUS
        <4>2. CASE r = idleproc
          BY <1>1, <2>1, <4>1, <4>2 DEF Tree, Lineage
        <4>3. CASE r # idleproc
          BY <1>4, <2>1, <4>1, <4>3
        <4> QED
          BY <4>2, <4>3
      <3> QED
        BY <3>1 DEF Children
    <2>2. ASSUME NEW q \in Live' \ {idleproc}
          PROVE  /\ parent'[q] \in Live' \ {q}
                 /\ optr'[q] # NULL => /\ optr'[q] \in Live' \ {q} /\ parent'[optr'[q]] = parent'[q]
                                       /\ yptr'[optr'[q]] = q
                 /\ IF cptr'[parent'[q]] = q
                    THEN yptr'[q] = NULL \/ pc'[parent'[q]] = "reparent"
                    ELSE /\ yptr'[q] \in Live' \ {q} /\ parent'[yptr'[q]] = parent'[q]
                         /\ optr'[yptr'[q]] = q
      <3>1. q \in Live \ {idleproc, p}
        BY <2>2
      <3>2. parent'[q] \in Live' \ {q}
        BY <1>4, <3>1
      <3>3. optr'[q] # NULL => /\ optr'[q] \in Live' \ {q} /\ parent'[optr'[q]] = parent'[q]
                               /\ yptr'[optr'[q]] = q
        <4>1. CASE q = y
          <5>1. optr'[q] = o /\ parent[q] = c /\ f[p] = f[q] + 1
            BY <1>1, <1>3, <1>4, <3>1, <4>1
          <5>2. o # NULL => o # q
            BY <1>1, <1>2, <1>4, <3>1, <5>1
          <5> QED
            BY <1>1, <1>2, <1>4, <3>1, <4>1, <5>1, <5>2
        <4>2. CASE q # y
          <5>1. optr'[q] = optr[q]
            BY <1>4, <3>1, <4>2
          <5>2. optr[q] # NULL => optr[q] # p /\ optr[q] # o
            BY <1>2, <1>5, <3>1, <4>2
          <5> QED
            BY <1>1, <1>4, <1>5, <3>1, <5>1, <5>2
        <4> QED
          BY <4>1, <4>2
      <3>4. CASE cptr'[parent'[q]] = q /\ y = NULL /\ parent[q] = c
        <4>1. q = o /\ yptr'[q] = NULL
          BY <1>4, <3>1, <3>4
        <4> QED
          BY <3>2, <3>3, <3>4, <4>1
      <3>5. CASE cptr'[parent'[q]] = q /\ ~(y = NULL /\ parent[q] = c)
        <4>1. cptr[parent[q]] = q
          BY <1>4, <3>1, <3>5
        <4>2. q # o
          BY <1>1, <1>2, <1>4, <3>1, <4>1
        <4>3. yptr'[q] = yptr[q]
          BY <1>4, <3>1, <4>2
        <4>4. yptr[q] = NULL \/ pc[parent[q]] = "reparent"
          BY <3>1, <4>1 DEF Tree, LinksOK
        <4>5. CASE parent[q] = c
          BY <3>2, <3>3, <3>5, <4>3, <4>4, <4>5
        <4>6. CASE parent[q] # c
          <5>1. pc'[parent'[q]] = pc[parent[q]]
            BY <1>4, <3>1, <4>6
          <5> QED
            BY <3>2, <3>3, <3>5, <4>3, <4>4, <5>1
        <4> QED
          BY <4>5, <4>6
      <3>6. CASE cptr'[parent'[q]] # q /\ q = o
        <4>1. yptr'[q] = y /\ parent'[q] = c /\ y # NULL
          BY <1>1, <1>2, <1>4, <3>1, <3>6
        <4>2. y # q
          BY <1>1, <1>2, <1>3, <1>4, <3>1, <3>6, <4>1
        <4> QED
          BY <1>1, <1>3, <3>2, <3>3, <3>6, <4>1, <4>2
      <3>7. CASE cptr'[parent'[q]] # q /\ q # o
        <4>1. cptr[parent[q]] # q
          <5>1. CASE parent[q] = c /\ y = NULL
            BY <1>1, <1>3, <1>4, <3>1, <3>7, <5>1
          <5>2. CASE ~(parent[q] = c /\ y = NULL)
            <6>1. cptr'[parent'[q]] = cptr[parent[q]]
              BY <1>4, <3>1, <5>2
            <6> QED
              BY <3>7, <6>1
          <5> QED
            BY <5>1, <5>2
        <4>2. yptr[q] \in Live \ {q} /\ parent[yptr[q]] = parent[q] /\ optr[yptr[q]] = q
          BY <3>1, <4>1 DEF Tree, LinksOK, Children
        <4>3. yptr[q] # p /\ yptr[q] # y
          BY <1>1, <1>3, <3>1, <3>7, <4>2
        <4> QED
          BY <1>1, <1>4, <3>1, <3>2, <3>3, <3>7, <4>2, <4>3
      <3> QED
        BY <3>4, <3>5, <3>6, <3>7
    <2>3. ASSUME NEW q \in Live', cptr'[q] # NULL PROVE cptr'[q] \in Children(q)'
      BY <1>1, <1>6, <2>3 DEF Lineage
    <2> QED
      BY <2>1, <2>2, <2>3 DEF LinksOK, Children
  <1>8. ByAge(f1)'
    <2> SUFFICES ASSUME NEW q \in Live' \ {idleproc}
                 PROVE  /\ cptr'[parent'[q]] = q => f1[q] = 0
                        /\ optr'[q] # NULL => f1[optr'[q]] = f1[q] + 1
                        /\ \A r \in Live' \ {idleproc} :
                             parent'[q] = parent'[r] /\ f1[q] = f1[r] => q = r
      BY DEF ByAge
    <2>1. q \in Live \ {idleproc, p}
      OBVIOUS
    <2>2. \A r \in Live \ {idleproc, p} : parent[r] = c => f[r] # f[p]
      BY DEF Tree, ByAge
    <2>3. cptr'[parent'[q]] = q => f1[q] = 0
      <3>1. CASE y = NULL /\ parent[q] = c
        <4>1. f[p] = 0
          BY <1>3, <3>1, <1>1 DEF Tree, ByAge
        <4>2. cptr'[parent'[q]] = o
          BY <1>4, <2>1, <3>1
        <4>3. q = o => f1[q] = 0
          BY <1>1, <1>2, <1>4, <2>1, <3>1, <4>1
        <4> QED
          BY <4>2, <4>3
      <3>2. CASE ~(y = NULL /\ parent[q] = c)
        <4>1. cptr'[parent'[q]] = cptr[parent[q]]
          BY <1>4, <2>1, <3>2
        <4>2. cptr[parent[q]] = q => f[q] = 0
          BY <2>1 DEF Tree, ByAge
        <4> QED
          BY <1>1, <1>4, <2>1, <4>1, <4>2
      <3> QED
        BY <3>1, <3>2
    <2>4. optr'[q] # NULL => f1[optr'[q]] = f1[q] + 1
      <3>1. CASE q = y
        <4>1. optr'[q] = o /\ parent[q] = c /\ f[p] = f[q] + 1
          BY <1>1, <1>3, <1>4, <2>1, <3>1
        <4> QED
          BY <1>1, <1>2, <1>4, <2>1, <4>1
      <3>2. CASE q # y /\ optr[q] # NULL
        <4>1. optr'[q] = optr[q] /\ optr[q] # p
          BY <1>4, <1>5, <2>1, <3>2
        <4>2. optr[q] \in Live \ {p, idleproc} /\ parent[optr[q]] = parent[q] /\ f[optr[q]] = f[q] + 1
          BY <1>5, <2>1, <3>2, <4>1
        <4>3. f[q] \in Nat /\ f[p] \in Nat /\ q \in Procs /\ optr[q] \in Procs
          BY <1>1, <2>1, <4>2
        <4>4. CASE parent[q] = c
          <5>1. f[optr[q]] # f[p] /\ f[q] # f[p]
            BY <2>1, <2>2, <4>2, <4>4
          <5>2. /\ f1[q] = IF f[q] > f[p] THEN f[q] - 1 ELSE f[q]
                /\ f1[optr[q]] = IF f[q] + 1 > f[p] THEN f[q] ELSE f[q] + 1
            BY <4>2, <4>3, <4>4
          <5> QED
            BY <4>1, <4>2, <4>3, <5>1, <5>2
        <4>5. CASE parent[q] # c
          BY <4>1, <4>2, <4>3, <4>5
        <4> QED
          BY <4>4, <4>5
      <3>3. CASE q # y /\ optr[q] = NULL
        BY <1>4, <2>1, <3>3
      <3> QED
        BY <3>1, <3>2, <3>3
    <2>5. ASSUME NEW r \in Live' \ {idleproc}, parent'[q] = parent'[r], f1[q] = f1[r]
          PROVE  q = r
      <3>1. r \in Live \ {idleproc, p} /\ parent[r] = parent[q]
        BY <1>4, <2>1, <2>5
      <3>2. f[q] = f[r]
        BY <1>1, <1>4, <2>1, <2>2, <2>5, <3>1
      <3> QED
        BY <2>1, <3>1, <3>2 DEF Tree, ByAge
    <2> QED
      BY <2>3, <2>4, <2>5
  <1> QED
    BY <1>1, <1>6, <1>7, <1>8 DEF Tree

(* do_exit: the first child p of c becomes the first child of initproc,    *)
(* whose first child was h.                                                *)
LEMMA AdoptTree ==
  ASSUME NEW f, NEW g, Tree(f, g), NEW f1 \in [Procs -> Nat],
         NEW c \in Live, NEW p, p = cptr[c], p # NULL, NEW h, h = cptr[initproc], NEW o, o = optr[p],
         c # idleproc, c # initproc, idleproc \in Live, initproc \in Live,
         pc[c] = "reparent", pc[initproc] \notin {"reparent", "dead"},
         \A q \in Procs : pc'[q] = pc[q],
         Live' = Live,
         \A q \in Procs : parent'[q] = IF q = p THEN initproc ELSE parent[q],
         \A q \in Procs : yptr'[q] = IF q = p THEN NULL ELSE IF q = h THEN p ELSE yptr[q],
         \A q \in Procs : optr'[q] = IF q = p THEN h ELSE optr[q],
         \A q \in Procs : cptr'[q] = IF q = c THEN o ELSE IF q = initproc THEN p ELSE cptr[q],
         \A q \in Procs : f1[q] = IF q = p THEN 0
                                  ELSE IF parent[q] = initproc THEN f[q] + 1
                                  ELSE IF parent[q] = c /\ f[q] > 0 THEN f[q] - 1 ELSE f[q]
  PROVE  Tree(f1, g)'
  <1>1. /\ c # NULL /\ initproc # NULL /\ idleproc # initproc
        /\ idleproc \in Procs /\ initproc \in Procs /\ NULL \notin Procs
        /\ Live \subseteq Procs /\ c \in Procs
        /\ f \in [Procs -> Nat] /\ g \in [Procs -> Nat]
    BY ProcsAssumption DEF Procs, Live, Tree
  <1>2. /\ p \in Live /\ parent[p] = c /\ p # c /\ p # idleproc /\ p # initproc /\ f[p] = 0
    <2>1. p \in Live /\ parent[p] = c
      BY <1>1 DEF Tree, Lineage, Children
    <2>2. p # idleproc /\ p # initproc
      BY <1>1, <2>1 DEF Tree, Lineage
    <2> QED
      BY <2>1, <2>2 DEF Tree, LinksOK, ByAge
  <1>3. o # NULL => /\ o \in Live /\ o # p /\ o # idleproc /\ parent[o] = c /\ yptr[o] = p
                    /\ f[o] = 1
    <2>1. o # NULL => /\ o \in Live /\ o # p /\ parent[o] = c /\ yptr[o] = p
      BY <1>2 DEF Tree, LinksOK, Children
    <2>2. o # NULL => o # idleproc
      BY <1>1, <2>1 DEF Tree, Lineage
    <2>3. o # NULL => f[o] = f[p] + 1
      BY <1>2 DEF Tree, ByAge
    <2> QED
      BY <1>2, <2>1, <2>2, <2>3
  <1>4. h # NULL => /\ h \in Live /\ h # p /\ h # idleproc /\ parent[h] = initproc /\ f[h] = 0
                    /\ h # initproc
    <2>1. h # NULL => h \in Live /\ parent[h] = initproc
      BY <1>1 DEF Tree, Lineage, Children
    <2>2. h # NULL => h # idleproc /\ h # initproc /\ h # p
      BY <1>1, <1>2, <2>1 DEF Tree, Lineage
    <2> QED
      BY <2>1, <2>2 DEF Tree, ByAge
  <1>5. ASSUME NEW q \in Live \ {idleproc, p}
        PROVE  /\ q \in Procs /\ parent[q] \in Live \ {q} /\ parent[q] \in Procs
               /\ parent'[q] = parent[q]
    BY <1>1, <1>5 DEF Tree, LinksOK
  <1>6. ASSUME NEW q \in Live \ {idleproc, p}, optr[q] # NULL
        PROVE  /\ optr[q] \in Live \ {q, idleproc, p} /\ parent[optr[q]] = parent[q]
               /\ yptr[optr[q]] = q /\ f[optr[q]] = f[q] + 1 /\ optr[q] # h
    <2>1. optr[q] \in Live \ {q} /\ parent[optr[q]] = parent[q] /\ yptr[optr[q]] = q
      BY <1>6 DEF Tree, LinksOK, Children
    <2>2. optr[q] # idleproc
      BY <1>1, <1>5, <2>1 DEF Tree, Lineage
    <2>3. f[optr[q]] = f[q] + 1 /\ f[q] \in Nat
      BY <1>1, <1>6 DEF Tree, ByAge
    <2>4. f[optr[q]] # 0
      BY <2>3
    <2> QED
      BY <1>1, <1>2, <1>4, <2>1, <2>2, <2>3, <2>4
  <1>7. Lineage(g)'
    <2>1. ASSUME NEW x \in Procs, cptr'[x] # NULL PROVE cptr'[x] \in Live' /\ parent'[cptr'[x]] = x
      <3>1. CASE x = c
        BY <1>1, <1>3, <2>1, <3>1
      <3>2. CASE x = initproc
        BY <1>1, <1>2, <3>2
      <3>3. CASE x # c /\ x # initproc
        <4>1. cptr'[x] = cptr[x] /\ cptr[x] \in Live /\ parent[cptr[x]] = x
          BY <2>1, <3>3 DEF Tree, Lineage, Children
        <4>2. cptr[x] # p
          BY <1>2, <3>3, <4>1
        <4> QED
          BY <1>1, <4>1, <4>2
      <3> QED
        BY <3>1, <3>2, <3>3
    <2>2. /\ parent'[idleproc] = NULL /\ parent'[initproc] = idleproc /\ cptr'[idleproc] = initproc
          /\ g[initproc] = 0
      BY <1>1, <1>2 DEF Tree, Lineage
    <2>3. ASSUME NEW q \in Live' \ {idleproc, initproc}
          PROVE  parent'[q] # idleproc /\ g[parent'[q]] < g[q]
      <3>1. CASE q = p
        <4>1. g[c] < g[p] /\ g[c] \in Nat /\ g[p] \in Nat /\ g[initproc] = 0
          BY <1>1, <1>2 DEF Tree, Lineage
        <4> QED
          BY <1>1, <1>2, <3>1, <4>1
      <3>2. CASE q # p
        BY <1>5, <2>3, <3>2 DEF Tree, Lineage
      <3> QED
        BY <3>1, <3>2
    <2> QED
      BY <2>1, <2>2, <2>3 DEF Lineage, Children
  <1>8. LinksOK'
    <2>1. ASSUME NEW q \in Live', pc'[q] = "dead" PROVE Children(q)' = {}
      <3>1. \A r \in Live : parent[r] # q
        BY <1>1, <2>1 DEF Tree, LinksOK, Children
      <3>2. q # initproc
        BY <1>1, <2>1
      <3>3. \A r \in Live' : parent'[r] # q
        BY <1>1, <3>1, <3>2
      <3> QED
        BY <3>3 DEF Children
    <2>2. ASSUME NEW q \in Live' \ {idleproc}
          PROVE  /\ parent'[q] \in Live' \ {q}
                 /\ optr'[q] # NULL => /\ optr'[q] \in Live' \ {q} /\ parent'[optr'[q]] = parent'[q]
                                       /\ yptr'[optr'[q]] = q
                 /\ IF cptr'[parent'[q]] = q
                    THEN yptr'[q] = NULL \/ pc'[parent'[q]] = "reparent"
                    ELSE /\ yptr'[q] \in Live' \ {q} /\ parent'[yptr'[q]] = parent'[q]
                         /\ optr'[yptr'[q]] = q
      <3>1. CASE q = p
        <4>1. parent'[q] = initproc /\ optr'[q] = h /\ cptr'[initproc] = q /\ yptr'[q] = NULL
          BY <1>1, <1>2, <3>1
        <4>2. h # NULL => h \in Live' /\ parent'[h] = initproc /\ h # q /\ yptr'[h] = q
          BY <1>1, <1>4, <3>1
        <4> QED
          BY <1>1, <1>2, <3>1, <4>1, <4>2
      <3>2. CASE q # p
        <4>1. q \in Live \ {idleproc, p}
          BY <2>2, <3>2
        <4>2. parent'[q] \in Live' \ {q}
          BY <1>5, <4>1
        <4>3. optr'[q] # NULL => /\ optr'[q] \in Live' \ {q} /\ parent'[optr'[q]] = parent'[q]
                                 /\ yptr'[optr'[q]] = q
          <5>1. optr'[q] = optr[q]
            BY <1>5, <4>1
          <5> QED
            BY <1>1, <1>5, <1>6, <4>1, <5>1
        <4>4. CASE parent[q] = c /\ q = o
          <5>1. cptr'[parent'[q]] = q /\ pc'[parent'[q]] = "reparent"
            BY <1>1, <1>5, <4>1, <4>4
          <5> QED
            BY <4>2, <4>3, <5>1
        <4>5. CASE parent[q] = initproc /\ q = h
          <5>1. cptr'[parent'[q]] = p /\ yptr'[q] = p /\ parent'[p] = initproc /\ optr'[p] = q
            BY <1>1, <1>2, <1>5, <4>1, <4>5
          <5> QED
            BY <1>1, <1>2, <1>5, <3>2, <4>1, <4>2, <4>3, <4>5, <5>1
        <4>6. CASE parent[q] \notin {c, initproc} /\ cptr[parent[q]] = q
          <5>1. cptr'[parent'[q]] = q /\ pc'[parent'[q]] = pc[parent[q]]
            BY <1>5, <4>1, <4>6
          <5>2. q # h
            BY <1>1, <1>4, <4>1, <4>6
          <5>3. yptr'[q] = yptr[q]
            BY <1>5, <4>1, <5>2
          <5>4. yptr[q] = NULL \/ pc[parent[q]] = "reparent"
            BY <4>1, <4>6 DEF Tree, LinksOK
          <5> QED
            BY <4>2, <4>3, <5>1, <5>3, <5>4
        <4>7. CASE cptr[parent[q]] # q /\ ~(parent[q] = c /\ q = o)
          <5>1. yptr[q] \in Live \ {q} /\ parent[yptr[q]] = parent[q] /\ optr[yptr[q]] = q
            BY <4>1, <4>7 DEF Tree, LinksOK, Children
          <5>2. yptr[q] # p
            BY <1>2, <4>7, <5>1
          <5>3. q # h
            BY <1>1, <1>4, <4>1, <4>7
          <5>4. cptr'[parent'[q]] # q
            <6>1. CASE parent[q] = c
              BY <1>1, <1>5, <4>1, <4>7, <6>1
            <6>2. CASE parent[q] = initproc
              BY <1>1, <1>5, <4>1, <4>7, <6>2
            <6>3. CASE parent[q] \notin {c, initproc}
              BY <1>1, <1>5, <4>1, <4>7, <6>3
            <6> QED
              BY <6>1, <6>2, <6>3
          <5>5. yptr'[q] = yptr[q] /\ parent'[yptr[q]] = parent'[q] /\ optr'[yptr[q]] = q
            BY <1>1, <1>5, <4>1, <5>1, <5>2, <5>3
          <5> QED
            BY <1>1, <4>2, <4>3, <5>1, <5>4, <5>5
        <4>8. cptr[parent[q]] = q => parent[q] # c /\ (parent[q] = initproc => q = h)
          BY <4>1
        <4> QED
          BY <4>4, <4>5, <4>6, <4>7, <4>8
      <3> QED
        BY <3>1, <3>2
    <2>3. ASSUME NEW q \in Live', cptr'[q] # NULL PROVE cptr'[q] \in Children(q)'
      BY <1>1, <1>7, <2>3 DEF Lineage
    <2> QED
      BY <2>1, <2>2, <2>3 DEF LinksOK, Children
  <1>9. ByAge(f1)'
    <2> SUFFICES ASSUME NEW q \in Live' \ {idleproc}
                 PROVE  /\ cptr'[parent'[q]] = q => f1[q] = 0
                        /\ optr'[q] # NULL => f1[optr'[q]] = f1[q] + 1
                        /\ \A r \in Live' \ {idleproc} :
                             parent'[q] = parent'[r] /\ f1[q] = f1[r] => q = r
      BY DEF ByAge
    <2>1. \A r \in Live \ {idleproc, p} : parent[r] = c => f[r] # 0
      BY <1>2 DEF Tree, ByAge
    <2>2. CASE q = p
      <3>1. f1[q] = 0 /\ parent'[q] = initproc /\ optr'[q] = h
        BY <1>1, <1>2, <2>2
      <3>2. h # NULL => f1[h] = 1
        BY <1>1, <1>4
      <3>3. ASSUME NEW r \in Live \ {idleproc, p}, parent'[r] = initproc PROVE f1[r] # 0
        BY <1>1, <1>5, <3>3
      <3> QED
        BY <1>1, <1>2, <2>2, <3>1, <3>2, <3>3
    <2>3. CASE q # p
      <3>1. q \in Live \ {idleproc, p}
        BY <2>3
      <3>2. cptr'[parent'[q]] = q => f1[q] = 0
        <4>1. CASE parent[q] = c
          BY <1>1, <1>3, <1>5, <3>1, <4>1
        <4>2. CASE parent[q] = initproc
          BY <1>1, <1>5, <3>1, <4>2
        <4>3. CASE parent[q] \notin {c, initproc}
          <5>1. cptr[parent[q]] = q => f[q] = 0
            BY <3>1 DEF Tree, ByAge
          <5> QED
            BY <1>5, <3>1, <4>3, <5>1
        <4> QED
          BY <4>1, <4>2, <4>3
      <3>3. optr'[q] # NULL => f1[optr'[q]] = f1[q] + 1
        <4>1. optr'[q] = optr[q]
          BY <1>5, <3>1
        <4>2. CASE optr[q] # NULL
          <5>1. /\ optr[q] \in Procs \ {p} /\ parent[optr[q]] = parent[q] /\ f[optr[q]] = f[q] + 1
                /\ q \in Procs /\ f[q] \in Nat
            BY <1>1, <1>5, <1>6, <3>1, <4>2
          <5>2. parent[q] = c => f[q] > 0
            BY <2>1, <3>1, <5>1
          <5> QED
            BY <1>1, <3>1, <4>1, <5>1, <5>2
        <4>3. CASE optr[q] = NULL
          BY <4>1, <4>3
        <4> QED
          BY <4>2, <4>3
      <3>4. ASSUME NEW r \in Live' \ {idleproc}, parent'[q] = parent'[r], f1[q] = f1[r]
            PROVE  q = r
        <4>1. CASE r = p
          <5>1. parent[q] = initproc /\ f1[q] = 0
            BY <1>1, <1>2, <1>5, <3>1, <3>4, <4>1
          <5> QED
            BY <1>1, <1>5, <3>1, <5>1
        <4>2. CASE r # p
          <5>1. r \in Live \ {idleproc, p} /\ parent[r] = parent[q]
            BY <1>5, <3>1, <3>4, <4>2
          <5>2. f[q] \in Nat /\ f[r] \in Nat /\ (parent[q] = c => f[q] > 0 /\ f[r] > 0)
            BY <1>1, <2>1, <3>1, <5>1
          <5>3. f[q] = f[r]
            BY <1>1, <1>5, <3>1, <3>4, <5>1, <5>2
          <5> QED
            BY <3>1, <5>1, <5>3 DEF Tree, ByAge
        <4> QED
          BY <4>1, <4>2
      <3> QED
        BY <3>2, <3>3, <3>4
    <2> QED
      BY <2>2, <2>3
  <1> QED
    BY <1>1, <1>7, <1>8, <1>9 DEF Tree

USE DEF AllPC, UserPC, ExitPC, WaitPC, InitPC

(* A step that leaves the links alone.  Only a process without children    *)
(* comes to the end of do_exit.                                            *)
LEMMA SameTree ==
  ASSUME NEW f, NEW g, Tree(f, g), UNCHANGED <<parent, cptr, optr, yptr>>, Live' = Live,
         \A q \in Live : pc'[q] = "dead" => pc[q] = "dead" \/ Children(q) = {},
         \A q \in Live : pc[q] = "reparent" => pc'[q] = "reparent" \/ cptr[q] = NULL
  PROVE  Tree(f, g)'
  <1>1. \A x : Children(x)' = Children(x)
    BY DEF Children
  <1>2. Lineage(g)'
    BY <1>1 DEF Tree, Lineage
  <1>3. ByAge(f)'
    BY DEF Tree, ByAge
  <1>4. LinksOK'
    <2>1. \A q \in Live' : pc'[q] = "dead" => Children(q)' = {}
      BY <1>1 DEF Tree, LinksOK
    <2>2. \A q \in Live' : cptr'[q] # NULL => cptr'[q] \in Children(q)'
      BY <1>1 DEF Tree, LinksOK
    <2>3. ASSUME NEW q \in Live' \ {idleproc}
          PROVE  /\ parent'[q] \in Live' \ {q}
                 /\ optr'[q] # NULL => /\ optr'[q] \in Live' \ {q} /\ parent'[optr'[q]] = parent'[q]
                                       /\ yptr'[optr'[q]] = q
                 /\ IF cptr'[parent'[q]] = q
                    THEN yptr'[q] = NULL \/ pc'[parent'[q]] = "reparent"
                    ELSE /\ yptr'[q] \in Live' \ {q} /\ parent'[yptr'[q]] = parent'[q]
                         /\ optr'[yptr'[q]] = q
      <3>1. q # NULL
        BY ProcsAssumption DEF Live
      <3> QED
        BY <3>1 DEF Tree, LinksOK, Children
    <2> QED
      BY <2>1, <2>2, <2>3 DEF LinksOK, Children
  <1> QED
    BY <1>2, <1>3, <1>4 DEF Tree

(* A step that puts nobody to sleep in do_wait; who becomes a zombie has a *)
(* parent that does not sleep.                                             *)
LEMMA SameWakeup ==
  ASSUME NoLostWakeup, Live' = Live, UNCHANGED parent,
         \A p \in Live : state'[p] = "SLEEPING" => state[p] = "SLEEPING" /\ waiting'[p] = waiting[p],
         \A q \in Live : state'[q] = "ZOMBIE" => state[q] = "ZOMBIE" \/ state'[parent[q]] # "SLEEPING"
  PROVE  NoLostWakeup'
  <1>1. \A x : Children(x)' = Children(x)
    BY DEF Children
  <1>2. ASSUME NEW p \in Live, state'[p] = "SLEEPING"
        PROVE  Awaited(p)' # {} /\ \A q \in Awaited(p)' : state'[q] # "ZOMBIE"
    <2>1. Awaited(p)' = Awaited(p)
      BY <1>1, <1>2 DEF Awaited
    <2>2. Awaited(p) # {} /\ \A q \in Awaited(p) : state[q] # "ZOMBIE"
      BY <1>2 DEF NoLostWakeup, Awaited
    <2>3. \A q \in Awaited(p) : q \in Live /\ parent[q] = p
      BY DEF Awaited, Children
    <2> QED
      BY <1>2, <2>1, <2>2, <2>3
  <1> QED
    BY <1>2 DEF NoLostWakeup, Awaited

LEMMA SameSearch ==
  ASSUME NEW f, Search(f), UNCHANGED <<pc, current, cursor, waiting, cptr, parent, state>>
  PROVE  Search(f)'
  <1>1. Live' = Live
    BY DEF Live
  <1>2. \A x : Children(x)' = Children(x)
    BY <1>1 DEF Children
  <1>3. \A x : Awaited(x)' = Awaited(x)
    BY <1>2 DEF Awaited
  <1> QED
    BY <1>2, <1>3 DEF Search

(* The steps in which the current process, which is RUNNABLE, moves on and *)
(* perhaps gives up the CPU.                                               *)
LEMMA MoveStep ==
  ASSUME IInv, Places, NoLostWakeup, NEW f, NEW g, Tree(f, g), IInv',
         UNCHANGED <<state, parent, cptr, optr, yptr, kstack>>, state[current] = "RUNNABLE",
         \A q \in Procs \ {current} : pc'[q] = pc[q] /\ waiting'[q] = waiting[q] /\ (q \in mm' <=> q \in mm),
         pc[current] # "reparent", pc'[current] \notin {"dead", "reparent"},
         pc'[current] \in UserPC \cup WaitPC => current \in mm' \/ current = initproc,
         pc'[current] \in InitPC => current = initproc,
         current = initproc => /\ pc'[current] \in InitPC \cup WaitPC \cup {"do_exit"}
                               /\ waiting'[current] = NULL,
         pc'[current] = "init_asserts" => cptr[current] = NULL,
         pc'[current] \in {"wait_scan", "wait_sleep", "init_asserts"} => current' = current
  PROVE  /\ Places' /\ NoLostWakeup' /\ Tree(f, g)'
         /\ pc'[current] \notin {"wait_scan", "wait_sleep"} => Search(f)'
  <1>1. TypeOK /\ TypeOK' /\ Live' = Live
    BY DEF IInv, Live
  <1>2. /\ current \in Procs /\ current' \in Procs /\ mm' \subseteq Procs /\ initproc \in Procs
        /\ Live \subseteq Procs
    BY <1>1, Fields DEF TypeOK, Procs, Live
  <1>3. Places'
    <2>1. \A p \in Procs : pc'[p] \in {"reparent", "wait_scan", "wait_sleep", "init_asserts"} => p = current'
      BY <1>2 DEF Places
    <2>2. \A p \in Procs : pc'[p] \in UserPC \cup WaitPC => p \in mm' \/ p = initproc
      BY <1>2 DEF Places
    <2>3. \A p \in Procs : pc'[p] \in InitPC => p = initproc
      BY <1>2 DEF Places
    <2>4. /\ pc'[initproc] \in InitPC \cup WaitPC \cup {"do_exit"} /\ waiting'[initproc] = NULL
          /\ pc'[initproc] = "init_asserts" => cptr'[initproc] = NULL
      BY <1>2 DEF Places
    <2>5. kstack' = Live' \ {idleproc}
      BY <1>1 DEF Places
    <2>6. \A p \in mm' : state'[p] \in {"RUNNABLE", "SLEEPING"}
      BY <1>2 DEF Places
    <2> QED
      BY <2>1, <2>2, <2>3, <2>4, <2>5, <2>6 DEF Places
  <1>4. NoLostWakeup'
    BY <1>1, <1>2, SameWakeup
  <1>5. Tree(f, g)'
    BY <1>1, <1>2, SameTree
  <1>6. pc'[current] \notin {"wait_scan", "wait_sleep"} => Search(f)'
    BY <1>2 DEF Places, Search
  <1> QED
    BY <1>3, <1>4, <1>5, <1>6

(* The place at which the current process is, as its guard tells.          *)
LEMMA AtPlace ==
  ASSUME IInv, NEW loc \in AllPC \ {"reparent", "cpu_idle"}, At(loc)
  PROVE  /\ panic = "no" /\ pc[current] = loc /\ state[current] = "RUNNABLE"
         /\ current # idleproc /\ current \in Live /\ current \in Procs
  BY AtRunnable DEF At, Live

LEMMA NextFInv == FInv /\ [Next]_vars => FInv'
  <1> SUFFICES ASSUME FInv, [Next]_vars PROVE FInv'
    OBVIOUS
  <1>1. /\ IInv /\ Places /\ NoLostWakeup /\ AssertsHold
        /\ TypeOK /\ WaitStateOK /\ RunOK /\ Listed
    BY DEF FInv, IInv
  <1>2. IInv' /\ TypeOK' /\ RunOK'
    BY <1>1, NextIInv DEF IInv
  <1>3. PICK f, g : Tree(f, g) /\ Search(f)
    BY DEF FInv
  <1>4. /\ state \in [Procs -> {"FREE", "SLEEPING", "RUNNABLE", "ZOMBIE"}]
        /\ pc \in [Procs -> AllPC] /\ waiting \in [Procs -> Procs \cup {NULL}]
        /\ cptr \in [Procs -> Procs \cup {NULL}] /\ parent \in [Procs -> Procs \cup {NULL}]
        /\ cursor \in Procs \cup {NULL} /\ current \in Procs /\ mm \subseteq Procs
        /\ idleproc \in Procs /\ initproc \in Procs /\ idleproc # initproc /\ NULL \notin Procs
    BY <1>1, Fields, ProcsAssumption DEF Procs
  <1>5. ASSUME Places', NoLostWakeup', AssertsHold', Tree(f, g)', Search(f)' PROVE FInv'
    BY <1>2, <1>5 DEF FInv
  <1>6. ASSUME UNCHANGED panic PROVE AssertsHold'
    BY <1>1, <1>6 DEF AssertsHold
  <1>7. ASSUME NEW resched \in BOOLEAN, QuietTrap(resched) PROVE FInv'
    <2>1. pc[current] = "user" /\ state[current] = "RUNNABLE"
      BY <1>1, <1>7, AtPlace DEF QuietTrap
    <2>2. /\ UNCHANGED <<state, parent, cptr, optr, yptr, kstack, current, mm, waiting, panic>>
          /\ pc' = [pc EXCEPT ![current] = "trap_exit"]
      BY <1>7 DEF QuietTrap, Goto, links
    <2>3. current \in mm /\ current # initproc
      BY <1>1, <1>4, <2>1 DEF Places
    <2>4. Places' /\ NoLostWakeup' /\ Tree(f, g)' /\ Search(f)'
      BY <1>1, <1>2, <1>3, <1>4, <2>1, <2>2, <2>3, MoveStep
    <2> QED
      BY <1>5, <1>6, <2>2, <2>4
  <1>8. CASE TimerInKernel
    <2>1. UNCHANGED <<state, wait_state, links, current, mm, kstack, pc, waiting, cursor, panic>>
      BY <1>8 DEF TimerInKernel
    <2>2. Live' = Live
      BY <2>1 DEF Live
    <2>3. Places'
      BY <1>1, <2>1, <2>2 DEF Places, links
    <2>4. NoLostWakeup'
      BY <1>1, <2>1, <2>2, SameWakeup DEF links
    <2>5. Tree(f, g)' /\ Search(f)'
      BY <1>3, <2>1, <2>2, SameTree, SameSearch DEF links
    <2> QED
      BY <1>5, <1>6, <2>1, <2>3, <2>4, <2>5
  <1>9. CASE TrapExit
    <2>1. /\ pc[current] = "trap_exit" /\ state[current] = "RUNNABLE"
          /\ current \in mm /\ current # initproc
      BY <1>1, <1>4, <1>9, AtPlace DEF TrapExit, Places
    <2>2. /\ UNCHANGED <<state, parent, cptr, optr, yptr, kstack, mm, waiting, panic>>
          /\ \A q \in Procs \ {current} : pc'[q] = pc[q]
          /\ pc'[current] \in {"do_exit", "user"}
      BY <1>4, <1>9 DEF TrapExit, Goto, links
    <2>3. Places' /\ NoLostWakeup' /\ Tree(f, g)' /\ Search(f)'
      BY <1>1, <1>2, <1>3, <1>4, <2>1, <2>2, MoveStep
    <2> QED
      BY <1>5, <1>6, <2>2, <2>3
  <1>10. CASE sys_exit
    <2>1. /\ pc[current] = "user" /\ state[current] = "RUNNABLE" /\ current # initproc
      BY <1>1, <1>4, <1>10, AtPlace DEF sys_exit, Places
    <2>2. /\ UNCHANGED <<state, parent, cptr, optr, yptr, kstack, current, mm, waiting, panic>>
          /\ pc' = [pc EXCEPT ![current] = "do_exit"]
      BY <1>10 DEF sys_exit, Goto, links
    <2>3. Places' /\ NoLostWakeup' /\ Tree(f, g)' /\ Search(f)'
      BY <1>1, <1>2, <1>3, <1>4, <2>1, <2>2, MoveStep
    <2> QED
      BY <1>5, <1>6, <2>2, <2>3
  <1>11. ASSUME NEW loc \in {"trap_exit", "user"}, At("user") \/ At("user_main"), do_execve(loc)
         PROVE  FInv'
    <2>1. /\ pc[current] \in {"user", "user_main"} /\ state[current] = "RUNNABLE" /\ current # initproc
      BY <1>1, <1>4, <1>11, AtPlace DEF Places
    <2>2. /\ UNCHANGED <<state, parent, cptr, optr, yptr, kstack, current, waiting, panic>>
          /\ \/ mm' = mm \cup {current} /\ pc' = [pc EXCEPT ![current] = loc]
             \/ mm' = mm \ {current} /\ pc' = [pc EXCEPT ![current] = "do_exit"]
      BY <1>11 DEF do_execve, Goto, links
    <2>3. /\ \A q \in Procs \ {current} : pc'[q] = pc[q] /\ (q \in mm' <=> q \in mm)
          /\ pc'[current] \in {"trap_exit", "user", "do_exit"}
          /\ pc'[current] # "do_exit" => current \in mm'
      BY <1>4, <2>2
    <2>4. Places' /\ NoLostWakeup' /\ Tree(f, g)' /\ Search(f)'
      BY <1>1, <1>2, <1>3, <2>1, <2>2, <2>3, MoveStep
    <2> QED
      BY <1>5, <1>6, <2>2, <2>4
  <1>12. ASSUME NEW q \in Pids \cup {initproc, NULL}, sys_wait(q) PROVE FInv'
    <2>1. /\ pc[current] = "user" /\ state[current] = "RUNNABLE" /\ current # initproc /\ current \in mm
      BY <1>1, <1>4, <1>12, AtPlace DEF sys_wait, Places
    <2>2. /\ UNCHANGED <<state, parent, cptr, optr, yptr, kstack, current, mm, panic>>
          /\ pc' = [pc EXCEPT ![current] = "do_wait"] /\ waiting' = [waiting EXCEPT ![current] = q]
      BY <1>12 DEF sys_wait, Goto, links
    <2>3. Places' /\ NoLostWakeup' /\ Tree(f, g)' /\ Search(f)'
      BY <1>1, <1>2, <1>3, <1>4, <2>1, <2>2, MoveStep
    <2> QED
      BY <1>5, <1>6, <2>2, <2>3
  <1>13. CASE wait_ret
    <2>1. /\ pc[current] = "wait_ret" /\ state[current] = "RUNNABLE"
          /\ current \in mm \/ current = initproc
      BY <1>1, <1>4, <1>13, AtPlace DEF wait_ret, Places
    <2>2. /\ UNCHANGED <<state, parent, cptr, optr, yptr, kstack, current, mm, waiting, panic>>
          /\ \A q \in Procs \ {current} : pc'[q] = pc[q]
          /\ pc'[current] \in {"do_exit", "do_wait"}
      BY <1>4, <1>13 DEF wait_ret, Goto, links
    <2>3. current = initproc => waiting'[current] = NULL
      BY <1>1, <2>2 DEF Places
    <2>4. Places' /\ NoLostWakeup' /\ Tree(f, g)' /\ Search(f)'
      BY <1>1, <1>2, <1>3, <1>4, <2>1, <2>2, <2>3, MoveStep
    <2> QED
      BY <1>5, <1>6, <2>2, <2>4
  <1>14. CASE init_schedule \/ cpu_idle
    <2>1. /\ \/ pc[current] = "init_schedule" /\ pc'[current] = "do_wait" /\ current = initproc
             \/ pc[current] = "cpu_idle" /\ pc'[current] = "cpu_idle" /\ current # initproc
          /\ UNCHANGED <<state, parent, cptr, optr, yptr, kstack, mm, waiting, panic>>
          /\ \A q \in Procs \ {current} : pc'[q] = pc[q]
      BY <1>1, <1>4, <1>14 DEF init_schedule, cpu_idle, Goto, At, links, Places
    <2>2. state[current] = "RUNNABLE"
      BY <1>1, <2>1 DEF RunOK
    <2>3. current = initproc => waiting'[current] = NULL
      BY <1>1, <2>1 DEF Places
    <2>4. Places' /\ NoLostWakeup' /\ Tree(f, g)' /\ Search(f)'
      BY <1>1, <1>2, <1>3, <1>4, <2>1, <2>2, <2>3, MoveStep
    <2> QED
      BY <1>5, <1>6, <2>1, <2>4
  <1>15. CASE do_wait
    <2>1. /\ pc[current] = "do_wait" /\ state[current] = "RUNNABLE" /\ current \in Live
          /\ current \in mm \/ current = initproc
      BY <1>1, <1>4, <1>15, AtPlace DEF do_wait, Places
    <2>2. UNCHANGED <<state, parent, cptr, optr, yptr, kstack, current, mm, panic>>
      BY <1>15 DEF do_wait, links
    <2>3. current = initproc => waiting[current] = NULL
      BY <1>1 DEF Places
    <2>4. CASE waiting[current] = NULL
      <3>1. cursor' = cptr[current] /\ pc' = [pc EXCEPT ![current] = "wait_scan"] /\ UNCHANGED waiting
        BY <1>15, <2>4 DEF do_wait, Goto
      <3>2. Places' /\ NoLostWakeup' /\ Tree(f, g)'
        BY <1>1, <1>2, <1>3, <1>4, <2>1, <2>2, <2>3, <3>1, MoveStep
      <3>3. Search(f)'
        <4>1. pc'[current'] = "wait_scan" /\ waiting'[current'] = NULL /\ cursor' = cptr'[current']
          BY <1>4, <2>2, <2>4, <3>1
        <4>2. ASSUME cursor' # NULL
              PROVE  /\ cursor' \in Children(current)'
                     /\ \A q \in Children(current)' : f[q] < f[cursor'] => state'[q] # "ZOMBIE"
          <5>1. cptr[current] \in Children(current) /\ Live' = Live
            BY <1>3, <1>4, <2>2, <3>1, <4>2 DEF Tree, Lineage, Live
          <5>2. Children(current)' = Children(current)
            BY <2>2, <5>1 DEF Children
          <5>3. f[cptr[current]] = 0
            <6>1. cptr[current] \in Live \ {idleproc} /\ parent[cptr[current]] = current
              BY <1>3, <1>4, <5>1 DEF Children, Tree, Lineage
            <6> QED
              BY <1>3, <6>1 DEF Tree, ByAge
          <5>4. \A q \in Children(current) : f[q] \in Nat
            BY <1>3 DEF Tree, Children, Live
          <5> QED
            BY <3>1, <5>1, <5>2, <5>3, <5>4
        <4> QED
          BY <2>2, <4>1, <4>2 DEF Search
      <3> QED
        BY <1>5, <1>6, <2>2, <3>2, <3>3
    <2>5. CASE waiting[current] # NULL /\ state[waiting[current]] # "FREE" /\ parent[waiting[current]] = current
      <3>1. cursor' = waiting[current] /\ pc' = [pc EXCEPT ![current] = "wait_scan"] /\ UNCHANGED waiting
        BY <1>15, <2>5 DEF do_wait, Goto
      <3>2. Places' /\ NoLostWakeup' /\ Tree(f, g)'
        BY <1>1, <1>2, <1>3, <1>4, <2>1, <2>2, <2>3, <3>1, MoveStep
      <3>3. Search(f)'
        <4>1. pc'[current'] = "wait_scan" /\ waiting'[current'] = cursor' /\ cursor' # NULL
          BY <1>4, <2>2, <2>5, <3>1
        <4>2. cursor' \in Children(current)'
          BY <1>4, <2>2, <2>5, <3>1 DEF Children, Live
        <4> QED
          BY <2>2, <4>1, <4>2 DEF Search
      <3> QED
        BY <1>5, <1>6, <2>2, <3>2, <3>3
    <2>6. CASE waiting[current] # NULL /\ ~(state[waiting[current]] # "FREE" /\ parent[waiting[current]] = current)
      <3>1. /\ pc' = [pc EXCEPT ![current] = WaitReturns(FALSE)]
            /\ waiting' = [waiting EXCEPT ![current] = NULL]
        BY <1>15, <2>6 DEF do_wait, Goto
      <3>2. current # initproc /\ pc'[current] = "trap_exit"
        BY <1>4, <2>3, <2>6, <3>1 DEF WaitReturns
      <3>3. Places' /\ NoLostWakeup' /\ Tree(f, g)' /\ Search(f)'
        BY <1>1, <1>2, <1>3, <1>4, <2>1, <2>2, <3>1, <3>2, MoveStep
      <3> QED
        BY <1>5, <1>6, <2>2, <3>3
    <2> QED
      BY <2>4, <2>5, <2>6
  <1>16. CASE wait_scan
    <2>1. /\ pc[current] = "wait_scan" /\ state[current] = "RUNNABLE" /\ current \in Live
          /\ current \in mm \/ current = initproc
      BY <1>1, <1>4, <1>16, AtPlace DEF wait_scan, Places
    <2>2. UNCHANGED <<state, parent, cptr, optr, yptr, kstack, current, mm, waiting, panic>>
      BY <1>16 DEF wait_scan, links
    <2>3. current = initproc => waiting'[current] = NULL
      BY <1>1, <2>2 DEF Places
    <2>4. /\ Live' = Live
          /\ Children(current)' = Children(current) /\ Awaited(current)' = Awaited(current)
      BY <2>2 DEF Live, Children, Awaited
    <2>5. CASE cursor = NULL
      <3>1. pc' = [pc EXCEPT ![current] = WaitReturns(FALSE)] /\ cptr[current] = NULL
        BY <1>3, <1>16, <2>1, <2>5 DEF wait_scan, Goto, Search
      <3>2. pc'[current] = IF current # initproc THEN "trap_exit" ELSE "init_asserts"
        BY <1>4, <3>1 DEF WaitReturns
      <3>3. Places' /\ NoLostWakeup' /\ Tree(f, g)' /\ Search(f)'
        BY <1>1, <1>2, <1>3, <1>4, <2>1, <2>2, <2>3, <3>1, <3>2, MoveStep
      <3> QED
        BY <1>5, <1>6, <2>2, <3>3
    <2>6. CASE cursor # NULL
      <3>1. /\ state[cursor] # "ZOMBIE"
            /\ cursor' = IF waiting[current] = NULL THEN optr[cursor] ELSE NULL
            /\ pc' = IF cursor' = NULL THEN [pc EXCEPT ![current] = "wait_sleep"] ELSE pc
        BY <1>16, <2>6 DEF wait_scan, Goto
      <3>2. /\ cursor \in Children(current) /\ waiting[current] \in {NULL, cursor}
            /\ waiting[current] = NULL =>
                 \A q \in Children(current) : f[q] < f[cursor] => state[q] # "ZOMBIE"
        BY <1>3, <2>1, <2>6 DEF Search
      <3>3. Places' /\ NoLostWakeup' /\ Tree(f, g)'
        BY <1>1, <1>2, <1>3, <1>4, <2>1, <2>2, <2>3, <3>1, MoveStep
      <3>4. /\ cursor \in Live \ {idleproc} /\ parent[cursor] = current
            /\ \A q \in Children(current) : q \in Live \ {idleproc} /\ parent[q] = current /\ f[q] \in Nat
        BY <1>3, <1>4, <3>2 DEF Children, Tree, Lineage, Live
      <3>5. CASE cursor' # NULL
        <4>1. /\ waiting[current] = NULL /\ cursor' = optr[cursor] /\ pc' = pc
          BY <3>1, <3>5
        <4>2. cursor' \in Children(current) /\ f[cursor'] = f[cursor] + 1
          BY <1>1, <1>3, <3>4, <3>5, <4>1, OlderSibling
        <4>3. ASSUME NEW q \in Children(current), f[q] < f[cursor'] PROVE state[q] # "ZOMBIE"
          <5>1. f[q] < f[cursor] \/ f[q] = f[cursor]
            BY <3>2, <3>4, <4>2, <4>3
          <5>2. f[q] = f[cursor] => q = cursor
            BY <1>3, <3>4 DEF Tree, ByAge
          <5> QED
            BY <3>1, <3>2, <4>1, <5>1, <5>2
        <4>4. Search(f)'
          BY <2>1, <2>2, <2>4, <3>5, <4>1, <4>2, <4>3 DEF Search
        <4> QED
          BY <1>5, <1>6, <2>2, <3>3, <4>4
      <3>6. CASE cursor' = NULL
        <4>1. pc'[current] = "wait_sleep"
          BY <1>4, <3>1, <3>6
        <4>2. Awaited(current) # {}
          BY <3>2 DEF Awaited
        <4>3. ASSUME NEW q \in Awaited(current) PROVE state[q] # "ZOMBIE"
          <5>1. CASE waiting[current] # NULL
            BY <3>1, <3>2, <4>3, <5>1 DEF Awaited
          <5>2. CASE waiting[current] = NULL
            <6>1. optr[cursor] = NULL /\ q \in Children(current)
              BY <3>1, <3>6, <4>3, <5>2 DEF Awaited
            <6> DEFINE S == {r \in Children(current) : f[r] > f[cursor]}
            <6>2. S = {}
              <7> SUFFICES ASSUME S # {} PROVE FALSE
                OBVIOUS
              <7>1. S \in SUBSET Procs /\ f \in [Procs -> Nat]
                BY <1>3 DEF Children, Live, Tree
              <7>2. PICK m \in S : \A r \in S : f[m] <= f[r]
                BY <7>1, LeastProc
              <7>3. m \in Live \ {idleproc} /\ parent[m] = current /\ f[m] > f[cursor]
                BY <3>4, <7>2
              <7>4. cptr[parent[m]] # m
                BY <1>3, <3>2, <3>4, <7>2, <7>3 DEF Tree, ByAge
              <7>5. yptr[m] \in Children(current) /\ optr[yptr[m]] = m /\ f[m] = f[yptr[m]] + 1
                BY <1>1, <1>3, <7>3, <7>4, YoungerSibling
              <7>6. f[yptr[m]] = f[cursor]
                BY <3>2, <3>4, <7>2, <7>5
              <7>7. yptr[m] = cursor
                BY <1>3, <3>4, <7>5, <7>6 DEF Tree, ByAge
              <7> QED
                BY <1>4, <6>1, <7>3, <7>5, <7>7 DEF Live
            <6>3. f[q] < f[cursor] \/ f[q] = f[cursor]
              BY <3>2, <3>4, <6>1, <6>2
            <6>4. f[q] = f[cursor] => q = cursor
              BY <1>3, <3>4, <6>1 DEF Tree, ByAge
            <6> QED
              BY <3>1, <3>2, <5>2, <6>1, <6>3, <6>4
          <5> QED
            BY <5>1, <5>2
        <4>4. Search(f)'
          BY <2>2, <2>4, <4>1, <4>2, <4>3 DEF Search
        <4> QED
          BY <1>5, <1>6, <2>2, <3>3, <4>4
      <3> QED
        BY <3>5, <3>6
    <2> QED
      BY <2>5, <2>6
  <1>17. ASSUME NEW f1, NEW g1, Places', NoLostWakeup', AssertsHold', Tree(f1, g1)', Search(f1)'
         PROVE  FInv'
    BY <1>2, <1>17 DEF FInv
  <1>18. CASE wait_found
    <2>1. /\ pc[current] = "wait_scan" /\ state[current] = "RUNNABLE" /\ current \in Live
          /\ current # idleproc /\ (current \in mm \/ current = initproc)
      BY <1>1, <1>4, <1>18, AtPlace DEF wait_found, Places
    <2>2. /\ cursor # NULL /\ cursor \in Procs /\ state[cursor] = "ZOMBIE"
          /\ cursor \in Children(current)
      BY <1>3, <1>4, <1>18, <2>1 DEF wait_found, Search
    <2>3. /\ cursor # current /\ cursor # idleproc /\ cursor # initproc
          /\ cursor \in Live /\ parent[cursor] = current /\ idleproc \in Live
      BY <1>1, <1>4, <2>1, <2>2 DEF RunOK, Live, Children
    <2>4. pc[cursor] = "dead" /\ Children(cursor) = {}
      <3>1. pc[cursor] \in {"reparent", "dead"} /\ pc[cursor] # "reparent"
        BY <1>1, <2>2, <2>3 DEF WaitStateOK, Places
      <3> QED
        BY <1>3, <2>3, <3>1 DEF Tree, LinksOK
    <2>5. /\ remove_links(cursor)
          /\ kstack' = kstack \ {cursor}
          /\ state' = [state EXCEPT ![cursor] = "FREE"]
          /\ waiting' = [waiting EXCEPT ![cursor] = NULL, ![current] = NULL]
          /\ pc' = [pc EXCEPT ![cursor] = "none", ![current] = WaitReturns(TRUE)]
          /\ UNCHANGED <<wait_state, current, mm, panic>>
      BY <1>18, <2>3 DEF wait_found
    <2>6. /\ \A q \in Procs \ {cursor, current} : pc'[q] = pc[q] /\ waiting'[q] = waiting[q]
          /\ pc'[cursor] = "none"
          /\ pc'[current] = IF current # initproc THEN "trap_exit" ELSE "init_schedule"
          /\ waiting'[current] = NULL
          /\ state'[cursor] = "FREE" /\ \A q \in Procs \ {cursor} : state'[q] = state[q]
          /\ Live' = Live \ {cursor}
      BY <1>4, <2>2, <2>3, <2>5 DEF WaitReturns, Live
    <2>7. /\ parent \in [Procs -> Procs \cup {NULL}] /\ cptr \in [Procs -> Procs \cup {NULL}]
          /\ \A q \in Procs : parent'[q] = IF q = cursor THEN NULL ELSE parent[q]
          /\ \A q \in Procs : yptr'[q] = IF q = cursor THEN NULL
                                         ELSE IF q = optr[cursor] THEN yptr[cursor] ELSE yptr[q]
          /\ \A q \in Procs : optr'[q] = IF q = cursor THEN NULL
                                         ELSE IF q = yptr[cursor] THEN optr[cursor] ELSE optr[q]
          /\ \A q \in Procs : cptr'[q] = IF q = current /\ yptr[cursor] = NULL
                                         THEN optr[cursor] ELSE cptr[q]
      BY <1>4, <2>3, <2>5 DEF remove_links
    <2>8. PICK f1 \in [Procs -> Nat] :
            \A q \in Procs : f1[q] = IF parent[q] = current /\ f[q] > f[cursor] THEN f[q] - 1 ELSE f[q]
      <3> DEFINE h == [q \in Procs |-> IF parent[q] = current /\ f[q] > f[cursor] THEN f[q] - 1 ELSE f[q]]
      <3>1. f \in [Procs -> Nat]
        BY <1>3 DEF Tree
      <3>2. h \in [Procs -> Nat]
        BY <2>2, <3>1
      <3> QED
        BY <3>2
    <2>9. Tree(f1, g)'
      BY <1>3, <2>1, <2>3, <2>4, <2>6, <2>7, <2>8, RemoveTree
    <2>10. NoLostWakeup'
      <3>1. \A x \in Live : x # current => Children(x)' = Children(x)
        BY <2>3, <2>6, <2>7 DEF Children, Live
      <3>2. ASSUME NEW x \in Live', state'[x] = "SLEEPING"
            PROVE  Awaited(x)' # {} /\ \A q \in Awaited(x)' : state'[q] # "ZOMBIE"
        <4>1. x \in Live /\ x # current /\ x # cursor /\ state[x] = "SLEEPING" /\ x \in Procs
          BY <2>1, <2>3, <2>6, <3>2 DEF Live
        <4>2. Awaited(x)' = Awaited(x)
          BY <2>6, <3>1, <4>1 DEF Awaited
        <4>3. Awaited(x) # {} /\ \A q \in Awaited(x) : state[q] # "ZOMBIE"
          BY <1>1, <4>1 DEF NoLostWakeup, Awaited
        <4>4. \A q \in Awaited(x) : q \in Procs
          BY DEF Awaited, Children, Live
        <4> QED
          BY <2>6, <4>2, <4>3, <4>4
      <3> QED
        BY <3>2 DEF NoLostWakeup, Awaited
    <2>11. Places'
      <3>1. \A p \in Procs : pc'[p] \in {"reparent", "wait_scan", "wait_sleep", "init_asserts"} => p = current'
        BY <1>1, <2>1, <2>5, <2>6 DEF Places
      <3>2. \A p \in Procs : pc'[p] \in UserPC \cup WaitPC => p \in mm' \/ p = initproc
        BY <1>1, <2>1, <2>5, <2>6 DEF Places
      <3>3. \A p \in Procs : pc'[p] \in InitPC => p = initproc
        BY <1>1, <2>1, <2>6 DEF Places
      <3>4. /\ pc'[initproc] \in InitPC \cup WaitPC \cup {"do_exit"} /\ waiting'[initproc] = NULL
            /\ pc'[initproc] # "init_asserts"
        BY <1>1, <1>4, <2>1, <2>3, <2>6 DEF Places
      <3>5. kstack' = Live' \ {idleproc}
        BY <1>1, <2>5, <2>6 DEF Places
      <3>6. \A p \in mm' : state'[p] \in {"RUNNABLE", "SLEEPING"}
        BY <1>1, <1>4, <2>2, <2>5, <2>6 DEF Places
      <3> QED
        BY <3>1, <3>2, <3>3, <3>4, <3>5, <3>6 DEF Places
    <2>12. Search(f1)'
      <3>1. current' = current
        BY <2>5
      <3>2. pc'[current'] \notin {"wait_scan", "wait_sleep"}
        BY <2>6, <3>1
      <3> QED
        BY <3>2 DEF Search
    <2> QED
      BY <1>6, <1>17, <2>5, <2>9, <2>10, <2>11, <2>12
  <1>19. CASE wait_sleep
    <2>1. /\ pc[current] = "wait_sleep" /\ state[current] = "RUNNABLE" /\ current \in Live
          /\ current # idleproc /\ (current \in mm \/ current = initproc)
      BY <1>1, <1>4, <1>19, AtPlace DEF wait_sleep, Places
    <2>2. /\ UNCHANGED <<parent, cptr, optr, yptr, kstack, mm, waiting, panic>>
          /\ state' = [state EXCEPT ![current] = "SLEEPING"]
          /\ pc' = [pc EXCEPT ![current] = "wait_ret"]
      BY <1>19 DEF wait_sleep, Goto, links
    <2>3. /\ state'[current] = "SLEEPING" /\ \A q \in Procs \ {current} : state'[q] = state[q]
          /\ pc'[current] = "wait_ret" /\ \A q \in Procs \ {current} : pc'[q] = pc[q]
      BY <1>4, <2>2
    <2>4. Live' = Live /\ Live \subseteq Procs
      BY <2>1, <2>3 DEF Live
    <2>5. Tree(f, g)'
      BY <1>3, <2>1, <2>2, <2>3, <2>4, SameTree
    <2>6. NoLostWakeup'
      <3>1. \A x : Awaited(x)' = Awaited(x)
        BY <2>2, <2>4 DEF Awaited, Children
      <3>2. ASSUME NEW x \in Live', state'[x] = "SLEEPING"
            PROVE  Awaited(x) # {} /\ \A q \in Awaited(x) : state[q] # "ZOMBIE"
        <4>1. CASE x = current
          BY <1>3, <2>1, <4>1 DEF Search
        <4>2. CASE x # current
          BY <1>1, <2>3, <2>4, <3>2, <4>2 DEF NoLostWakeup, Awaited
        <4> QED
          BY <4>1, <4>2
      <3>3. \A q \in Procs : state'[q] = "ZOMBIE" => state[q] = "ZOMBIE"
        BY <2>3
      <3>4. \A x : \A q \in Awaited(x) : q \in Procs
        BY <2>4 DEF Awaited, Children
      <3>5. \A x \in Live' : state'[x] = "SLEEPING" =>
              Awaited(x)' # {} /\ \A q \in Awaited(x)' : state'[q] # "ZOMBIE"
        BY <3>1, <3>2, <3>3, <3>4
      <3> QED
        BY <3>5 DEF NoLostWakeup, Awaited
    <2>7. Places'
      <3>1. /\ \A p \in Procs : pc'[p] \notin {"reparent", "wait_scan", "wait_sleep", "init_asserts"}
            /\ \A p \in Procs : pc'[p] \in UserPC \cup WaitPC => p \in mm' \/ p = initproc
            /\ \A p \in Procs : pc'[p] \in InitPC => p = initproc
        BY <1>1, <2>1, <2>2, <2>3 DEF Places
      <3>2. /\ pc'[initproc] \in InitPC \cup WaitPC \cup {"do_exit"} /\ waiting'[initproc] = NULL
            /\ pc'[initproc] # "init_asserts"
        BY <1>1, <1>4, <2>2, <2>3, <3>1 DEF Places
      <3>3. kstack' = Live' \ {idleproc} /\ \A p \in mm' : state'[p] \in {"RUNNABLE", "SLEEPING"}
        BY <1>1, <1>4, <2>2, <2>3, <2>4 DEF Places
      <3> QED
        BY <3>1, <3>2, <3>3 DEF Places
    <2>8. Search(f)'
      <3>1. current' \in Procs
        BY <1>2 DEF TypeOK
      <3>2. pc'[current'] \notin {"wait_scan", "wait_sleep"}
        BY <1>1, <2>3, <3>1 DEF Places
      <3> QED
        BY <3>2 DEF Search
    <2> QED
      BY <1>5, <1>6, <2>2, <2>5, <2>6, <2>7, <2>8
  <1>20. CASE exit_schedule
    <2>1. /\ pc[current] = "reparent" /\ cptr[current] = NULL /\ current # initproc
          /\ UNCHANGED <<state, parent, cptr, optr, yptr, kstack, mm, waiting, panic>>
          /\ pc' = [pc EXCEPT ![current] = "dead"]
      BY <1>1, <1>20 DEF exit_schedule, At, Goto, links, Places
    <2>2. pc'[current] = "dead" /\ \A q \in Procs \ {current} : pc'[q] = pc[q]
      BY <1>4, <2>1
    <2>3. Live' = Live /\ Live \subseteq Procs
      BY <2>1 DEF Live
    <2>4. Children(current) = {}
      BY <1>1, <1>3, <1>4, <2>1, NoFirstNoChild
    <2>5. Tree(f, g)'
      BY <1>3, <2>1, <2>2, <2>3, <2>4, SameTree
    <2>6. NoLostWakeup'
      BY <1>1, <2>1, <2>3, SameWakeup
    <2>7. Places'
      <3>1. /\ \A p \in Procs : pc'[p] \notin {"reparent", "wait_scan", "wait_sleep", "init_asserts"}
            /\ \A p \in Procs : pc'[p] \in UserPC \cup WaitPC => p \in mm' \/ p = initproc
            /\ \A p \in Procs : pc'[p] \in InitPC => p = initproc
        BY <1>1, <2>1, <2>2 DEF Places
      <3>2. /\ pc'[initproc] \in InitPC \cup WaitPC \cup {"do_exit"} /\ waiting'[initproc] = NULL
            /\ pc'[initproc] # "init_asserts"
        BY <1>1, <1>4, <2>1, <2>2, <3>1 DEF Places
      <3>3. kstack' = Live' \ {idleproc} /\ \A p \in mm' : state'[p] \in {"RUNNABLE", "SLEEPING"}
        BY <1>1, <2>1, <2>3 DEF Places
      <3> QED
        BY <3>1, <3>2, <3>3 DEF Places
    <2>8. Search(f)'
      <3>1. current' \in Procs
        BY <1>2 DEF TypeOK
      <3>2. pc'[current'] \notin {"wait_scan", "wait_sleep"}
        BY <1>1, <2>2, <3>1 DEF Places
      <3> QED
        BY <3>2 DEF Search
    <2> QED
      BY <1>5, <1>6, <2>1, <2>5, <2>6, <2>7, <2>8
  <1>21. CASE init_main_fails \/ UNCHANGED vars
    <2>1. UNCHANGED <<state, wait_state, links, current, mm, kstack, pc, waiting, cursor>>
      BY <1>21 DEF init_main_fails, vars
    <2>2. AssertsHold'
      <3>1. CASE init_main_fails
        BY <3>1, Zenon DEF init_main_fails, AssertsHold
      <3>2. CASE UNCHANGED vars
        BY <1>6, <3>2 DEF vars
      <3> QED
        BY <1>21, <3>1, <3>2
    <2>3. Live' = Live
      BY <2>1 DEF Live
    <2>4. Places'
      BY <1>1, <2>1, <2>3 DEF Places, links
    <2>5. NoLostWakeup'
      BY <1>1, <2>1, <2>3, SameWakeup DEF links
    <2>6. Tree(f, g)' /\ Search(f)'
      BY <1>3, <2>1, <2>3, SameTree, SameSearch DEF links
    <2> QED
      BY <1>5, <2>2, <2>4, <2>5, <2>6
  <1>22. ASSUME NEW q \in Pids \cup {initproc}, sys_kill(q) PROVE FInv'
    <2>1. /\ pc[current] = "user" /\ state[current] = "RUNNABLE"
          /\ current # initproc /\ current \in mm /\ q \in Procs
      BY <1>1, <1>4, <1>22, AtPlace DEF sys_kill, Places, Procs
    <2>2. /\ UNCHANGED <<parent, cptr, optr, yptr, kstack, current, mm, waiting>>
          /\ pc' = [pc EXCEPT ![current] = "trap_exit"]
          /\ wakeup_proc(KillWakes(q), state, q)
      BY <1>22 DEF sys_kill, Goto, links
    <2>3. KillWakes(q) => state[q] = "SLEEPING"
      BY <1>1, <2>1 DEF KillWakes, WaitStateOK
    <2>4. UNCHANGED panic
      BY <2>2, <2>3, Zenon DEF wakeup_proc
    <2>5. /\ \A p \in Procs \ {q} : state'[p] = state[p]
          /\ state'[q] = state[q] \/ (state[q] = "SLEEPING" /\ state'[q] = "RUNNABLE")
      BY <1>4, <2>1, <2>2, <2>3 DEF wakeup_proc
    <2>6. Live' = Live /\ Live \subseteq Procs
      BY <2>1, <2>5 DEF Live
    <2>7. pc'[current] = "trap_exit" /\ \A p \in Procs \ {current} : pc'[p] = pc[p]
      BY <1>4, <2>2
    <2>8. Tree(f, g)'
      BY <1>3, <2>1, <2>2, <2>6, <2>7, SameTree
    <2>9. NoLostWakeup'
      BY <1>1, <2>1, <2>2, <2>5, <2>6, SameWakeup
    <2>10. Places'
      <3>1. /\ \A p \in Procs : pc'[p] \notin {"reparent", "wait_scan", "wait_sleep", "init_asserts"}
            /\ \A p \in Procs : pc'[p] \in UserPC \cup WaitPC => p \in mm' \/ p = initproc
            /\ \A p \in Procs : pc'[p] \in InitPC => p = initproc
        BY <1>1, <2>1, <2>2, <2>7 DEF Places
      <3>2. /\ pc'[initproc] \in InitPC \cup WaitPC \cup {"do_exit"} /\ waiting'[initproc] = NULL
            /\ pc'[initproc] # "init_asserts"
        BY <1>1, <1>4, <2>1, <2>2, <2>7, <3>1 DEF Places
      <3>3. kstack' = Live' \ {idleproc} /\ \A p \in mm' : state'[p] \in {"RUNNABLE", "SLEEPING"}
        BY <1>1, <1>4, <2>1, <2>2, <2>5, <2>6 DEF Places
      <3> QED
        BY <3>1, <3>2, <3>3 DEF Places
    <2>11. Search(f)'
      <3>1. current' = current
        BY <2>2
      <3>2. pc'[current'] \notin {"wait_scan", "wait_sleep"}
        BY <2>7, <3>1
      <3> QED
        BY <3>2 DEF Search
    <2> QED
      BY <1>5, <1>6, <2>4, <2>8, <2>9, <2>10, <2>11
  <1>23. CASE init_asserts
    <2>1. /\ pc[current] = "init_asserts" /\ current = initproc /\ cptr[initproc] = NULL
          /\ state[current] = "RUNNABLE" /\ current \in Live
      BY <1>1, <1>4, <1>23, AtPlace DEF init_asserts, Places
    <2>2. /\ UNCHANGED <<state, parent, cptr, optr, yptr, kstack, current, mm, waiting>>
          /\ pc' = [pc EXCEPT ![current] = "do_exit"]
          /\ panic' = IF AllQuit THEN panic ELSE "assert"
      BY <1>23 DEF init_asserts, Goto, links
    <2>3. Children(initproc) = {}
      BY <1>1, <1>3, <1>4, <2>1, NoFirstNoChild
    <2>4. Live = {idleproc, initproc}
      <3> DEFINE S == Live \ {idleproc, initproc}
      <3>1. S = {}
        <4> SUFFICES ASSUME S # {} PROVE FALSE
          OBVIOUS
        <4>1. S \in SUBSET Procs /\ g \in [Procs -> Nat]
          BY <1>3 DEF Live, Tree
        <4>2. PICK m \in S : \A r \in S : g[m] <= g[r]
          BY <4>1, LeastProc
        <4>3. parent[m] # idleproc /\ g[parent[m]] < g[m] /\ parent[m] \in Live
          BY <1>3, <4>2 DEF Tree, Lineage, LinksOK
        <4>4. parent[m] # initproc
          BY <2>3, <4>2 DEF Children
        <4> QED
          BY <4>1, <4>2, <4>3, <4>4
      <3>2. idleproc \in Live
        BY <1>1, <1>4 DEF RunOK, Live
      <3> QED
        BY <2>1, <3>1, <3>2
    <2>5. proc_list = <<initproc>> /\ nr_process = 2
      <3>1. proc_list \in Seq(Procs)
        BY <1>1 DEF TypeOK
      <3>2. \A k \in 1..Len(proc_list) : proc_list[k] = initproc
        BY <1>1, <2>4, <3>1 DEF Listed, Live
      <3>3. \E k \in 1..Len(proc_list) : proc_list[k] = initproc
        BY <1>1, <1>4, <2>1 DEF Listed, Live
      <3>4. \A j, k \in 1..Len(proc_list) : j = k
        BY <1>1, <3>2 DEF Listed
      <3>5. Len(proc_list) = 1
        <4>1. Len(proc_list) \in Nat
          BY <3>1
        <4>2. 1 \in 1..Len(proc_list) /\ Len(proc_list) \in 1..Len(proc_list)
          BY <3>3, <4>1
        <4> QED
          BY <3>4, <4>2
      <3>6. proc_list = <<initproc>>
        BY <3>1, <3>2, <3>5
      <3> QED
        BY <1>1, <3>5, <3>6 DEF Listed
    <2>6. yptr[initproc] = NULL /\ optr[initproc] = NULL
      <3>1. parent[initproc] = idleproc /\ cptr[idleproc] = initproc /\ parent[idleproc] = NULL
        BY <1>3 DEF Tree, Lineage
      <3>2. pc[idleproc] # "reparent" /\ initproc \in Live \ {idleproc}
        BY <1>1, <1>4, <2>1 DEF RunOK
      <3>3. yptr[initproc] = NULL
        BY <1>3, <3>1, <3>2 DEF Tree, LinksOK
      <3>4. optr[initproc] # NULL => optr[initproc] \in Children(idleproc) \ {initproc}
        BY <1>3, <3>1, <3>2 DEF Tree, LinksOK
      <3>5. Children(idleproc) \subseteq {initproc}
        BY <1>4, <2>4, <3>1 DEF Children
      <3> QED
        BY <3>3, <3>4, <3>5
    <2>7. UNCHANGED panic
      BY <2>1, <2>2, <2>5, <2>6 DEF AllQuit
    <2>8. pc'[current] = "do_exit" /\ \A q \in Procs \ {current} : pc'[q] = pc[q]
      BY <1>4, <2>2
    <2>9. waiting'[current] = NULL
      BY <1>1, <2>1, <2>2 DEF Places
    <2>10. Places' /\ NoLostWakeup' /\ Tree(f, g)' /\ Search(f)'
      BY <1>1, <1>2, <1>3, <1>4, <2>1, <2>2, <2>8, <2>9, MoveStep
    <2> QED
      BY <1>5, <1>6, <2>7, <2>10
  <1>24. ASSUME NEW p \in Pids, NEW lp, NEW lc, NEW childmm,
                do_fork(p, [parent |-> lp, child |-> lc], childmm),
                \/ At("user") /\ lp = "trap_exit" /\ lc = "user"
                     /\ childmm = IF current \in mm THEN {p} ELSE {}
                \/ At("init_main") /\ lp = "do_wait" /\ lc = "user_main" /\ childmm = {}
         PROVE  FInv'
    <2>1. /\ state[current] = "RUNNABLE" /\ current # idleproc /\ current \in Live
          /\ \/ /\ pc[current] = "user" /\ lp = "trap_exit" /\ lc = "user"
                /\ current \in mm /\ current # initproc /\ childmm = {p}
             \/ /\ pc[current] = "init_main" /\ lp = "do_wait" /\ lc = "user_main"
                /\ current = initproc /\ childmm = {}
      BY <1>1, <1>4, <1>24, AtPlace DEF Places
    <2>2. p \in Procs /\ state[p] = "FREE" /\ p \notin Live /\ p # current /\ p # initproc /\ p # idleproc
      BY <1>4, <1>24, <2>1, ProcsAssumption DEF do_fork, Procs, Live
    <2>3. /\ panic' = IF wait_state[current] = "0" THEN panic ELSE "assert"
          /\ state' = [state EXCEPT ![p] = "RUNNABLE"]
          /\ kstack' = kstack \cup {p}
          /\ mm' = mm \cup childmm
          /\ set_links(p)
          /\ pc' = [pc EXCEPT ![current] = lp, ![p] = lc]
          /\ UNCHANGED <<current, waiting>>
      BY <1>24 DEF do_fork
    <2>4. UNCHANGED panic
      <3>1. wait_state[current] \in {"0", "WT_CHILD"} /\ wait_state[current] # "WT_CHILD"
        BY <1>1, <1>4, <2>1 DEF WaitStateOK, TypeOK
      <3> QED
        BY <2>3, <3>1
    <2>5. /\ state'[p] = "RUNNABLE" /\ \A q \in Procs \ {p} : state'[q] = state[q]
          /\ pc'[p] = lc /\ pc'[current] = lp /\ \A q \in Procs \ {p, current} : pc'[q] = pc[q]
          /\ Live' = Live \cup {p} /\ idleproc \in Live
      <3>1. /\ state'[p] = "RUNNABLE" /\ \A q \in Procs \ {p} : state'[q] = state[q]
            /\ pc'[p] = lc /\ pc'[current] = lp /\ \A q \in Procs \ {p, current} : pc'[q] = pc[q]
        BY <1>4, <2>2, <2>3
      <3> QED
        BY <1>1, <1>4, <2>2, <3>1 DEF Live, RunOK
    <2>6. /\ \A q \in Procs : parent'[q] = IF q = p THEN current ELSE parent[q]
          /\ \A q \in Procs : optr'[q] = IF q = p THEN cptr[current] ELSE optr[q]
          /\ \A q \in Procs : cptr'[q] = IF q = current THEN p ELSE cptr[q]
          /\ \A q \in Procs : yptr'[q] = IF q = p THEN NULL ELSE IF q = cptr[current] THEN p ELSE yptr[q]
      <3>1. optr \in [Procs -> Procs \cup {NULL}]
        BY <1>1, Fields
      <3> QED
        BY <1>4, <2>3, <3>1 DEF set_links
    <2>7. PICK f1 \in [Procs -> Nat] :
            \A q \in Procs : f1[q] = IF q = p THEN 0 ELSE IF parent[q] = current THEN f[q] + 1 ELSE f[q]
      <3> DEFINE h == [q \in Procs |-> IF q = p THEN 0 ELSE IF parent[q] = current THEN f[q] + 1 ELSE f[q]]
      <3>1. f \in [Procs -> Nat]
        BY <1>3 DEF Tree
      <3>2. h \in [Procs -> Nat]
        BY <3>1
      <3> QED
        BY <3>2
    <2>8. PICK g1 \in [Procs -> Nat] : \A q \in Procs : g1[q] = IF q = p THEN g[current] + 1 ELSE g[q]
      <3> DEFINE h == [q \in Procs |-> IF q = p THEN g[current] + 1 ELSE g[q]]
      <3>1. g \in [Procs -> Nat]
        BY <1>3 DEF Tree
      <3>2. h \in [Procs -> Nat]
        BY <1>4, <3>1
      <3> QED
        BY <3>2
    <2>9. Tree(f1, g1)'
      <3>1. PICK c, h : c \in Procs /\ c = current /\ h = cptr[c]
        BY <1>4
      <3>2. /\ pc[c] # "reparent" /\ pc'[c] # "dead" /\ pc'[p] # "dead"
            /\ c \in Live /\ c # idleproc /\ idleproc \in Live
            /\ \A q \in Procs \ {p, c} : pc'[q] = pc[q]
            /\ Live' = Live \cup {p}
        BY <2>1, <2>5, <3>1
      <3>3. /\ \A q \in Procs : parent'[q] = IF q = p THEN c ELSE parent[q]
            /\ \A q \in Procs : optr'[q] = IF q = p THEN h ELSE optr[q]
            /\ \A q \in Procs : cptr'[q] = IF q = c THEN p ELSE cptr[q]
            /\ \A q \in Procs : yptr'[q] = IF q = p THEN NULL ELSE IF q = h THEN p ELSE yptr[q]
        BY <2>6, <3>1
      <3>4. /\ \A q \in Procs : f1[q] = IF q = p THEN 0 ELSE IF parent[q] = c THEN f[q] + 1 ELSE f[q]
            /\ \A q \in Procs : g1[q] = IF q = p THEN g[c] + 1 ELSE g[q]
        BY <2>7, <2>8, <3>1
      <3>5. Forked(f, g, f1, g1, p, c, h)
        BY <2>2, <3>2, <3>3, <3>4 DEF Forked
      <3> QED
        BY <1>3, <2>2, <3>1, <3>5, ForkTree
    <2>10. NoLostWakeup'
      <3>1. \A x \in Live : x # current => Children(x)' = Children(x)
        BY <2>2, <2>5, <2>6 DEF Children, Live
      <3>2. ASSUME NEW x \in Live', state'[x] = "SLEEPING"
            PROVE  Awaited(x)' # {} /\ \A q \in Awaited(x)' : state'[q] # "ZOMBIE"
        <4>1. x \in Live /\ x # current /\ state[x] = "SLEEPING"
          BY <2>1, <2>2, <2>5, <3>2 DEF Live
        <4>2. Awaited(x)' = Awaited(x)
          BY <2>3, <3>1, <4>1 DEF Awaited
        <4>3. Awaited(x) # {} /\ \A q \in Awaited(x) : state[q] # "ZOMBIE"
          BY <1>1, <4>1 DEF NoLostWakeup, Awaited
        <4>4. \A q \in Awaited(x) : q \in Procs
          BY DEF Awaited, Children, Live
        <4> QED
          BY <2>5, <4>2, <4>3, <4>4
      <3> QED
        BY <3>2 DEF NoLostWakeup, Awaited
    <2>11. Places'
      <3>1. \A q \in Procs : pc'[q] \notin {"reparent", "wait_scan", "wait_sleep", "init_asserts"}
        BY <1>1, <2>1, <2>5 DEF Places
      <3>2. \A q \in Procs : pc'[q] \in UserPC \cup WaitPC => q \in mm' \/ q = initproc
        BY <1>1, <2>1, <2>3, <2>5 DEF Places
      <3>3. \A q \in Procs : pc'[q] \in InitPC => q = initproc
        BY <1>1, <2>1, <2>5 DEF Places
      <3>4. pc'[initproc] \in InitPC \cup WaitPC \cup {"do_exit"} /\ waiting'[initproc] = NULL
        BY <1>1, <1>4, <2>1, <2>2, <2>3, <2>5 DEF Places
      <3>5. kstack' = Live' \ {idleproc}
        BY <1>1, <2>2, <2>3, <2>5 DEF Places
      <3>6. \A q \in mm' : state'[q] \in {"RUNNABLE", "SLEEPING"}
        BY <1>1, <1>4, <2>1, <2>2, <2>3, <2>5 DEF Places
      <3> QED
        BY <1>4, <3>1, <3>2, <3>3, <3>4, <3>5, <3>6 DEF Places
    <2>12. Search(f1)'
      <3>1. current' = current
        BY <2>3
      <3>2. pc'[current'] \notin {"wait_scan", "wait_sleep"}
        BY <2>1, <2>5, <3>1
      <3> QED
        BY <3>2 DEF Search
    <2> QED
      BY <1>6, <1>17, <2>4, <2>9, <2>10, <2>11, <2>12
  <1>25. CASE do_exit
    <2>1. /\ pc[current] = "do_exit" /\ state[current] = "RUNNABLE"
          /\ current # idleproc /\ current \in Live
      BY <1>1, <1>4, <1>25, AtPlace DEF do_exit
    <2>2. UNCHANGED <<parent, cptr, optr, yptr, current, kstack, waiting, cursor>>
      BY <1>25 DEF do_exit, links
    <2>3. CASE current = initproc
      <3>1. /\ UNCHANGED <<state, wait_state, mm, pc>> /\ AssertsHold'
        <4>1. panic' = "initproc exit" /\ UNCHANGED <<state, wait_state, mm, pc>>
          BY <1>25, <2>3, Zenon DEF do_exit
        <4> QED
          BY <4>1, Zenon DEF AssertsHold
      <3>2. Live' = Live
        BY <3>1 DEF Live
      <3>3. Places'
        BY <1>1, <2>2, <3>1, <3>2 DEF Places
      <3>4. NoLostWakeup'
        BY <1>1, <2>2, <3>1, <3>2, SameWakeup
      <3>5. Tree(f, g)' /\ Search(f)'
        BY <1>3, <2>2, <3>1, <3>2, SameTree, SameSearch
      <3> QED
        BY <1>5, <3>1, <3>3, <3>4, <3>5
    <2>4. CASE current # initproc
      <3> DEFINE q == parent[current]
                 st == [state EXCEPT ![current] = "ZOMBIE"]
      <3>1. q \in Live /\ q # current /\ q \in Procs
        BY <1>3, <2>1 DEF Tree, LinksOK, Live
      <3>2. /\ mm' = mm \ {current} /\ pc' = [pc EXCEPT ![current] = "reparent"]
            /\ wakeup_proc(ParentWaits, st, q)
        BY <1>25, <2>4, Zenon DEF do_exit, Goto
      <3>3. ParentWaits <=> state[q] = "SLEEPING"
        BY <1>1, <3>1 DEF ParentWaits, WaitStateOK
      <3>4. /\ state'[current] = "ZOMBIE" /\ state'[q] # "SLEEPING"
            /\ \A p \in Procs \ {current, q} : state'[p] = state[p]
            /\ state'[q] = state[q] \/ (state[q] = "SLEEPING" /\ state'[q] = "RUNNABLE")
            /\ st[q] = state[q]
        BY <1>4, <3>1, <3>2, <3>3 DEF wakeup_proc
      <3>5. UNCHANGED panic
        <4>1. ParentWaits => st[q] # "ZOMBIE"
          BY <3>3, <3>4
        <4> QED
          BY <3>2, <4>1, Zenon DEF wakeup_proc
      <3>6. pc'[current] = "reparent" /\ \A p \in Procs \ {current} : pc'[p] = pc[p]
        BY <1>4, <3>2
      <3> HIDE DEF st
      <3>7. Live' = Live /\ Live \subseteq Procs
        BY <2>1, <3>1, <3>4 DEF Live
      <3>8. Tree(f, g)'
        BY <1>3, <2>1, <2>2, <3>6, <3>7, SameTree
      <3>9. NoLostWakeup'
        BY <1>1, <1>4, <2>2, <3>1, <3>4, <3>7, SameWakeup
      <3>10. Places'
        <4>1. /\ \A p \in Procs : pc'[p] \in {"reparent", "wait_scan", "wait_sleep", "init_asserts"} => p = current'
              /\ \A p \in Procs : pc'[p] \in UserPC \cup WaitPC => p \in mm' \/ p = initproc
              /\ \A p \in Procs : pc'[p] \in InitPC => p = initproc
          BY <1>1, <2>2, <2>4, <3>2, <3>6 DEF Places
        <4>2. /\ pc'[initproc] \in InitPC \cup WaitPC \cup {"do_exit"} /\ waiting'[initproc] = NULL
              /\ pc'[initproc] = "init_asserts" => cptr'[initproc] = NULL
          BY <1>1, <1>4, <2>2, <2>4, <3>6 DEF Places
        <4>3. kstack' = Live' \ {idleproc}
          BY <1>1, <2>2, <3>7 DEF Places
        <4>4. \A p \in mm' : state'[p] \in {"RUNNABLE", "SLEEPING"}
          BY <1>1, <1>4, <3>1, <3>2, <3>4 DEF Places
        <4> QED
          BY <4>1, <4>2, <4>3, <4>4 DEF Places
      <3>11. Search(f)'
        <4>1. current' = current
          BY <2>2
        <4>2. pc'[current'] \notin {"wait_scan", "wait_sleep"}
          BY <3>6, <4>1
        <4> QED
          BY <4>2 DEF Search
      <3> QED
        BY <1>5, <1>6, <3>5, <3>8, <3>9, <3>10, <3>11
    <2> QED
      BY <2>3, <2>4
  <1>26. CASE reparent
    <2> DEFINE p == cptr[current]
    <2>1. pc[current] = "reparent" /\ p # NULL
      BY <1>26 DEF reparent, At
    <2>2. /\ UNCHANGED <<current, mm, kstack, pc, waiting>>
          /\ wakeup_proc(AdoptWakes(p), state, initproc)
          /\ cptr' = [cptr EXCEPT ![current] = optr[p], ![initproc] = p]
          /\ yptr' = [q \in Procs |-> IF q = p THEN NULL ELSE IF q = cptr[initproc] THEN p ELSE yptr[q]]
          /\ optr' = [optr EXCEPT ![p] = cptr[initproc]]
          /\ parent' = [parent EXCEPT ![p] = initproc]
      BY <1>26 DEF reparent
    <2>3. /\ state[current] \in {"RUNNABLE", "ZOMBIE"} /\ current \in Live
          /\ current # idleproc /\ current # initproc
          /\ idleproc \in Live /\ initproc \in Live
          /\ pc[initproc] \notin {"reparent", "dead"}
      BY <1>1, <1>4, <2>1 DEF RunOK, Places, Live
    <2>4. /\ p \in Children(current) /\ p \in Live /\ p \in Procs /\ parent[p] = current
          /\ p # initproc
      BY <1>3, <1>4, <2>1, <2>3 DEF Tree, Lineage, Children, Live
    <2>5. AdoptWakes(p) => state[initproc] = "SLEEPING"
      BY <1>1, <1>4 DEF AdoptWakes, WaitStateOK
    <2>6. UNCHANGED panic
      BY <2>2, <2>5, Zenon DEF wakeup_proc
    <2>7. /\ \A q \in Procs \ {initproc} : state'[q] = state[q]
          /\ \/ state'[initproc] = state[initproc] /\ ~AdoptWakes(p)
             \/ state[initproc] = "SLEEPING" /\ state'[initproc] = "RUNNABLE"
      BY <1>4, <2>2, <2>5 DEF wakeup_proc
    <2>8. Live' = Live /\ Live \subseteq Procs
      BY <1>4, <2>3, <2>7 DEF Live
    <2>9. /\ \A q \in Procs : parent'[q] = IF q = p THEN initproc ELSE parent[q]
          /\ \A q \in Procs : yptr'[q] = IF q = p THEN NULL ELSE IF q = cptr[initproc] THEN p ELSE yptr[q]
          /\ \A q \in Procs : optr'[q] = IF q = p THEN cptr[initproc] ELSE optr[q]
          /\ \A q \in Procs : cptr'[q] = IF q = current THEN optr[p]
                                         ELSE IF q = initproc THEN p ELSE cptr[q]
      <3>1. optr \in [Procs -> Procs \cup {NULL}]
        BY <1>1, Fields
      <3>2. current # initproc /\ p \in Procs
        BY <2>3, <2>4
      <3> HIDE DEF p
      <3> QED
        BY <1>4, <2>2, <3>1, <3>2
    <2>10. PICK f1 \in [Procs -> Nat] :
             \A q \in Procs : f1[q] = IF q = p THEN 0
                                      ELSE IF parent[q] = initproc THEN f[q] + 1
                                      ELSE IF parent[q] = current /\ f[q] > 0 THEN f[q] - 1 ELSE f[q]
      <3> DEFINE h == [q \in Procs |-> IF q = p THEN 0
                                       ELSE IF parent[q] = initproc THEN f[q] + 1
                                       ELSE IF parent[q] = current /\ f[q] > 0 THEN f[q] - 1 ELSE f[q]]
      <3>1. f \in [Procs -> Nat]
        BY <1>3 DEF Tree
      <3> HIDE DEF p
      <3>2. h \in [Procs -> Nat]
        BY <3>1
      <3> QED
        BY <3>2
    <2>11. Tree(f1, g)'
      <3>1. \A q \in Procs : pc'[q] = pc[q]
        BY <2>2
      <3> QED
        BY <1>3, <2>1, <2>3, <2>8, <2>9, <2>10, <3>1, AdoptTree, Z3
    <2>12. NoLostWakeup'
      <3>1. \A x \in Live : x # current /\ x # initproc => Children(x)' = Children(x)
        BY <2>4, <2>8, <2>9 DEF Children
      <3>2. Children(initproc)' = Children(initproc) \cup {p}
        BY <2>4, <2>8, <2>9 DEF Children
      <3>3. waiting'[initproc] = NULL /\ waiting[initproc] = NULL
        BY <1>1, <2>2 DEF Places
      <3>4. ASSUME NEW x \in Live', state'[x] = "SLEEPING"
            PROVE  Awaited(x)' # {} /\ \A q \in Awaited(x)' : state'[q] # "ZOMBIE"
        <4>1. x \in Live /\ x # current /\ state[x] = "SLEEPING"
          BY <1>4, <2>3, <2>7, <2>8, <3>4
        <4>2. Awaited(x) # {} /\ \A q \in Awaited(x) : state[q] # "ZOMBIE"
          BY <1>1, <4>1 DEF NoLostWakeup, Awaited
        <4>3. \A q \in Live : state'[q] = "ZOMBIE" => state[q] = "ZOMBIE"
          BY <2>7, <2>8
        <4>4. CASE x # initproc
          <5>1. Awaited(x)' = Awaited(x)
            BY <2>2, <3>1, <4>1, <4>4 DEF Awaited
          <5>2. \A q \in Awaited(x) : q \in Live
            BY DEF Awaited, Children
          <5> QED
            BY <4>2, <4>3, <5>1, <5>2
        <4>5. CASE x = initproc
          <5>1. Awaited(x)' = Awaited(x) \cup {p}
            BY <3>2, <3>3, <4>5 DEF Awaited
          <5>2. state[p] # "ZOMBIE"
            BY <1>1, <1>4, <2>7, <3>4, <4>1, <4>5 DEF AdoptWakes, WaitStateOK
          <5>3. \A q \in Awaited(x) : q \in Live
            BY DEF Awaited, Children
          <5> QED
            BY <2>4, <4>2, <4>3, <5>1, <5>2, <5>3
        <4> QED
          BY <4>4, <4>5
      <3> QED
        BY <3>4 DEF NoLostWakeup, Awaited
    <2>13. Places'
      <3>1. /\ \A q \in Procs : pc'[q] \in {"reparent", "wait_scan", "wait_sleep", "init_asserts"} => q = current'
            /\ \A q \in Procs : pc'[q] \in UserPC \cup WaitPC => q \in mm' \/ q = initproc
            /\ \A q \in Procs : pc'[q] \in InitPC => q = initproc
            /\ pc'[initproc] \in InitPC \cup WaitPC \cup {"do_exit"} /\ waiting'[initproc] = NULL
        BY <1>1, <2>2 DEF Places
      <3>2. pc'[initproc] # "init_asserts"
        BY <1>1, <1>4, <2>2, <2>3 DEF Places
      <3>3. kstack' = Live' \ {idleproc}
        BY <1>1, <2>2, <2>8 DEF Places
      <3>4. \A q \in mm' : state'[q] \in {"RUNNABLE", "SLEEPING"}
        BY <1>1, <1>4, <2>2, <2>7 DEF Places
      <3> QED
        BY <3>1, <3>2, <3>3, <3>4 DEF Places
    <2>14. Search(f1)'
      <3>1. current' = current /\ pc' = pc
        BY <2>2
      <3>2. pc'[current'] \notin {"wait_scan", "wait_sleep"}
        BY <2>1, <3>1
      <3> QED
        BY <3>2 DEF Search
    <2> QED
      BY <1>6, <1>17, <2>6, <2>11, <2>12, <2>13, <2>14
  <1>27. CASE sys_fork
    <2>1. PICK p \in Pids : do_fork(p, [parent |-> "trap_exit", child |-> "user"],
                                    IF current \in mm THEN {p} ELSE {})
      BY <1>27 DEF sys_fork
    <2> QED
      BY <1>24, <1>27, <2>1 DEF sys_fork
  <1>28. CASE init_main
    <2>1. PICK p \in Pids : do_fork(p, [parent |-> "do_wait", child |-> "user_main"], {})
      BY <1>28 DEF init_main
    <2> QED
      BY <1>24, <1>28, <2>1 DEF init_main
  <1>29. CASE Syscall
    BY <1>7, <1>10, <1>11, <1>12, <1>22, <1>27, <1>29
       DEF Syscall, sys_fork_fails, sys_wait_fails, sys_yield, sys_exec
  <1>30. CASE Kernel
    BY <1>9, <1>11, <1>13, <1>14, <1>15, <1>16, <1>18, <1>19, <1>20, <1>23, <1>25, <1>26, <1>28, <1>30
       DEF Kernel, user_main
  <1>31. CASE TimerInterrupt
    BY <1>7, <1>31 DEF TimerInterrupt
  <1> QED
    BY <1>8, <1>21, <1>29, <1>30, <1>31 DEF Next

LEMMA InitFInv == Init => FInv
  <1> SUFFICES ASSUME Init PROVE FInv
    OBVIOUS
  <1> USE ProcsAssumption
  <1> DEFINE z == [p \in Procs |-> 0]
  <1>1. IInv /\ AssertsHold
    BY InitIInv DEF Init, AssertsHold
  <1>2. idleproc \in Procs /\ initproc \in Procs /\ NULL \notin Procs
    BY DEF Procs
  <1>3. Live = {idleproc, initproc}
    BY DEF Init, Live, Procs
  <1>4. /\ \A p \in Procs : parent[p] = IF p = initproc THEN idleproc ELSE NULL
        /\ \A p \in Procs : cptr[p] = IF p = idleproc THEN initproc ELSE NULL
        /\ \A p \in Procs : optr[p] = NULL /\ yptr[p] = NULL /\ waiting[p] = NULL
        /\ \A p \in Procs : pc[p] = IF p = idleproc THEN "cpu_idle"
                                    ELSE IF p = initproc THEN "init_main" ELSE "none"
        /\ \A p \in Procs : state[p] # "SLEEPING"
        /\ current = idleproc /\ mm = {} /\ kstack = {initproc}
    BY DEF Init
  <1>5. Places
    BY <1>2, <1>3, <1>4 DEF Places
  <1>6. NoLostWakeup
    BY <1>2, <1>3, <1>4 DEF NoLostWakeup
  <1>7. Children(idleproc) = {initproc} /\ Children(initproc) = {}
    BY <1>2, <1>3, <1>4 DEF Children
  <1>8. LinksOK
    BY <1>2, <1>3, <1>4, <1>7 DEF LinksOK
  <1>9. Lineage(z)
    BY <1>2, <1>3, <1>4, <1>7 DEF Lineage
  <1>10. ByAge(z)
    BY <1>2, <1>3, <1>4 DEF ByAge
  <1>11. Tree(z, z) /\ Search(z)
    <2>1. z \in [Procs -> Nat]
      OBVIOUS
    <2> HIDE DEF z
    <2>2. Search(z)
      BY <1>2, <1>4 DEF Search
    <2> QED
      BY <1>8, <1>9, <1>10, <2>1, <2>2 DEF Tree
  <1> HIDE DEF z
  <1> QED
    BY <1>1, <1>5, <1>6, <1>11 DEF FInv

(* The invariant of the family holds in every reachable state. *)
THEOREM FamilyInvariance == Spec => []FInv
  BY InitFInv, NextFInv, PTL DEF Spec

(* The sibling lists of every process are whole, whatever is created,      *)
(* ended, handed to initproc and freed: no child that do_wait should find  *)
(* falls out of set_links, remove_links or the loop of do_exit.            *)
THEOREM Links == Spec => []LinksOK
  <1>1. FInv => LinksOK
    BY DEF FInv, Tree
  <1> QED
    BY FamilyInvariance, <1>1, PTL

(* Nobody sleeps in do_wait for a child that is a zombie already or that   *)
(* is not there, whichever way the zombies come to their parents.          *)
THEOREM Wakeups == Spec => []NoLostWakeup
  <1>1. FInv => NoLostWakeup
    BY DEF FInv
  <1> QED
    BY FamilyInvariance, <1>1, PTL

(* The assertions of do_fork and wakeup_proc, the panic of do_wait and the *)
(* assertions that init_main ends with never fail: initproc returns from   *)
(* its last do_wait only when it and idleproc are all that is left.        *)
THEOREM Asserts == Spec => []AssertsHold
  <1>1. FInv => AssertsHold
    BY DEF FInv
  <1> QED
    BY FamilyInvariance, <1>1, PTL

(* The CPU goes to processes that may use it; kernel stacks are freed with *)
(* the proc_struct by do_wait and address spaces by do_exit.               *)
THEOREM Resources == Spec => []ResourcesOK
  <1>1. ASSUME FInv PROVE ResourcesOK
    <2>1. IInv /\ TypeOK /\ Places /\ RunOK
      BY <1>1 DEF FInv, IInv
    <2>2. \A p \in Live : p \in Procs
      BY DEF Live
    <2>3. \A p \in Live : pc[p] \in UserPC => p \in mm
      BY <2>1, <2>2 DEF Places
    <2> QED
      BY <2>1, <2>3 DEF ResourcesOK, RunOK, Places
  <1> QED
    BY FamilyInvariance, <1>1, PTL

(* Wakeups change the state of sleepers only, and do_wait frees what its   *)
(* search has left it with: a zombie child of the current process.         *)
LEMMA ZombieStep ==
  ASSUME FInv, Next, NEW p \in Procs, state[p] = "ZOMBIE"
  PROVE  \/ state'[p] = "ZOMBIE"
         \/ state'[p] = "FREE" /\ parent[p] = current /\ pc[current] = "wait_scan"
  <1>1. /\ IInv /\ TypeOK /\ WaitStateOK /\ RunOK
        /\ state \in [Procs -> {"FREE", "SLEEPING", "RUNNABLE", "ZOMBIE"}] /\ current \in Procs
        /\ initproc \in Procs
    BY Fields DEF FInv, IInv, Procs
  <1>2. ASSUME UNCHANGED state PROVE state'[p] = "ZOMBIE"
    BY <1>2
  <1>3. ASSUME NEW cond, NEW q, wakeup_proc(cond, state, q), cond => state[q] = "SLEEPING"
        PROVE  state'[p] = "ZOMBIE"
    BY <1>1, <1>3 DEF wakeup_proc
  <1>4. CASE Syscall
    <2>1. CASE sys_fork
      <3>1. PICK q \in Pids : state[q] = "FREE" /\ state' = [state EXCEPT ![q] = "RUNNABLE"]
        BY <2>1 DEF sys_fork, do_fork
      <3> QED
        BY <1>1, <3>1
    <2>2. ASSUME NEW q \in Pids \cup {initproc}, sys_kill(q) PROVE state'[p] = "ZOMBIE"
      <3>1. wakeup_proc(KillWakes(q), state, q) /\ q \in Procs
        BY <2>2 DEF sys_kill, Procs
      <3> QED
        BY <1>1, <1>3, <3>1 DEF KillWakes, WaitStateOK
    <2>3. CASE sys_fork_fails \/ sys_wait_fails \/ sys_yield \/ sys_exit \/ sys_exec
      BY <1>2, <2>3 DEF sys_fork_fails, sys_wait_fails, sys_yield, sys_exit, sys_exec, QuietTrap, do_execve
    <2>4. ASSUME NEW q, sys_wait(q) PROVE state'[p] = "ZOMBIE"
      BY <1>2, <2>4 DEF sys_wait
    <2> QED
      BY <1>4, <2>1, <2>2, <2>3, <2>4 DEF Syscall
  <1>5. CASE Kernel
    <2>1. CASE \/ TrapExit \/ user_main \/ exit_schedule \/ do_wait \/ wait_scan \/ wait_ret
               \/ init_schedule \/ init_asserts \/ cpu_idle
      BY <1>2, <2>1 DEF TrapExit, user_main, do_execve, exit_schedule, do_wait, wait_scan, wait_ret,
                        init_schedule, init_asserts, cpu_idle
    <2>2. CASE init_main
      <3>1. PICK q \in Pids : state[q] = "FREE" /\ state' = [state EXCEPT ![q] = "RUNNABLE"]
        BY <2>2 DEF init_main, do_fork
      <3> QED
        BY <1>1, <3>1
    <2>3. CASE wait_sleep
      <3>1. state[current] = "RUNNABLE" /\ state' = [state EXCEPT ![current] = "SLEEPING"]
        BY <1>1, <2>3, AtRunnable DEF wait_sleep
      <3> QED
        BY <1>1, <3>1
    <2>4. CASE reparent
      BY <1>1, <1>3, <2>4 DEF reparent, AdoptWakes, WaitStateOK
    <2>5. CASE do_exit
      <3>1. state[current] = "RUNNABLE"
        BY <1>1, <2>5, AtRunnable DEF do_exit
      <3>2. CASE current = initproc
        BY <1>2, <2>5, <3>2 DEF do_exit
      <3>3. CASE current # initproc
        <4>1. wakeup_proc(ParentWaits, [state EXCEPT ![current] = "ZOMBIE"], parent[current])
          BY <2>5, <3>3, Zenon DEF do_exit
        <4>2. ParentWaits /\ parent[current] \in Procs => state[parent[current]] = "SLEEPING"
          BY <1>1 DEF ParentWaits, WaitStateOK
        <4> QED
          BY <1>1, <3>1, <4>1, <4>2 DEF wakeup_proc
      <3> QED
        BY <3>2, <3>3
    <2>6. CASE wait_found
      <3>1. cursor \in {idleproc, initproc} => UNCHANGED state
        BY <2>6 DEF wait_found
      <3>2. cursor \notin {idleproc, initproc} => state' = [state EXCEPT ![cursor] = "FREE"]
        BY <2>6 DEF wait_found
      <3>3. pc[current] = "wait_scan" /\ cursor # NULL
        BY <2>6 DEF wait_found, At
      <3>4. parent[cursor] = current
        BY <3>3 DEF FInv, Search, Children
      <3> QED
        BY <1>1, <3>1, <3>2, <3>3, <3>4
    <2> QED
      BY <1>5, <2>1, <2>2, <2>3, <2>4, <2>5, <2>6 DEF Kernel
  <1>6. CASE init_main_fails \/ TimerInterrupt \/ TimerInKernel
    BY <1>2, <1>6 DEF init_main_fails, TimerInterrupt, TimerInKernel, QuietTrap
  <1> QED
    BY <1>4, <1>5, <1>6 DEF Next

(* A zombie stays one until its own parent, in do_wait, frees it.          *)
THEOREM Reaped == Spec => ReapedByParent
  <1> DEFINE A == \A p \in Procs : state[p] = "ZOMBIE" =>
                    \/ state'[p] = "ZOMBIE"
                    \/ state'[p] = "FREE" /\ parent[p] = current /\ pc[current] = "wait_scan"
  <1>1. FInv /\ [Next]_vars => [A]_vars
    BY ZombieStep
  <1>2. ReapedByParent <=> [][A]_vars
    BY DEF ReapedByParent
  <1> HIDE DEF A
  <1> QED
    BY FamilyInvariance, <1>1, <1>2, PTL DEF Spec
=============================================================================
