-------------------------------- MODULE Keyboard --------------------------------
(***************************************************************************)
(* The way of a character in lab8, from the serial port to a program: the  *)
(* timer interrupt takes all that has arrived into the ring of the console *)
(* (kern/driver/console.c) and one character from there to the buffer of   *)
(* the device stdin (kern/fs/devs/dev_stdin.c), where processes wait for   *)
(* it (kern/sync/wait.c).                                                  *)
(*                                                                         *)
(* dev_stdin_read keeps interrupts off from its first look at the buffer   *)
(* until it is in the wait queue, so that is one step; the interrupt may   *)
(* come anywhere else, also before the process that has gone to sleep      *)
(* gives up the CPU, which changes nothing here: it is runnable or not.    *)
(***************************************************************************)
EXTENDS Integers, Sequences, SequencesExt, FiniteSetsExt

CONSTANTS
  Procs,
  Keys,
  CONSBUFSIZE, STDIN_BUFSIZE,
  MaxBurst,      \* how much arrives between two interrupts
  MaxRead,       \* the longest read
  MaxKeys        \* bound: characters that get to stdin

ASSUME KeyboardAssumption ==
  /\ Keys \subseteq Nat \ {0}
  /\ {CONSBUFSIZE, STDIN_BUFSIZE, MaxBurst, MaxRead, MaxKeys} \subseteq Nat \ {0}

VARIABLES
  cons,              \* the ring of the console: buf, rpos and wpos
  stdin_buffer, p_rpos, p_wpos,
  wait_queue,        \* of stdin: processes
  reader,            \* of a process: what it is doing in dev_stdin_read
  exiting            \* processes with PF_EXITING

vars == <<cons, stdin_buffer, p_rpos, p_wpos, wait_queue, reader, exiting>>
buffer == <<stdin_buffer, p_rpos, p_wpos>>

Out == [pc |-> "out", left |-> 0, flags |-> "interrupted"]
NoKey == 0   \* '\0', which never gets to stdin

Asleep(p) == reader[p].pc = "asleep"

Init ==
  /\ cons = [buf |-> [k \in 0..(CONSBUFSIZE - 1) |-> NoKey], rpos |-> 0, wpos |-> 0]
  /\ stdin_buffer = [k \in 0..(STDIN_BUFSIZE - 1) |-> NoKey]
  /\ p_rpos = 0 /\ p_wpos = 0
  /\ wait_queue = <<>>
  /\ reader = [p \in Procs |-> Out]
  /\ exiting = {}
-----------------------------------------------------------------------------
(* The interrupt.                                                          *)
cons_intr(ring, burst) ==
  FoldLeft(LAMBDA r, c : [r EXCEPT !.buf[r.wpos] = c, !.wpos = (@ + 1) % CONSBUFSIZE],
           ring, burst)

Bug_Woken == IF wait_queue = <<>> THEN 0 ELSE 1   \* wakeup_first

(* How many of the queue are woken: wakeup_queue stops at its end.         *)
Woken == Len(wait_queue)

Bug_Stored == p_wpos - p_rpos <= STDIN_BUFSIZE   \* one too many

Stored == p_wpos - p_rpos < STDIN_BUFSIZE

dev_stdin_write(c) ==
  /\ stdin_buffer' = [stdin_buffer EXCEPT ![p_wpos % STDIN_BUFSIZE] = c]
  /\ p_wpos' = IF Stored THEN p_wpos + 1 ELSE p_wpos
  /\ wait_queue' = SubSeq(wait_queue, Woken + 1, Len(wait_queue))
  /\ reader' = [p \in Procs |->
                  IF \E k \in 1..Woken : wait_queue[k] = p
                  THEN [reader[p] EXCEPT !.pc = "awake", !.flags = "kbd"] ELSE reader[p]]

cons_getc(ring) == [ring EXCEPT !.rpos = (@ + 1) % CONSBUFSIZE]

(* dev_stdin_write(cons_getc()): '\0', of an empty ring, is not written.   *)
TimerInterrupt ==
  /\ p_wpos < MaxKeys
  /\ \E burst \in SeqOf(Keys, MaxBurst) :
       LET ring == cons_intr(cons, burst)
       IN  IF ring.rpos = ring.wpos
           THEN /\ cons' = ring
                /\ UNCHANGED <<stdin_buffer, p_wpos, wait_queue, reader>>
           ELSE /\ cons' = cons_getc(ring)
                /\ dev_stdin_write(ring.buf[ring.rpos])
  /\ UNCHANGED <<p_rpos, exiting>>

(* The loop of dev_stdin_read of p, with n characters still to read.       *)
Pending == p_wpos - p_rpos

ReadOn(p, n, others) ==
  LET k == Min({n, Pending})
  IN  /\ p_rpos' = p_rpos + k
      /\ IF k = n
         THEN reader' = [reader EXCEPT ![p] = Out] /\ wait_queue' = others
         ELSE /\ reader' = [reader EXCEPT ![p] = [Out EXCEPT !.pc = "asleep", !.left = n - k]]
              /\ wait_queue' = Append(others, p)
  /\ UNCHANGED <<cons, stdin_buffer, p_wpos, exiting>>

(* The reader may have been killed: it gave up the CPU after trap() had    *)
(* tested PF_EXITING, and the kill came before it ran again.  In the code  *)
(* that allows it one more system call, here any number of them.           *)
dev_stdin_read(p) ==
  /\ reader[p].pc = "out"
  /\ \E len \in 1..MaxRead : ReadOn(p, len, wait_queue)

(* After schedule(): wait_current_del, and on if it was the keyboard.      *)
Resume(p) ==
  LET others == RemoveFirst(wait_queue, p)
  IN  /\ reader[p].pc = "awake"
      /\ IF reader[p].flags = "kbd"
         THEN ReadOn(p, reader[p].left, others)
         ELSE /\ reader' = [reader EXCEPT ![p] = Out]
              /\ wait_queue' = others
              /\ UNCHANGED <<cons, buffer, exiting>>

do_kill(p) ==
  /\ p \notin exiting
  /\ exiting' = exiting \cup {p}
  /\ reader' = IF Asleep(p) THEN [reader EXCEPT ![p].pc = "awake"] ELSE reader
  /\ UNCHANGED <<cons, buffer, wait_queue>>

(* A killed process ends on its way out of the system call, and its place  *)
(* is taken by a new one.                                                  *)
Exit(p) ==
  /\ p \in exiting /\ reader[p] = Out
  /\ exiting' = exiting \ {p}
  /\ UNCHANGED <<cons, buffer, wait_queue, reader>>

Next ==
  \/ TimerInterrupt
  \/ \E p \in Procs : dev_stdin_read(p) \/ Resume(p) \/ do_kill(p) \/ Exit(p)

Spec == Init /\ [][Next]_vars
-----------------------------------------------------------------------------
(* Nobody sleeps in dev_stdin_read while there is a character to read:     *)
(* interrupts, kills and other readers between a wakeup and its effect     *)
(* lose no reader, and whoever sleeps is in the wait queue once.           *)
NoReaderForgotten ==
  \A p \in Procs : Asleep(p) =>
    /\ Pending = 0
    /\ Cardinality({k \in DOMAIN wait_queue : wait_queue[k] = p}) = 1

(* The positions that only grow and the buffer that they wrap around in    *)
(* are a queue of characters.                                              *)
queue == [k \in 1..Pending |-> stdin_buffer[(p_rpos + k - 1) % STDIN_BUFSIZE]]

Queue == INSTANCE KeyQueue WITH Size <- STDIN_BUFSIZE
QueueSpec == Queue!Spec

(* A process that is killed ends: do_kill, PF_EXITING, wakeup_proc,        *)
(* do_exit.                                                                *)
KilledLeaves == \A p \in exiting : ~Asleep(p)
================================================================================
