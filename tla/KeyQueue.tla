-------------------------------- MODULE KeyQueue --------------------------------
(***************************************************************************)
(* What the standard input of lab8 is to its readers: a queue of at most   *)
(* Size characters.  A character that comes when it is full takes the      *)
(* place of the oldest one.                                                *)
(***************************************************************************)
EXTENDS Naturals, Sequences

CONSTANTS Keys, Size

VARIABLE queue

Init == queue = <<>>

Put(c) ==
  queue' = IF Len(queue) < Size THEN Append(queue, c) ELSE <<c>> \o Tail(queue)

Take(n) == queue' = SubSeq(queue, n + 1, Len(queue))

Next ==
  \/ \E c \in Keys : Put(c)
  \/ \E n \in 1..Len(queue) : Take(n)

Spec == Init /\ [][Next]_queue
================================================================================
