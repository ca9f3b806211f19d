--------------------------------- MODULE Memory ---------------------------------
(***************************************************************************)
(* What address spaces promise to their processes: each has a memory of    *)
(* its own, which fork copies, only a store of its owner changes, and page *)
(* faults leave as it is.  One action for each operation.                  *)
(***************************************************************************)
CONSTANTS Procs, Values, Undef, Images

VARIABLE mem   \* of a process: its pages with what is in them, Undef before the first use

NoMemory == <<>>   \* of a process that has none: no pages

Init == mem = [p \in Procs |-> NoMemory]

Exec(p, image) ==
  mem' = [mem EXCEPT ![p] = image]

Fork(p, child) ==
  /\ mem[p] # NoMemory /\ mem[child] = NoMemory
  /\ mem' = [mem EXCEPT ![child] = mem[p]]

(* The first use of a page finds anything in it; a fault for a page that   *)
(* has been used does not show.                                            *)
Touch(p, page, v) ==
  /\ page \in DOMAIN mem[p] /\ mem[p][page] = Undef
  /\ mem' = [mem EXCEPT ![p][page] = v]

Fault(p, page) ==
  \/ \E v \in Values : Touch(p, page, v)
  \/ /\ page \in DOMAIN mem[p] /\ mem[p][page] # Undef
     /\ UNCHANGED mem

Write(p, page, v) ==
  /\ page \in DOMAIN mem[p] /\ mem[p][page] # Undef
  /\ mem' = [mem EXCEPT ![p][page] = v]

Exit(p) ==
  mem' = [mem EXCEPT ![p] = NoMemory]

Next ==
  \E p \in Procs :
    \/ \E image \in Images : Exec(p, image)
    \/ \E child \in Procs : Fork(p, child)
    \/ \E page \in DOMAIN mem[p] :
         \/ Fault(p, page)
         \/ \E v \in Values : Write(p, page, v)
    \/ Exit(p)

Spec == Init /\ [][Next]_mem
================================================================================
