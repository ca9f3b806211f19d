---------------------------------- MODULE MCVm ----------------------------------
(* Programs for TLC, in pages: their segments, read-only or writable.         *)
EXTENDS Vm

Seg(start, end, write) == [start |-> start, end |-> end, write |-> write]

Text == <<Seg(0, 1, FALSE)>>
SamePage == <<Seg(0, 1, TRUE), Seg(0, 1, FALSE)>>   \* refused by mm_map

SmallPrograms == {Text, SamePage}
SmallStack == Seg(1, 3, TRUE)
================================================================================
