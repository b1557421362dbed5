----------------------------- MODULE MCSubProcess -----------------------------
(* Small instances of SubProcessController for TLC. *)
EXTENDS SubProcessController

One   == [max |-> 1, low |-> 1, heavy |-> 1]
Two   == [max |-> 2, low |-> 1, heavy |-> 1]
Wide  == [max |-> 2, low |-> 2, heavy |-> 1]
Ids2  == 1..2
Ids3  == 1..3
None  == {}
First == {1}
Second == {2}
Third == {3}
OneTwo == {1, 2}
TwoThree == {2, 3}
===============================================================================
