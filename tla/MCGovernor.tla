------------------------------- MODULE MCGovernor -------------------------------
(* Orders for the configurations of Governor. *)
EXTENDS Governor

\* Three layers, the first of them not on the NPU.
HeadNotNpu == {o \in [1 .. 3 -> Letters] : o[1] # "N"}

\* A second request on top of an earlier one where every layer ends with its last task.
Requests == [net \in Networks |-> IF net = "plain" THEN 2 ELSE 1]
================================================================================
