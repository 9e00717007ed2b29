--------------------------- MODULE SwitchedInference ---------------------------
(***************************************************************************)
(* What switching mode promises: the network works on one frame at a time, *)
(* and admits the next one when the last stage has finished the previous.  *)
(***************************************************************************)
EXTENDS Naturals

CONSTANT TotalFrames

VARIABLES admitted,      \* frames the first stage has started on
          completed      \* frames the last stage has finished

switchedVars == <<admitted, completed>>

Init == admitted = 0 /\ completed = 0

Admit ==
    /\ admitted = completed
    /\ admitted < TotalFrames
    /\ admitted' = admitted + 1
    /\ UNCHANGED completed

Complete ==
    /\ completed < admitted
    /\ completed' = completed + 1
    /\ UNCHANGED admitted

Next == Admit \/ Complete

Spec == Init /\ [][Next]_switchedVars
================================================================================
