----------------------------- MODULE MCStreamBuilder -----------------------------
(* Small networks for StreamBuilder: three graphs of one layer number each. *)
EXTENDS StreamBuilder, TLC

OneEach == [g \in 0 .. 2 |-> g]
MiddleOnNpu == {1}
SubStreamSymmetry == Permutations(SubStreams)
================================================================================
