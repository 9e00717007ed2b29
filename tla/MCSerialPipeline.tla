---------------------------- MODULE MCSerialPipeline ----------------------------
(* Networks for SerialPipeline: channels are named by the graphs they connect. *)
EXTENDS SerialPipeline, TLC

\* Two branches that meet in the last graph, which receives from the later one first.
BranchChannels == {"01", "02", "13", "23"}
BranchReceivers == 0 :> <<>> @@ 1 :> <<"01">> @@ 2 :> <<"02">> @@ 3 :> <<"23", "13">>
BranchTargets == 0 :> <<"01", "02">> @@ 1 :> <<"13">> @@ 2 :> <<"23">> @@ 3 :> <<>>

\* An output in a graph of its own, as the first detection head of YOLOv3 can be.
HeadChannels == {"01", "02"}
HeadReceivers == 0 :> <<>> @@ 1 :> <<"01">> @@ 2 :> <<"02">>
HeadTargets == 0 :> <<"01", "02">> @@ 1 :> <<>> @@ 2 :> <<>>
================================================================================
