----------------------------- MODULE OrderPartition -----------------------------
(***************************************************************************)
(* config_pipeline: how the order string of the command line, one letter   *)
(* per layer of the network, becomes the partition into graphs.  The loop  *)
(* cuts the string where the letter changes, and add_graph appends a graph *)
(* with the range of its layers, its processing element and its target.    *)
(*                                                                         *)
(* Layers and characters are numbered from 0, as in the code; a string is  *)
(* the sequence of its characters.                                         *)
(***************************************************************************)
EXTENDS Naturals, Sequences

CONSTANTS Letters,       \* the characters of an order
          Orders         \* the values of --order considered

ASSUME OrdersAssumption == Orders \subseteq Seq(Letters) /\ "B" \in Letters

VARIABLES
    order,               \* common_params.order
    i, start, PE,        \* locals of the loop
    graphs               \* start_layer, end_layer, PE and the targets of all_hints

vars == <<order, i, start, PE, graphs>>

Layers == Len(order)
Letter(k) == order[k + 1]

Targets == {"NEON", "CL", "NPU"}

\* The switch on _PE has no default: for another letter target is uninitialised.
TargetsOf(letter) ==
    CASE letter \in {"L", "B"} -> {"NEON"}
      [] letter = "G" -> {"CL"}
      [] letter = "N" -> {"NPU"}
      [] OTHER -> Targets

GraphRecords == [start : Nat, end : Nat, PE : Letters, target : Targets]

GraphOf(first, last, letter, target) ==
    [start |-> first, end |-> last, PE |-> letter, target |-> target]

TypeOK ==
    /\ order \in Orders
    /\ i \in Nat \ {0} /\ start \in Nat /\ PE \in Letters
    /\ graphs \in Seq(GraphRecords)

\* Mutant of Init: the loop begins at the first letter.
InitAtFirstLetter ==
    /\ order \in Orders
    /\ i = 0
    /\ start = 0
    /\ PE = IF order = <<>> THEN "B" ELSE Letter(0)
    /\ graphs = <<>>

Init ==
    /\ order \in Orders
    /\ i = 1
    /\ start = 0
    /\ PE = IF order = <<>> THEN "B" ELSE Letter(0)
    /\ graphs = <<>>

\* Mutant of AddGraph: the graph takes the layer at which the letter changed.
AddGraphOneMore(first, last, letter) ==
    \E target \in TargetsOf(letter) :
        graphs' = Append(graphs, GraphOf(first, last + 1, letter, target))

\* add_graph, called once.
AddGraph(first, last, letter) ==
    \E target \in TargetsOf(letter) :
        graphs' = Append(graphs, GraphOf(first, last, letter, target))

\* The letter is the one before, and more follow.
Continue ==
    /\ i < Layers - 1
    /\ Letter(i) = PE
    /\ i' = i + 1
    /\ UNCHANGED <<order, start, PE, graphs>>

\* Mutant of Cut: a graph per letter.
CutAlways ==
    /\ i < Layers - 1
    /\ AddGraph(start, i - 1, PE)
    /\ start' = i
    /\ PE' = Letter(i)
    /\ i' = i + 1
    /\ UNCHANGED order

\* The letter changes, and more follow.
Cut ==
    /\ i < Layers - 1
    /\ Letter(i) # PE
    /\ AddGraph(start, i - 1, PE)
    /\ start' = i
    /\ PE' = Letter(i)
    /\ i' = i + 1
    /\ UNCHANGED order

\* Mutant of Close: no add_graph after the loop's last iteration.
CloseWithoutGraph ==
    /\ i = Layers - 1
    /\ Letter(i) = PE
    /\ i' = i + 1
    /\ UNCHANGED <<order, start, PE, graphs>>

\* The last letter continues a graph.
Close ==
    /\ i = Layers - 1
    /\ Letter(i) = PE
    /\ AddGraph(start, i, PE)
    /\ i' = i + 1
    /\ UNCHANGED <<order, start, PE>>

\* The last letter is a graph of its own: add_graph twice in one iteration.
CutAndClose ==
    /\ i = Layers - 1
    /\ Letter(i) # PE
    /\ \E target \in TargetsOf(PE), lastTarget \in TargetsOf(Letter(i)) :
         graphs' = graphs \o << GraphOf(start, i - 1, PE, target),
                                GraphOf(i, i, Letter(i), lastTarget) >>
    /\ start' = i
    /\ PE' = Letter(i)
    /\ i' = i + 1
    /\ UNCHANGED order

Next == Continue \/ Cut \/ Close \/ CutAndClose

Spec == Init /\ [][Next]_vars

--------------------------------------------------------------------------------
(* Properties *)

\* The loop is over.
Done == i >= Layers

\* The first n layers are in a graph of gs that runs on the element their letter names.
Placed(gs, n) ==
    \A j \in 0 .. n - 1 : \E k \in DOMAIN gs :
        j \in gs[k].start .. gs[k].end /\ gs[k].PE = Letter(j)

Ordered(gs) == \A k, l \in DOMAIN gs : k < l => gs[k].end < gs[l].start

Alternating(gs) == \A k \in 1 .. Len(gs) - 1 : gs[k].PE # gs[k + 1].PE

\* Every layer belongs to a graph that runs on the processing element its letter names.
EveryLayerPlaced == Done => Placed(graphs, Layers)

\* No layer belongs to two graphs, and the graphs follow the order of the layers, so that
\* next_layer fills them one after the other.
GraphsInOrder == Ordered(graphs)

\* Consecutive graphs run on different processing elements: there is no transfer that
\* the order does not ask for.
NeighboursDiffer == Alternating(graphs)

\* The inductive invariant: the letters before start are placed, those from start to i
\* are the graph under construction.
PartitionInv ==
    /\ Ordered(graphs) /\ Alternating(graphs)
    /\ IF Done
         THEN Layers # 1 => Placed(graphs, Layers)
         ELSE /\ Placed(graphs, start)
              /\ \A k \in DOMAIN graphs : graphs[k].start <= graphs[k].end /\ graphs[k].end < start
              /\ graphs # <<>> => graphs[Len(graphs)].PE # PE
              /\ start < i
              /\ \A j \in start .. i - 1 : Letter(j) = PE
================================================================================
