------------------------------ MODULE StreamBuilder ------------------------------
(***************************************************************************)
(* How a network description becomes graphs and channels.  An example adds *)
(* layers to the stream and to its substreams with operator<<.  Every such *)
(* call runs StreamPipeline::next_layer, which decides the graph that gets *)
(* the layer and brings the layer's inputs into it: an input that lives in *)
(* another graph is given a Sender node there and a Receiver node here, and *)
(* NodeMap remembers them for the next layer that wants the same input.    *)
(*                                                                         *)
(* A node or a tail is a position: a node id (the index in its graph's     *)
(* nodes) and a graph id.  Layers are numbered in the order they are added *)
(* and layer 0 is the network's input; the number of the layer whose output *)
(* a node carries is the node's value.  Streams are built by one thread.   *)
(***************************************************************************)
EXTENDS Integers, Sequences

CONSTANTS
    NumGraphs,           \* graphs config_pipeline has added
    Start, End,          \* graph -> its first and its last layer number
    NpuGraphs,           \* graphs whose target hint is NPU
    Streams, Main,       \* the streams of the example; Main is the StreamPipeline
    MaxLayers,           \* bound: layers an example adds
    GraphIdFirst,        \* make_pair(tail_node(), get_tail_graph_id()) calls the second
                         \* one first, as GCC compiles it and clang does not
    ForwardAcross        \* whether the example forwards the stream's tail into a graph
                         \* that is not the one the tail is in

Graphs == 0 .. NumGraphs - 1

\* What OrderPartition makes of an order: consecutive ranges of layers.
ASSUME RangesAssumption ==
    /\ NumGraphs \in Nat \ {0}
    /\ Start \in [Graphs -> Nat] /\ End \in [Graphs -> Nat]
    /\ Start[0] = 0
    /\ \A g \in Graphs : Start[g] <= End[g]
    /\ \A g \in Graphs \ {0} : Start[g] = End[g - 1] + 1

ASSUME StreamsAssumption ==
    /\ Main \in Streams /\ NpuGraphs \subseteq Graphs /\ MaxLayers \in Nat
    /\ GraphIdFirst \in BOOLEAN /\ ForwardAcross \in BOOLEAN

VARIABLES
    currentLayer,        \* current_layer
    startingLayer,       \* starting_layer: no starting layer has been added yet
    target,              \* _target_graph
    npuHint,             \* whether _hints.target_hint is NPU
    nodes,               \* graph -> its nodes, by id
    sentTo,              \* pairs of positions: a Sender and a Receiver added to it
    nodeMap,             \* node_map: position -> graph -> id of the mapped node
    tails,               \* stream -> <<_tail_node, tail_graph_id>> as a position
    added,               \* number of layers added
    meant,               \* stream -> value its last layer has: what its tail stands for
    work                 \* the layer being added, or Idle

vars == <<currentLayer, startingLayer, target, npuHint, nodes, sentTo, nodeMap, tails,
          added, meant, work>>

Idle == [stream |-> Main, subs |-> <<>>, wants |-> <<>>, inputs |-> <<>>]

At(node, graph) == [node |-> node, graph |-> graph]

Positions == [node : Nat, graph : Graphs]
Nodes == [kind : {"layer", "sender", "receiver"}, value : 0 .. MaxLayers, reads : Seq(Nat),
          wants : Seq(0 .. MaxLayers), after : 0 .. MaxLayers, npu : BOOLEAN]

TypeOK ==
    /\ currentLayer \in 0 .. MaxLayers /\ startingLayer \in BOOLEAN
    /\ target \in Graphs /\ npuHint \in BOOLEAN
    /\ nodes \in [Graphs -> Seq(Nodes)]
    /\ \A p \in sentTo : p \in Positions \X Positions
    /\ \A p \in DOMAIN nodeMap : p \in Positions /\ DOMAIN nodeMap[p] \subseteq Graphs
    /\ tails \in [Streams -> Positions]
    /\ added \in 0 .. MaxLayers /\ meant \in [Streams -> 0 .. MaxLayers]

\* A node of the network; a Sender or a Receiver asks for nothing of its own.
Node(kind, value, reads, wants, after, npu) ==
    [kind |-> kind, value |-> value, reads |-> reads, wants |-> wants, after |-> after,
     npu |-> npu]

\* The input layer is added, in graph 0, and its tensor has no target yet.
Init ==
    /\ currentLayer = 0 /\ startingLayer = TRUE
    /\ target = 0 /\ npuHint = (0 \in NpuGraphs)
    /\ nodes = [g \in Graphs |->
                  IF g = 0 THEN <<Node("layer", 0, <<>>, <<>>, 0, FALSE)>> ELSE <<>>]
    /\ sentTo = {} /\ nodeMap = <<>>
    /\ tails = [s \in Streams |-> At(1, 0)]
    /\ added = 0 /\ meant = [s \in Streams |-> 0]
    /\ work = Idle

\* Mutant of TargetGraph: a graph does not have its first layer.
TargetGraphLate(layer) ==
    LET having == {g \in Graphs : Start[g] < layer /\ layer <= End[g]}
    IN  IF having = {} THEN NumGraphs - 1 ELSE CHOOSE g \in having : TRUE

\* target_graph: the graph that has the layer, or the last one.
TargetGraph(layer) ==
    LET having == {g \in Graphs : Start[g] <= layer /\ layer <= End[g]}
    IN  IF having = {} THEN NumGraphs - 1 ELSE CHOOSE g \in having : TRUE

\* NodeMap::insert, on the map and on the list of one of its keys: one entry more.
WithEntry(map, key, value) ==
    [k \in DOMAIN map \cup {key} |-> IF k = key THEN value ELSE map[k]]

\* node_map.find(p, g) gives a node of graph g.
MappedIn(p, g) == p \in DOMAIN nodeMap /\ g \in DOMAIN nodeMap[p]

\* node_map.find(p, g): p's node in g, or else its Sender, or else nothing.
Find(p, g) ==
    IF p \notin DOMAIN nodeMap THEN At(0, -1)
    ELSE IF g \in DOMAIN nodeMap[p] THEN At(nodeMap[p][g], g)
    ELSE At(nodeMap[p][p.graph], p.graph)

\* IStreamPipeline::tail_node: the position a stream's tail has in graph g.
TailNode(p, g) == IF MappedIn(p, g) THEN At(nodeMap[p][g], g) ELSE p

--------------------------------------------------------------------------------
(* Streams and the start of a layer. *)

\* SubStream s(from): a substream starts at the tail of the stream it is made from.
OpenSubStream(s, from) ==
    /\ work = Idle /\ s # Main /\ s # from
    /\ tails' = [tails EXCEPT ![s] = tails[from]]
    /\ meant' = [meant EXCEPT ![s] = meant[from]]
    /\ UNCHANGED <<currentLayer, startingLayer, target, npuHint, nodes, sentTo, nodeMap,
                   added, work>>

\* stream.forward_tail(s.tail_node()): only the node of the tail changes.
ForwardTail(s) ==
    /\ work = Idle /\ s # Main
    /\ ForwardAcross \/ TailNode(tails[s], target).graph = tails[Main].graph
    /\ tails' = [tails EXCEPT ![s] = TailNode(@, target),
                              ![Main].node = TailNode(tails[s], target).node]
    /\ meant' = [meant EXCEPT ![Main] = meant[s]]
    /\ UNCHANGED <<currentLayer, startingLayer, target, npuHint, nodes, sentTo, nodeMap,
                   added, work>>

\* Mutant of Listed: the graph id is taken before the tail moves.
ListedOldGraph(p) == [TailNode(p, target) EXCEPT !.graph = p.graph]

\* The constructor of an EltwiseLayer or a ConcatLayer moves its substreams' tails into
\* the target graph when they have a node there, and lists them as input nodes.
Listed(p) ==
    IF GraphIdFirst THEN [TailNode(p, target) EXCEPT !.graph = p.graph]
                    ELSE TailNode(p, target)

\* Mutant of LayerNumber: the end of a layer counts as well, as in the disabled code at
\* the end of next_layer.
LayerNumberTwice(starts) ==
    IF starts /\ ~startingLayer THEN currentLayer + 2 ELSE currentLayer

\* The layer number: each starting layer but the first increments it.
LayerNumber(starts) ==
    IF starts /\ ~startingLayer THEN currentLayer + 1 ELSE currentLayer

\* Mutant of Hint: the hints stay those of the graph before.
HintStale(layer, graph) == npuHint

\* The first layer of a graph brings the graph's hints.
Hint(layer, graph) == IF layer = Start[graph] THEN graph \in NpuGraphs ELSE npuHint

\* s << layer, as far as the choice of the target graph: a layer of one input (subs is
\* empty) or one that joins the substreams subs.  starts: the layer's name is in the
\* network's table of starting layers.
BeginLayer(s, subs, starts) ==
    /\ work = Idle /\ added < MaxLayers
    /\ currentLayer' = LayerNumber(starts)
    /\ startingLayer' = (startingLayer /\ ~starts)
    /\ target' = TargetGraph(LayerNumber(starts))
    /\ npuHint' = Hint(LayerNumber(starts), target')
    /\ added' = added + 1
    /\ work' = [stream |-> s,
                subs |-> [i \in DOMAIN subs |-> TailNode(tails[subs[i]], target)],
                wants |-> IF subs = <<>> THEN <<meant[s]>>
                                         ELSE [i \in DOMAIN subs |-> meant[subs[i]]],
                inputs |-> Append([i \in DOMAIN subs |-> Listed(tails[subs[i]])], tails[s])]
    /\ UNCHANGED <<nodes, sentTo, nodeMap, tails, meant>>

--------------------------------------------------------------------------------
(* The inputs of the layer, one after the other. *)

Pending == work # Idle /\ work.inputs # <<>>
Input == Head(work.inputs)
NextInput == work' = [work EXCEPT !.inputs = Tail(@)]

NodeAt(p) == nodes[p.graph][p.node]
NewNode(g) == Len(nodes[g]) + 1

\* The input is in the target graph, or has a Receiver there already.
InputPresent ==
    /\ Pending
    /\ Input.graph = target \/ MappedIn(Input, target)
    /\ NextInput
    /\ UNCHANGED <<currentLayer, startingLayer, target, npuHint, nodes, sentTo, nodeMap,
                   tails, added, meant>>

\* Mutant of InputFirstUse: the Receiver is not recorded in the map.
InputFirstUseForgets ==
    /\ Pending
    /\ Input.graph # target /\ Input \notin DOMAIN nodeMap
    /\ Input.node \in DOMAIN nodes[Input.graph]
    /\ LET g == Input.graph
           v == NodeAt(Input).value
       IN  /\ nodes' = [nodes EXCEPT
                 ![g] = Append(@, Node("sender", v, <<Input.node>>, <<>>, v, g \in NpuGraphs)),
                 ![target] = Append(@, Node("receiver", v, <<>>, <<>>, v, npuHint))]
           /\ sentTo' = sentTo \cup {<<At(NewNode(g), g), At(NewNode(target), target)>>}
           /\ nodeMap' = WithEntry(nodeMap, Input, [h \in {g} |-> NewNode(h)])
    /\ NextInput
    /\ UNCHANGED <<currentLayer, startingLayer, target, npuHint, tails, added, meant>>

\* No other graph has taken the input yet: a Sender in its graph and a Receiver in the
\* target graph, whose descriptor is the sent tensor's with the target hint in it.
InputFirstUse ==
    /\ Pending
    /\ Input.graph # target /\ Input \notin DOMAIN nodeMap
    /\ Input.node \in DOMAIN nodes[Input.graph]
    /\ LET g == Input.graph
           v == NodeAt(Input).value
       IN  /\ nodes' = [nodes EXCEPT
                 ![g] = Append(@, Node("sender", v, <<Input.node>>, <<>>, v, g \in NpuGraphs)),
                 ![target] = Append(@, Node("receiver", v, <<>>, <<>>, v, npuHint))]
           /\ sentTo' = sentTo \cup {<<At(NewNode(g), g), At(NewNode(target), target)>>}
           /\ nodeMap' = WithEntry(nodeMap, Input, [h \in {g, target} |-> NewNode(h)])
    /\ NextInput
    /\ UNCHANGED <<currentLayer, startingLayer, target, npuHint, tails, added, meant>>

\* Mutant of InputSent: the new Receiver is not added to the Sender.
InputSentUnregistered ==
    /\ Pending
    /\ Input.graph # target /\ Input \in DOMAIN nodeMap /\ ~MappedIn(Input, target)
    /\ LET v == NodeAt(Input).value
       IN  /\ nodes' = [nodes EXCEPT
                 ![target] = Append(@, Node("receiver", v, <<>>, <<>>, v, NodeAt(Input).npu))]
           /\ nodeMap' = [nodeMap EXCEPT ![Input] = WithEntry(@, target, NewNode(target))]
    /\ NextInput
    /\ UNCHANGED <<currentLayer, startingLayer, target, npuHint, sentTo, tails, added, meant>>

\* The input has a Sender, for other graphs: one more Receiver, whose descriptor is the
\* sent tensor's as it is.
InputSent ==
    /\ Pending
    /\ Input.graph # target /\ Input \in DOMAIN nodeMap /\ ~MappedIn(Input, target)
    /\ LET v == NodeAt(Input).value
           sender == At(nodeMap[Input][Input.graph], Input.graph)
       IN  /\ nodes' = [nodes EXCEPT
                 ![target] = Append(@, Node("receiver", v, <<>>, <<>>, v, NodeAt(Input).npu))]
           /\ sentTo' = sentTo \cup {<<sender, At(NewNode(target), target)>>}
           /\ nodeMap' = [nodeMap EXCEPT ![Input] = WithEntry(@, target, NewNode(target))]
    /\ NextInput
    /\ UNCHANGED <<currentLayer, startingLayer, target, npuHint, tails, added, meant>>

\* Mutant of CreateLayer: the stream's tail is not moved into the target graph first.
CreateLayerOldTail ==
    /\ work # Idle /\ work.inputs = <<>>
    /\ LET s == work.stream
           own == tails[s]
           reads == IF work.subs = <<>> THEN <<own.node>>
                    ELSE [i \in DOMAIN work.subs |-> TailNode(work.subs[i], target).node]
           after == meant[s]
           npu == reads[1] \in DOMAIN nodes[target] /\ nodes[target][reads[1]].npu
       IN  /\ nodes' = [nodes EXCEPT
                 ![target] = Append(@, Node("layer", added, reads, work.wants, after, npu))]
           /\ tails' = [tails EXCEPT ![s] = At(NewNode(target), target)]
           /\ meant' = [meant EXCEPT ![s] = added]
    /\ work' = Idle
    /\ UNCHANGED <<currentLayer, startingLayer, target, npuHint, sentTo, nodeMap, added>>

\* next_layer moves the stream's tail into the target graph, add_layer creates the
\* layer's node there, reading the tail or the substreams' tails, and makes it the tail.
\* The node's tensor takes its target from the first tensor it reads.
CreateLayer ==
    /\ work # Idle /\ work.inputs = <<>>
    /\ LET s == work.stream
           own == IF tails[s].graph = target THEN tails[s] ELSE Find(tails[s], target)
           reads == IF work.subs = <<>> THEN <<own.node>>
                    ELSE [i \in DOMAIN work.subs |-> TailNode(work.subs[i], target).node]
           after == meant[s]
           npu == reads[1] \in DOMAIN nodes[target] /\ nodes[target][reads[1]].npu
       IN  /\ nodes' = [nodes EXCEPT
                 ![target] = Append(@, Node("layer", added, reads, work.wants, after, npu))]
           /\ tails' = [tails EXCEPT ![s] = At(NewNode(target), target)]
           /\ meant' = [meant EXCEPT ![s] = added]
    /\ work' = Idle
    /\ UNCHANGED <<currentLayer, startingLayer, target, npuHint, sentTo, nodeMap, added>>

SubStreams == Streams \ {Main}
Joins == {<<>>} \cup {<<a, b>> : a, b \in SubStreams}

Next ==
    \/ \E s, from \in Streams : OpenSubStream(s, from)
    \/ \E s \in Streams : ForwardTail(s)
    \/ \E s \in Streams, starts \in BOOLEAN :
         \E subs \in {j \in Joins : j = <<>> \/ j[1] # j[2]} : BeginLayer(s, subs, starts)
    \/ InputPresent
    \/ InputFirstUse
    \/ InputSent
    \/ CreateLayer

Spec == Init /\ [][Next]_vars

--------------------------------------------------------------------------------
(* Properties. *)

NodesOfKind(kind) ==
    {p \in UNION {{At(n, g) : n \in DOMAIN nodes[g]} : g \in Graphs} : NodeAt(p).kind = kind}

\* A layer reads the values the example gave it, in the order it gave them, from nodes of
\* its own graph that have a tensor to read: whatever boundaries lie between the layer
\* and the layers it takes its inputs from (next_layer, tail_node, create_layer).
LayersReadTheirInputs ==
    \A p \in NodesOfKind("layer") :
        \A i \in DOMAIN NodeAt(p).wants :
            LET read == NodeAt(p).reads[i]
            IN  /\ read \in 1 .. p.node - 1
                /\ nodes[p.graph][read].kind # "sender"
                /\ nodes[p.graph][read].value = NodeAt(p).wants[i]

\* Every Receiver has one Sender, which carries the value the Receiver stands for and is
\* in a graph of a smaller number; every Sender has a Receiver: so no two graphs ever
\* wait for each other's frames.
ChannelsLeadForward ==
    /\ \A r \in NodesOfKind("receiver") :
         \E s \in NodesOfKind("sender") :
             /\ {p \in sentTo : p[2] = r} = {<<s, r>>}
             /\ s.graph < r.graph /\ NodeAt(s).value = NodeAt(r).value
    /\ \A s \in NodesOfKind("sender") : \E r \in NodesOfKind("receiver") : <<s, r>> \in sentTo

\* A node's output leaves its graph through one Sender and enters each other graph
\* through one Receiver of that Sender at most, however many layers there want it.
OneChannelPerValue ==
    /\ \A s, t \in NodesOfKind("sender") :
         s.graph = t.graph /\ NodeAt(s).reads = NodeAt(t).reads => s = t
    /\ \A p, q \in sentTo : p[1] = q[1] /\ p[2].graph = q[2].graph => p = q

\* A graph receives only values that a layer in it asked for, or that the stream of such
\* a layer had as its tail: the list of input nodes names the nodes it means.
NoStrayChannel ==
    \A r \in NodesOfKind("receiver") :
        LET v == NodeAt(r).value
        IN  \/ \E p \in NodesOfKind("layer") :
                 p.graph = r.graph /\ (v = NodeAt(p).after \/ \E i \in DOMAIN NodeAt(p).wants :
                                                                v = NodeAt(p).wants[i])
            \/ /\ work # Idle /\ r.graph = target
               /\ v = meant[work.stream] \/ \E i \in DOMAIN work.wants : v = work.wants[i]

\* The graphs in use are the first ones, and each but graph 0 starts with a Receiver:
\* finalize counts the empty graphs off num_graphs, and the manager then takes the graph
\* numbered num_graphs - 1 for the last one.
UsedGraphsFirst ==
    \A g \in Graphs \ {0} :
        nodes[g] # <<>> => nodes[g - 1] # <<>> /\ nodes[g][1].kind = "receiver"

\* The first Receiver of a Sender works as one of an NPU exactly if the NPU executes its
\* graph: the hints in force when it is made are those of its graph, although they are
\* set only by a layer whose number is the first of one.
FirstReceiverTargets ==
    \A p \in sentTo :
        (\A q \in sentTo : q[1] = p[1] => p[2].graph <= q[2].graph)
            => (NodeAt(p[2]).npu <=> p[2].graph \in NpuGraphs)
================================================================================
