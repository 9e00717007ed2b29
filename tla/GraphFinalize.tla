----------------------------- MODULE GraphFinalize -----------------------------
(***************************************************************************)
(* What becomes of one constructed graph before it runs: if the NPU is to  *)
(* execute it, finalize replaces its layers by a single node, and          *)
(* NPUNode::restructure_graph moves the connections over; then dfs orders  *)
(* the nodes, in which order they become tasks.                            *)
(*                                                                         *)
(* A connection is kept four times: as an edge, in the list of inputs of   *)
(* the node that reads, among the output edges of the node that writes,    *)
(* and among the bound edges of the tensor between them.                   *)
(*                                                                         *)
(* Input and Receiver nodes are both "input" here, since only StartSort    *)
(* tells them apart, Output and Sender nodes both "output".  Nodes, edges  *)
(* and tensors are numbered from 1; 0 is EmptyEdgeID.                      *)
(***************************************************************************)
EXTENDS Integers, Sequences, FiniteSets, SequencesExt, AscendingSets

CONSTANTS MaxNodes,      \* bound: nodes of the constructed graph, Const nodes left out
          MaxJoin        \* bound: inputs of a layer

ASSUME BoundsAssumption == MaxNodes \in Nat /\ MaxJoin \in Nat \ {0}

VARIABLES
    g,                   \* _nodes, _edges and _tensors of the Graph
    phase,
    work,                \* what is left of the loop under way
    slot,                \* i of restructure_graph
    stack, visited, order,     \* locals of dfs
    built                \* history: the graph as constructed

vars == <<g, phase, work, slot, stack, visited, order, built>>

Nodes == DOMAIN g.nodes
Live == {e \in DOMAIN g.edges : g.edges[e].live}
OfKind(kinds) == {n \in Nodes : g.nodes[n].kind \in kinds}

--------------------------------------------------------------------------------
(* Graph *)

\* add_node: a tensor for each output.
AddNode(h, kind, inputs, outputs) ==
    [h EXCEPT !.nodes = Append(@, [kind |-> kind, ins |-> [i \in 1 .. inputs |-> 0], outs |-> {},
                                   tensors |-> [i \in 1 .. outputs |-> Len(h.bound) + i]]),
              !.bound = @ \o [i \in 1 .. outputs |-> {}]]

\* add_connection: output i of node a becomes input j of node b.  The check of j is an
\* assertion, and a write past the end of the list is not found in it again.
Connect(h, a, i, b, j) ==
    LET e == Len(h.edges) + 1
        t == h.nodes[a].tensors[i]
        inputs == [k \in DOMAIN h.nodes[b].ins |-> IF k = j THEN e ELSE h.nodes[b].ins[k]]
    IN  [nodes |-> [h.nodes EXCEPT ![a].outs = @ \cup {e}, ![b].ins = inputs],
         edges |-> Append(h.edges, [from |-> a, out |-> i, to |-> b, in |-> j,
                                    tensor |-> t, live |-> TRUE]),
         bound |-> [h.bound EXCEPT ![t] = @ \cup {e}]]

\* Mutant of Disconnect: the tensors keep the edges.
DisconnectStaysBound(h, E) ==
    LET gone == {e \in E \cap DOMAIN h.edges : h.edges[e].live}
        Inputs(n) == [i \in DOMAIN h.nodes[n].ins |->
                        IF \E e \in gone : h.edges[e].to = n /\ h.edges[e].in = i
                        THEN 0 ELSE h.nodes[n].ins[i]]
        Outputs(n) == h.nodes[n].outs \ {e \in gone : h.edges[e].from = n}
        Freed(e) == IF e \in gone THEN [h.edges[e] EXCEPT !.live = FALSE] ELSE h.edges[e]
    IN  [h EXCEPT
          !.edges = [e \in DOMAIN @ |-> Freed(e)],
          !.nodes = [n \in DOMAIN @ |-> [h.nodes[n] EXCEPT !.ins = Inputs(n), !.outs = Outputs(n)]]]

\* remove_connection, of the edges in E one after another; for no edge, and one that is
\* gone, it does nothing.
Disconnect(h, E) ==
    LET gone == {e \in E \cap DOMAIN h.edges : h.edges[e].live}
        Inputs(n) == [i \in DOMAIN h.nodes[n].ins |->
                        IF \E e \in gone : h.edges[e].to = n /\ h.edges[e].in = i
                        THEN 0 ELSE h.nodes[n].ins[i]]
        Outputs(n) == h.nodes[n].outs \ {e \in gone : h.edges[e].from = n}
        Freed(e) == IF e \in gone THEN [h.edges[e] EXCEPT !.live = FALSE] ELSE h.edges[e]
    IN  [h EXCEPT
          !.edges = [e \in DOMAIN @ |-> Freed(e)],
          !.nodes = [n \in DOMAIN @ |-> [h.nodes[n] EXCEPT !.ins = Inputs(n), !.outs = Outputs(n)]],
          !.bound = [t \in DOMAIN @ |-> @[t] \ {e \in gone : h.edges[e].tensor = t}]]

\* remove_node
WithoutNode(h, n) ==
    [Disconnect(h, ToSet(h.nodes[n].ins) \cup h.nodes[n].outs) EXCEPT
        !.nodes[n] = [kind |-> "removed", ins |-> <<>>, outs |-> {}, tensors |-> <<>>]]

--------------------------------------------------------------------------------
(* The construction, as far as it matters here. *)

Init ==
    /\ g = [nodes |-> <<>>, edges |-> <<>>, bound |-> <<>>]
    /\ phase = "building"
    /\ work = <<>> /\ slot = 0
    /\ stack = <<>> /\ visited = {} /\ order = <<>>
    /\ built = g

Locals == <<phase, slot, stack, visited, order, built>>

Room == Cardinality(Nodes \ OfKind({"const"})) < MaxNodes

\* Between two nodes; while one is made, work is the nodes it is still to be connected to.
Building == phase = "building" /\ work = <<>>

\* An Input or a Receiver, for a layer or a Sender to read, or for none.
AddInput ==
    /\ Building /\ Room
    /\ g' = AddNode(g, "input", 0, 1)
    /\ UNCHANGED <<work, Locals>>

\* A layer, with a Const node for its weights or without.  No example joins a value with
\* itself.
AddLayer(inputs, weights) ==
    /\ Building /\ Room
    /\ IsInjective(inputs)
    /\ work' = IF weights THEN Append(inputs, Len(g.nodes) + 1) ELSE inputs
    /\ g' = AddNode(IF weights THEN AddNode(g, "const", 0, 1) ELSE g, "layer", Len(work'), 1)
    /\ UNCHANGED Locals

\* An Output or a Sender.
AddOutput(n) ==
    /\ Building /\ Room
    /\ g' = AddNode(g, "output", 1, 0)
    /\ work' = <<n>>
    /\ UNCHANGED Locals

\* The new node reads the first output of the next of the nodes given.
ConnectInput ==
    /\ phase = "building" /\ work # <<>>
    /\ LET n == Len(g.nodes)
       IN  g' = Connect(g, Head(work), 1, n, Len(g.nodes[n].ins) - Len(work) + 1)
    /\ work' = Tail(work)
    /\ UNCHANGED Locals

Construct ==
    \/ AddInput
    \/ \E k \in 1 .. MaxJoin, weights \in BOOLEAN :
         \E inputs \in [1 .. k -> OfKind({"input", "layer"})] : AddLayer(inputs, weights)
    \/ \E n \in OfKind({"input", "layer"}) : AddOutput(n)
    \/ ConnectInput

\* A graph in use has a layer.
Constructed == Building /\ OfKind({"layer"}) # {}

--------------------------------------------------------------------------------
(* The graph of an NPU: finalize and restructure_graph *)

\* The last node.
Npu == Len(g.nodes)

\* A node for the whole graph, with an input for each input of the graph and no output.
AddNpuNode ==
    /\ Constructed
    /\ built' = g
    /\ g' = AddNode(g, "npu", Cardinality(OfKind({"input"})), 0)
    /\ work' = Ascending(OfKind({"output"}))
    /\ slot' = 0
    /\ phase' = "outputs"
    /\ UNCHANGED <<stack, visited, order>>

\* Mutant of MoveOutput: the index of the NPU node's output is not counted up.
MoveOutputToFirst ==
    /\ phase = "outputs" /\ work # <<>>
    /\ LET n == Head(work)
           e == g.nodes[n].ins[1]
           h == [g EXCEPT !.nodes[Npu].tensors = Append(@, g.edges[e].tensor)]
       IN  g' = Connect(Disconnect(h, {e}), Npu, 1, n, 1)
    /\ work' = Tail(work)
    /\ slot' = slot + 1
    /\ UNCHANGED <<phase, stack, visited, order, built>>

\* The NPU node takes over the tensor an output reads, and the edge to it.
MoveOutput ==
    /\ phase = "outputs" /\ work # <<>>
    /\ LET n == Head(work)
           e == g.nodes[n].ins[1]
           h == [g EXCEPT !.nodes[Npu].tensors = Append(@, g.edges[e].tensor)]
       IN  g' = Connect(Disconnect(h, {e}), Npu, slot + 1, n, 1)
    /\ work' = Tail(work)
    /\ slot' = slot + 1
    /\ UNCHANGED <<phase, stack, visited, order, built>>

OutputsMoved ==
    /\ phase = "outputs" /\ work = <<>>
    /\ work' = Ascending(OfKind({"input"}))
    /\ slot' = 0
    /\ phase' = "inputs"
    /\ UNCHANGED <<g, stack, visited, order, built>>

\* The edges of an input that do not lead to the NPU node.
ToMove(n) == {e \in g.nodes[n].outs : g.edges[e].to # Npu}

\* Mutant of MoveInput: the index of the NPU node's input is not counted up.
MoveInputToFirst ==
    /\ phase = "inputs" /\ work # <<>> /\ ToMove(Head(work)) # {}
    /\ LET e == Ascending(ToMove(Head(work)))[1]
       IN  g' = Connect(Disconnect(g, {e}), Head(work), 1, Npu, 1)
    /\ phase' \in {phase} \cup (IF slot + 1 > Len(g.nodes[Npu].ins) THEN {"aborted"} ELSE {})
    /\ slot' = slot + 1
    /\ UNCHANGED <<work, stack, visited, order, built>>

\* The next edge of the input, to a layer, becomes one to the NPU node, each in a slot of
\* its own.  With more edges than inputs the slot is past the end of _input_edges: without
\* assertions the program goes on, with the heap damaged, or ends.
MoveInput ==
    /\ phase = "inputs" /\ work # <<>> /\ ToMove(Head(work)) # {}
    /\ LET e == Ascending(ToMove(Head(work)))[1]
       IN  g' = Connect(Disconnect(g, {e}), Head(work), 1, Npu, slot + 1)
    /\ phase' \in {phase} \cup (IF slot + 1 > Len(g.nodes[Npu].ins) THEN {"aborted"} ELSE {})
    /\ slot' = slot + 1
    /\ UNCHANGED <<work, stack, visited, order, built>>

InputMoved ==
    /\ phase = "inputs" /\ work # <<>> /\ ToMove(Head(work)) = {}
    /\ work' = Tail(work)
    /\ UNCHANGED <<g, phase, slot, stack, visited, order, built>>

InputsMoved ==
    /\ phase = "inputs" /\ work = <<>>
    /\ work' = Ascending(OfKind({"layer", "const"}))
    /\ phase' = "removing"
    /\ UNCHANGED <<g, slot, stack, visited, order, built>>

\* Only nodes of the preserved types stay.
RemoveNode ==
    /\ phase = "removing" /\ work # <<>>
    /\ g' = WithoutNode(g, Head(work))
    /\ work' = Tail(work)
    /\ UNCHANGED <<phase, slot, stack, visited, order, built>>

--------------------------------------------------------------------------------
(* dfs *)

Merged == OfKind({"npu"}) # {}

\* Mutant of Sources: the lists of nodes by type keep the removed ones.
SourcesTagged(receivers) ==
    LET Tagged(kind) == IF Merged THEN {n \in DOMAIN built.nodes : built.nodes[n].kind = kind}
                                  ELSE OfKind({kind})
    IN  Ascending(Tagged("input") \ receivers) \o Ascending(receivers) \o Ascending(Tagged("const"))

\* Inputs, then Receivers, then Const nodes.
Sources(receivers) ==
    Ascending(OfKind({"input"}) \ receivers) \o Ascending(receivers) \o Ascending(OfKind({"const"}))

\* For an NPU the layers have been removed; the graph of a CPU or GPU stays as it is.
StartSort ==
    /\ \/ phase = "removing" /\ work = <<>> /\ UNCHANGED built
       \/ Constructed /\ built' = g
    /\ \E receivers \in SUBSET OfKind({"input"}) : stack' = Sources(receivers)
    /\ visited' = ToSet(stack')
    /\ order' = <<>>
    /\ phase' = "sorting"
    /\ UNCHANGED <<g, work, slot>>

\* all_inputs_are_visited
InputsVisited(n, seen) ==
    \A i \in DOMAIN g.nodes[n].ins :
        g.nodes[n].ins[i] # 0 => g.edges[g.nodes[n].ins[i]].from \in seen

\* The node on the stack comes next, and the nodes it made ready go on the stack, the one
\* of the first edge on top.
VisitNode ==
    /\ phase = "sorting" /\ stack # <<>>
    /\ LET n == Last(stack)
           seen == visited \cup {n}
           ready == {e \in g.nodes[n].outs : g.edges[e].to \notin seen
                                             /\ InputsVisited(g.edges[e].to, seen)}
           edges == Reverse(Ascending(ready))
       IN  /\ stack' = Front(stack) \o [i \in DOMAIN edges |-> g.edges[edges[i]].to]
           /\ visited' = seen
           /\ order' = Append(order, n)
    /\ UNCHANGED <<g, phase, work, slot, built>>

\* Mutant of Sorted: finalize_graph does not look for repeated nodes.
SortedAsIs(s) == s

\* finalize_graph keeps the first of repeated nodes, for the NPU.
Sorted(s) ==
    LET first == Ascending({i \in DOMAIN s : \A k \in 1 .. i - 1 : s[k] # s[i]})
    IN  IF Merged THEN [i \in DOMAIN first |-> s[first[i]]] ELSE s

FinishSort ==
    /\ phase = "sorting" /\ stack = <<>>
    /\ order' = Sorted(order)
    /\ phase' = "sorted"
    /\ UNCHANGED <<g, work, slot, stack, visited, built>>

Next ==
    \/ Construct
    \/ AddNpuNode \/ MoveOutput \/ OutputsMoved \/ MoveInput \/ InputMoved \/ InputsMoved
    \/ RemoveNode
    \/ StartSort \/ VisitNode \/ FinishSort

Spec == Init /\ [][Next]_vars

--------------------------------------------------------------------------------
(* Properties *)

\* The stack and the order hold nodes that exist; edges, inputs and tensors are numbers
\* of such.
TypeOK ==
    /\ phase \in {"building", "outputs", "inputs", "removing", "sorting", "sorted", "aborted"}
    /\ \A n \in Nodes : /\ ToSet(g.nodes[n].ins) \subseteq DOMAIN g.edges \cup {0}
                        /\ ToSet(g.nodes[n].tensors) \subseteq DOMAIN g.bound
    /\ slot \in 0 .. Len(g.edges)
    /\ visited \subseteq Nodes
    /\ \A n \in ToSet(stack) \cup ToSet(order) : n \in Nodes /\ g.nodes[n].kind # "removed"

\* The four records of a connection agree at every step of the merge: the edge is among
\* the outputs of its producer and bound to the tensor of that output, and an input
\* names the edge that leads to it.
Consistent ==
    /\ \A e \in Live :
         LET c == g.edges[e] IN
         /\ c.out \in DOMAIN g.nodes[c.from].tensors
         /\ c.tensor = g.nodes[c.from].tensors[c.out]
         /\ c.in \in DOMAIN g.nodes[c.to].ins => g.nodes[c.to].ins[c.in] = e
    /\ \A n \in Nodes :
         /\ g.nodes[n].outs = {e \in Live : g.edges[e].from = n}
         /\ \A i \in DOMAIN g.nodes[n].ins :
              LET e == g.nodes[n].ins[i]
              IN  e # 0 => e \in Live /\ g.edges[e].to = n /\ g.edges[e].in = i
    /\ \A t \in DOMAIN g.bound : g.bound[t] = {e \in Live : g.edges[e].tensor = t}

TensorRead(h, n) == h.edges[h.nodes[n].ins[1]].tensor

\* Merging an NPU graph changes no tensor that leaves it: each Output and Sender reads the
\* tensor it read as constructed, now from the NPU node.
OutputsKeepTheirTensors ==
    Merged /\ phase \in {"sorting", "sorted"} =>
        \A n \in OfKind({"output"}) :
            /\ TensorRead(g, n) = TensorRead(built, n)
            /\ g.edges[g.nodes[n].ins[1]].from = Npu

\* Edges from inputs to layers, in the graph as constructed.
Uses(n) == {e \in DOMAIN built.edges :
              built.edges[e].from = n /\ built.nodes[built.edges[e].to].kind = "layer"}

TotalUses == Cardinality(UNION {Uses(n) : n \in OfKind({"input"})})

\* If the layers read their graph's inputs over no more edges than there are inputs, the
\* NPU node reads every input they read, once per edge.
NpuReadsItsInputs ==
    Merged /\ phase \in {"sorting", "sorted"} /\ TotalUses <= Len(g.nodes[Npu].ins) =>
        LET ins == g.nodes[Npu].ins IN
        \A n \in OfKind({"input"}) :
            Cardinality({i \in DOMAIN ins : ins[i] # 0 /\ g.edges[ins[i]].from = n})
                = Cardinality(Uses(n))

\* add_connection is called with an index the consumer has.
ConnectionsInRange == \A e \in Live : g.edges[e].in \in DOMAIN g.nodes[g.edges[e].to].ins

Place(n) == CHOOSE i \in DOMAIN order : order[i] = n

\* The order has every node that is left once, and every node after the layers or the NPU
\* node it reads: each becomes one task, that runs when its inputs have been computed.
\* (Inputs and constants have no task.)
SortedTopologically ==
    phase = "sorted" =>
        /\ \A n \in Nodes : Cardinality({i \in DOMAIN order : order[i] = n})
                              = IF g.nodes[n].kind = "removed" THEN 0 ELSE 1
        /\ \A e \in Live : g.nodes[g.edges[e].from].kind \in {"layer", "npu"} =>
                              Place(g.edges[e].from) < Place(g.edges[e].to)
================================================================================
