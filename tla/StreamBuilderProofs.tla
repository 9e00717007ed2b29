-------------------------- MODULE StreamBuilderProofs --------------------------
(***************************************************************************)
(* Proofs about StreamBuilder, for every partition into ranges of layers,  *)
(* any number of streams and of layers: the layers read the values they    *)
(* were given, and the Senders and Receivers make a network whose channels *)
(* lead from one graph to a later one.                                     *)
(*                                                                         *)
(* The invariant is written with operators on values (the nodes ns of the  *)
(* graphs, the mapped nodes f of a position), so that the same operator    *)
(* speaks of the state before and after a step.                            *)
(***************************************************************************)
EXTENDS StreamBuilder, SequenceTheorems, WellFoundedInduction, TLAPS

\* Position p is a node of ns that a layer can read, and its value is v.
Holds(ns, p, v) ==
    /\ p \in Positions
    /\ p.node \in 1 .. Len(ns[p.graph])
    /\ ns[p.graph][p.node].kind # "sender"
    /\ ns[p.graph][p.node].value = v

\* Graphs only gain nodes.
Grown(ns, ms) ==
    \A g \in Graphs :
        /\ Len(ns[g]) <= Len(ms[g])
        /\ \A n \in 1 .. Len(ns[g]) : ms[g][n] = ns[g][n]

\* ns with node N more in graph g.
Adding(ns, g, N) == [ns EXCEPT ![g] = Append(@, N)]

\* Node n of graph g stands for position p there: p's Sender, or the Receiver of p.
Peer(ns, t, p, g, n) ==
    /\ n \in 1 .. Len(ns[g])
    /\ ns[g][n].value = ns[p.graph][p.node].value
    /\ g = p.graph => ns[g][n].kind = "sender" /\ ns[g][n].reads = <<p.node>>
    /\ g # p.graph => ns[g][n].kind = "receiver" /\ p.graph < g /\ g <= t

\* What node_map holds of position p.
Entry(ns, t, p, f) ==
    /\ Holds(ns, p, ns[p.graph][p.node].value)
    /\ p.graph < t
    /\ p.graph \in DOMAIN f /\ DOMAIN f \subseteq Graphs
    /\ \E g \in DOMAIN f : g # p.graph
    /\ \A g \in DOMAIN f : Peer(ns, t, p, g, f[g])

\* The channel from p's Sender to its Receiver in graph g.
Link(p, f, g) == <<At(f[p.graph], p.graph), At(f[g], g)>>

\* Position p has a node in graph t, or is among the inputs still to be brought there.
InTarget(p, t, map) == p.graph = t \/ (p \in DOMAIN map /\ t \in DOMAIN map[p])
Brought(p, t, map, inputs) ==
    InTarget(p, t, map) \/ \E i \in 1 .. Len(inputs) : inputs[i] = p

Works == [stream : Streams, subs : Seq(Positions), wants : Seq(0 .. MaxLayers),
          inputs : Seq(Positions)]

Typed ==
    /\ nodes \in [Graphs -> Seq(Nodes)]
    /\ tails \in [Streams -> Positions] /\ meant \in [Streams -> 0 .. MaxLayers]
    /\ added \in 0 .. MaxLayers /\ currentLayer \in 0 .. added
    /\ startingLayer \in BOOLEAN /\ npuHint \in BOOLEAN /\ target \in Graphs
    /\ work \in Works

\* Layers go to one graph after the other, and the hints are those of the current one.
TargetInv ==
    /\ target = TargetGraph(currentLayer)
    /\ npuHint <=> target \in NpuGraphs
    /\ \A g \in Graphs : (g > target => nodes[g] = <<>>) /\ (g < target => nodes[g] # <<>>)
    /\ work = Idle => nodes[target] # <<>>
    /\ \A g \in Graphs \ {0} : nodes[g] # <<>> => nodes[g][1].kind = "receiver"

\* The tail of a stream stands for the stream's last layer.
TailInv == \A s \in Streams : tails[s].graph <= target /\ Holds(nodes, tails[s], meant[s])

\* The nodes of the substreams carry what the layer wants, and all that the layer will
\* read is, or is about to be, in its graph.
WorkInv ==
    work # Idle =>
        /\ work.wants # <<>>
        /\ work.subs = <<>> => work.wants = <<meant[work.stream]>>
        /\ work.subs # <<>> => Len(work.wants) = Len(work.subs)
        /\ \A i \in 1 .. Len(work.subs) :
             /\ Holds(nodes, work.subs[i], work.wants[i])
             /\ work.subs[i].graph <= target
             /\ Brought(work.subs[i], target, nodeMap, work.inputs)
        /\ Brought(tails[work.stream], target, nodeMap, work.inputs)
        /\ \A i \in 1 .. Len(work.inputs) :
             /\ work.inputs[i].graph <= target
             /\ \/ Holds(nodes, work.inputs[i], meant[work.stream])
                \/ \E j \in 1 .. Len(work.wants) : Holds(nodes, work.inputs[i], work.wants[j])

MapInv == \A p \in DOMAIN nodeMap : Entry(nodes, target, p, nodeMap[p])

\* The channels are exactly those of node_map, and every Sender and Receiver is in it, for
\* one position.
LinkInv ==
    /\ \A c \in sentTo : \E p \in DOMAIN nodeMap :
         \E g \in DOMAIN nodeMap[p] \ {p.graph} : c = Link(p, nodeMap[p], g)
    /\ \A p \in DOMAIN nodeMap : \A g \in DOMAIN nodeMap[p] \ {p.graph} :
         Link(p, nodeMap[p], g) \in sentTo

OwnerInv ==
    /\ \A g \in Graphs : \A n \in 1 .. Len(nodes[g]) :
         /\ nodes[g][n].kind = "sender" =>
              \E p \in DOMAIN nodeMap : p.graph = g /\ nodeMap[p][g] = n
         /\ nodes[g][n].kind = "receiver" =>
              \E p \in DOMAIN nodeMap :
                  p.graph # g /\ g \in DOMAIN nodeMap[p] /\ nodeMap[p][g] = n
    /\ \A p, q \in DOMAIN nodeMap : \A g \in DOMAIN nodeMap[p] \cap DOMAIN nodeMap[q] :
         nodeMap[p][g] = nodeMap[q][g] => p = q

Inv == Typed /\ TargetInv /\ TailInv /\ WorkInv /\ MapInv /\ LinkInv /\ OwnerInv

--------------------------------------------------------------------------------
(* The ranges of the graphs. *)

\* A set of natural numbers that is not empty has a least element.
LEMMA Least ==
    ASSUME NEW S \in SUBSET Nat, NEW x \in S
    PROVE  \E m \in S : \A y \in S : m <= y
<1>. DEFINE Less == {p \in Nat \X Nat : p[1] < p[2]}
<1>1. IsWellFoundedOn(Less, Nat)
  BY NatLessThanWellFounded DEF OpToRel
<1>2. PICK m \in S : \A y \in S : <<y, m>> \notin Less
  <2>. HIDE DEF Less
  <2>. QED
    BY <1>1, WFMin
<1>3. ASSUME NEW y \in S PROVE m <= y
  <2>1. <<y, m>> \notin Less /\ y \in Nat /\ m \in Nat
    BY <1>2
  <2>. QED
    BY <2>1
<1>. QED
  BY <1>3

LEMMA GraphNumbers ==
    /\ \A g \in Graphs : g \in Nat
    /\ NumGraphs - 1 \in Graphs /\ 0 \in Graphs
    /\ MaxLayers \in Nat
  BY RangesAssumption, StreamsAssumption DEF Graphs

LEMMA Ranges ==
    ASSUME NEW g \in Graphs
    PROVE  /\ NumGraphs \in Nat \ {0} /\ 0 \in Graphs /\ NumGraphs - 1 \in Graphs
           /\ g \in Nat /\ g <= NumGraphs - 1 /\ (g # 0 => g - 1 \in Graphs)
           /\ Start[g] \in Nat /\ End[g] \in Nat /\ Start[g] <= End[g]
           /\ g # 0 => Start[g] = End[g - 1] + 1
<1>1. NumGraphs \in Nat \ {0} /\ g \in 0 .. NumGraphs - 1
  BY RangesAssumption DEF Graphs
<1>2. /\ 0 \in Graphs /\ NumGraphs - 1 \in Graphs
      /\ g \in Nat /\ g <= NumGraphs - 1 /\ (g # 0 => g - 1 \in Graphs)
  BY <1>1 DEF Graphs
<1>. QED
  BY <1>1, <1>2, RangesAssumption

\* The ranges are disjoint and in order.
LEMMA RangesApart ==
    ASSUME NEW g \in Graphs, NEW h \in Graphs, g < h
    PROVE  End[g] < Start[h]
<1>. DEFINE Bad == {k \in Graphs : g < k /\ ~(End[g] < Start[k])}
<1>1. SUFFICES ASSUME h \in Bad PROVE FALSE
  OBVIOUS
<1>2. Bad \in SUBSET Nat
  BY Ranges
<1>. HIDE DEF Bad
<1>3. PICK k \in Bad : \A y \in Bad : k <= y
  BY <1>1, <1>2, Least
<1>4. k \in Graphs /\ g < k /\ ~(End[g] < Start[k])
  BY <1>3 DEF Bad
<1>5. /\ g \in Nat /\ k \in Nat /\ k # 0 /\ k - 1 \in Graphs /\ Start[k] = End[k - 1] + 1
      /\ End[g] \in Nat /\ Start[k] \in Nat /\ End[k - 1] \in Nat
      /\ Start[k - 1] \in Nat /\ Start[k - 1] <= End[k - 1]
  <2>1. g \in Nat /\ End[g] \in Nat /\ k \in Nat /\ k # 0
    BY <1>4, Ranges
  <2>2. k - 1 \in Graphs /\ Start[k] = End[k - 1] + 1 /\ Start[k] \in Nat
    BY <1>4, <2>1, Ranges
  <2>3. End[k - 1] \in Nat /\ Start[k - 1] \in Nat /\ Start[k - 1] <= End[k - 1]
    BY <2>2, Ranges
  <2>. QED
    BY <2>1, <2>2, <2>3
<1>6. CASE k - 1 = g
  BY <1>4, <1>5, <1>6
<1>7. CASE k - 1 # g
  <2>1. g < k - 1
    BY <1>4, <1>5, <1>7
  <2>2. k - 1 \notin Bad
    BY <1>3, <1>5
  <2>3. End[g] < Start[k - 1]
    BY <1>5, <2>1, <2>2 DEF Bad
  <2>. QED
    BY <1>4, <1>5, <2>3
<1>. QED
  BY <1>6, <1>7

\* Every layer up to the end of the last graph is in the range of one.
LEMMA RangesCover ==
    ASSUME NEW n \in Nat, n <= End[NumGraphs - 1]
    PROVE  \E g \in Graphs : Start[g] <= n /\ n <= End[g]
<1>. DEFINE Reaching == {k \in Graphs : n <= End[k]}
<1>1. NumGraphs - 1 \in Reaching /\ Reaching \in SUBSET Nat
  <2>1. NumGraphs - 1 \in Graphs
    BY RangesAssumption DEF Graphs
  <2>. QED
    BY <2>1, Ranges
<1>. HIDE DEF Reaching
<1>2. PICK k \in Reaching : \A y \in Reaching : k <= y
  BY <1>1, Least
<1>3. k \in Graphs /\ n <= End[k]
  BY <1>2 DEF Reaching
<1>4. CASE k = 0
  BY <1>3, <1>4, RangesAssumption
<1>5. CASE k # 0
  <2>1. k \in Nat /\ k - 1 \in Graphs /\ Start[k] = End[k - 1] + 1 /\ Start[k] \in Nat
    BY <1>3, <1>5, Ranges
  <2>2. k - 1 \notin Reaching /\ End[k - 1] \in Nat
    BY <1>2, <2>1, Ranges
  <2>3. ~(n <= End[k - 1])
    BY <2>1, <2>2 DEF Reaching
  <2>. QED
    BY <1>3, <2>1, <2>2, <2>3
<1>. QED
  BY <1>4, <1>5

\* A layer beyond the ranges goes to the last graph.
LEMMA TargetOf ==
    ASSUME NEW n \in Nat
    PROVE  /\ TargetGraph(n) \in Graphs
           /\ \A g \in Graphs : Start[g] <= n /\ n <= End[g] => TargetGraph(n) = g
           /\ \/ Start[TargetGraph(n)] <= n /\ n <= End[TargetGraph(n)]
              \/ TargetGraph(n) = NumGraphs - 1 /\ n > End[NumGraphs - 1]
<1>. DEFINE having == {g \in Graphs : Start[g] <= n /\ n <= End[g]}
<1>1. NumGraphs - 1 \in Graphs
  BY RangesAssumption DEF Graphs
<1>2. ASSUME NEW g \in having, NEW h \in having PROVE g = h
  <2>1. /\ g \in Nat /\ h \in Nat /\ Start[g] \in Nat /\ Start[h] \in Nat
        /\ End[g] \in Nat /\ End[h] \in Nat
    BY Ranges
  <2>2. ~(g < h)
    <3>1. g < h => End[g] < Start[h]
      BY RangesApart
    <3>. QED
      BY <2>1, <3>1
  <2>3. ~(h < g)
    <3>1. h < g => End[h] < Start[g]
      BY RangesApart
    <3>. QED
      BY <2>1, <3>1
  <2>. QED
    BY <2>1, <2>2, <2>3
<1>3. CASE having = {}
  <2>1. TargetGraph(n) = NumGraphs - 1
    BY <1>3 DEF TargetGraph
  <2>2. ~(n <= End[NumGraphs - 1])
    BY <1>3, RangesCover
  <2>3. n > End[NumGraphs - 1]
    BY <1>1, <2>2, Ranges
  <2>. QED
    BY <1>1, <1>3, <2>1, <2>3
<1>4. CASE having # {}
  <2>1. TargetGraph(n) = CHOOSE g \in having : TRUE
    BY <1>4 DEF TargetGraph
  <2>2. TargetGraph(n) \in having
    BY <1>4, <2>1
  <2>. QED
    BY <1>2, <2>2
<1>. QED
  BY <1>3, <1>4

\* The next layer number goes to the same graph, or is the first one of the next graph.
LEMMA NextTarget ==
    ASSUME NEW n \in Nat
    PROVE  \/ TargetGraph(n + 1) = TargetGraph(n)
           \/ /\ TargetGraph(n + 1) = TargetGraph(n) + 1
              /\ n + 1 = Start[TargetGraph(n + 1)]
<1>. DEFINE g == TargetGraph(n)
<1>1. g \in Graphs /\ g \in Nat /\ g <= NumGraphs - 1 /\ Start[g] \in Nat /\ End[g] \in Nat
      /\ NumGraphs \in Nat \ {0}
  BY TargetOf, Ranges
<1>2. \/ Start[g] <= n /\ n <= End[g]
      \/ g = NumGraphs - 1 /\ n > End[g]
  BY TargetOf
<1>3. CASE Start[g] <= n /\ n + 1 <= End[g]
  BY <1>1, <1>3, TargetOf
<1>4. CASE g = NumGraphs - 1 /\ n + 1 > End[g]
  <2>1. ASSUME NEW h \in Graphs, Start[h] <= n + 1, n + 1 <= End[h] PROVE FALSE
    <3>1. h \in Nat /\ h <= NumGraphs - 1 /\ Start[h] \in Nat /\ End[h] \in Nat
      BY Ranges
    <3>2. CASE h = g
      BY <1>1, <1>4, <2>1, <3>1, <3>2
    <3>3. CASE h # g
      <4>1. h < g
        BY <1>1, <1>4, <3>1, <3>3
      <4>2. End[h] < Start[g] /\ Start[g] <= End[g]
        BY <1>1, <4>1, RangesApart, Ranges
      <4>. QED
        BY <1>1, <1>4, <2>1, <3>1, <4>2
    <3>. QED
      BY <3>2, <3>3
  <2>2. TargetGraph(n + 1) = NumGraphs - 1
    BY <2>1, TargetOf
  <2>. QED
    BY <1>4, <2>2
<1>5. CASE g # NumGraphs - 1 /\ n = End[g]
  <2>1. g + 1 \in Graphs /\ g + 1 # 0 /\ (g + 1) - 1 = g
    BY <1>1, <1>5 DEF Graphs
  <2>2. Start[g + 1] = End[g] + 1 /\ Start[g + 1] <= End[g + 1]
    BY <2>1, Ranges
  <2>3. TargetGraph(n + 1) = g + 1
    BY <1>1, <1>5, <2>1, <2>2, TargetOf
  <2>. QED
    BY <1>5, <2>2, <2>3
<1>. HIDE DEF g
<1>. QED
  BY <1>1, <1>2, <1>3, <1>4, <1>5 DEF g

--------------------------------------------------------------------------------
(* Graphs grow. *)

LEMMA GrownSame == ASSUME NEW ns \in [Graphs -> Seq(Nodes)] PROVE Grown(ns, ns)
<1>1. \A g \in Graphs : Len(ns[g]) \in Nat
  OBVIOUS
<1>. QED
  BY <1>1 DEF Grown

LEMMA HoldsGrown ==
    ASSUME NEW ns \in [Graphs -> Seq(Nodes)], NEW ms \in [Graphs -> Seq(Nodes)],
           Grown(ns, ms), NEW p, NEW v, Holds(ns, p, v)
    PROVE  Holds(ms, p, v) /\ ms[p.graph][p.node] = ns[p.graph][p.node]
<1>1. p.graph \in Graphs /\ p.node \in 1 .. Len(ns[p.graph])
  BY DEF Holds, Positions
<1>2. Len(ns[p.graph]) \in Nat /\ Len(ms[p.graph]) \in Nat
  BY <1>1
<1>3. Len(ns[p.graph]) <= Len(ms[p.graph])
  BY <1>1 DEF Grown
<1>4. p.node \in 1 .. Len(ms[p.graph]) /\ ms[p.graph][p.node] = ns[p.graph][p.node]
  BY <1>1, <1>2, <1>3 DEF Grown
<1>. QED
  BY <1>4 DEF Holds

LEMMA EntryGrown ==
    ASSUME NEW ns \in [Graphs -> Seq(Nodes)], NEW ms \in [Graphs -> Seq(Nodes)],
           Grown(ns, ms), NEW t \in Graphs, NEW u \in Graphs, t <= u,
           NEW p, NEW f, Entry(ns, t, p, f)
    PROVE  Entry(ms, u, p, f)
<1>1. Holds(ns, p, ns[p.graph][p.node].value) /\ p.graph \in Graphs
  BY DEF Entry, Holds, Positions
<1>2. Holds(ms, p, ns[p.graph][p.node].value) /\ ms[p.graph][p.node] = ns[p.graph][p.node]
  <2>. DEFINE v == ns[p.graph][p.node].value
  <2>1. Holds(ns, p, v)
    BY <1>1
  <2>. HIDE DEF v
  <2>2. Holds(ms, p, v) /\ ms[p.graph][p.node] = ns[p.graph][p.node]
    BY <2>1, HoldsGrown
  <2>. QED
    BY <2>2 DEF v
<1>3. ASSUME NEW g \in DOMAIN f PROVE Peer(ms, u, p, g, f[g])
  <2>1. Peer(ns, t, p, g, f[g]) /\ g \in Graphs
    BY DEF Entry
  <2>2. Len(ns[g]) \in Nat /\ Len(ms[g]) \in Nat /\ Len(ns[g]) <= Len(ms[g])
    BY <2>1 DEF Grown
  <2>3. f[g] \in 1 .. Len(ns[g]) /\ f[g] \in 1 .. Len(ms[g]) /\ ms[g][f[g]] = ns[g][f[g]]
    BY <2>1, <2>2 DEF Peer, Grown
  <2>4. g <= t => g <= u
    BY <2>1, GraphNumbers
  <2>. QED
    BY <1>2, <2>1, <2>3, <2>4 DEF Peer
<1>4. p.graph < t => p.graph < u
  BY <1>1, GraphNumbers
<1>. QED
  BY <1>2, <1>3, <1>4 DEF Entry

\* What TailNode gives for a tail: itself, or its Receiver in the graph.
LEMMA TailNodeHolds ==
    ASSUME Inv, NEW p \in Positions, NEW v, Holds(nodes, p, v), p.graph <= target
    PROVE  /\ Holds(nodes, TailNode(p, target), v)
           /\ TailNode(p, target) \in Positions
           /\ TailNode(p, target).graph <= target
           /\ InTarget(p, target, nodeMap) => TailNode(p, target).graph = target
<1>1. target \in Graphs /\ target \in Nat /\ target <= target
  <2>1. target \in Graphs
    BY DEF Inv, Typed
  <2>. QED
    BY <2>1, GraphNumbers
<1>2. CASE MappedIn(p, target)
  <2>. DEFINE q == At(nodeMap[p][target], target)
  <2>1. TailNode(p, target) = q /\ q.graph = target /\ q.node = nodeMap[p][target]
    BY <1>2 DEF TailNode, At
  <2>2. p \in DOMAIN nodeMap /\ target \in DOMAIN nodeMap[p] /\ Entry(nodes, target, p, nodeMap[p])
    BY <1>2 DEF MappedIn, Inv, MapInv
  <2>3. p.graph \in Graphs /\ p.graph < target
    BY <2>2 DEF Entry, Positions
  <2>4. p.graph # target
    BY <1>1, <2>3, Ranges
  <2>5. /\ nodeMap[p][target] \in 1 .. Len(nodes[target])
        /\ nodes[target][nodeMap[p][target]].kind = "receiver"
        /\ nodes[target][nodeMap[p][target]].value = nodes[p.graph][p.node].value
    BY <2>2, <2>4 DEF Entry, Peer
  <2>6. nodeMap[p][target] \in Nat
    <3>1. Len(nodes[target]) \in Nat
      BY <1>1 DEF Inv, Typed
    <3>. QED
      BY <2>5, <3>1
  <2>7. q \in Positions
    BY <1>1, <2>6 DEF At, Positions
  <2>8. Holds(nodes, q, v)
    BY <2>1, <2>5, <2>7 DEF Holds
  <2>. HIDE DEF q
  <2>. QED
    BY <1>1, <2>1, <2>7, <2>8
<1>3. CASE ~MappedIn(p, target)
  <2>1. TailNode(p, target) = p
    BY <1>3 DEF TailNode
  <2>2. InTarget(p, target, nodeMap) => p.graph = target
    BY <1>3 DEF InTarget, MappedIn
  <2>. QED
    BY <2>1, <2>2
<1>. QED
  BY <1>2, <1>3

--------------------------------------------------------------------------------
(* The invariant holds. *)

LEMMA InitInv == Init => Inv
<1>. SUFFICES ASSUME Init PROVE Inv
  OBVIOUS
<1>. DEFINE first == Node("layer", 0, <<>>, <<>>, 0, FALSE)
<1>1. /\ 0 \in Graphs /\ 0 \in 0 .. MaxLayers /\ MaxLayers \in Nat /\ 0 \in Nat
      /\ \A g \in Graphs : g \in Nat
  BY GraphNumbers
<1>2. first \in Nodes /\ first.kind = "layer" /\ first.value = 0
  BY <1>1 DEF Node, Nodes
<1>. HIDE DEF first
<1>3. nodes = [g \in Graphs |-> IF g = 0 THEN <<first>> ELSE <<>>]
  BY DEF Init, first
<1>4. nodes \in [Graphs -> Seq(Nodes)]
  BY <1>2, <1>3
<1>5. Len(nodes[0]) = 1 /\ nodes[0][1] = first
  BY <1>1, <1>3
<1>6. At(1, 0) \in Positions /\ At(1, 0).node = 1 /\ At(1, 0).graph = 0
  BY <1>1 DEF At, Positions
<1>7. TargetGraph(0) = 0
  <2>1. Start[0] <= 0 /\ 0 <= End[0]
    BY <1>1, RangesAssumption
  <2>. QED
    BY <1>1, <2>1, TargetOf
<1>8. Typed
  <2>1. Idle \in Works
    BY StreamsAssumption DEF Idle, Works
  <2>2. tails \in [Streams -> Positions] /\ meant \in [Streams -> 0 .. MaxLayers]
    BY <1>1, <1>6 DEF Init
  <2>3. /\ added = 0 /\ currentLayer = 0 /\ target = 0 /\ work = Idle
        /\ startingLayer \in BOOLEAN /\ npuHint \in BOOLEAN
    BY DEF Init
  <2>4. added \in 0 .. MaxLayers /\ currentLayer \in 0 .. added /\ target \in Graphs /\ work \in Works
    BY <1>1, <2>1, <2>3
  <2>. QED
    BY <1>4, <2>2, <2>3, <2>4 DEF Typed
<1>9. TargetInv
  <2>1. \A g \in Graphs : (g > 0 => nodes[g] = <<>>) /\ ~(g < 0)
    BY <1>1, <1>3
  <2>2. nodes[0] # <<>>
    BY <1>5
  <2>3. \A g \in Graphs \ {0} : nodes[g] = <<>>
    BY <1>3
  <2>. QED
    BY <1>7, <2>1, <2>2, <2>3 DEF Init, TargetInv
<1>10. TailInv
  <2>1. \A s \in Streams : tails[s] = At(1, 0) /\ meant[s] = 0 /\ target = 0
    BY DEF Init
  <2>. QED
    BY <1>1, <1>2, <1>5, <1>6, <2>1 DEF TailInv, Holds
<1>11. DOMAIN nodeMap = {} /\ sentTo = {} /\ work = Idle
  <2>1. DOMAIN <<>> = {}
    OBVIOUS
  <2>. QED
    BY <2>1 DEF Init
<1>12. OwnerInv
  <2>1. \A g \in Graphs : \A n \in 1 .. Len(nodes[g]) : nodes[g][n].kind = "layer"
    <3>1. ASSUME NEW g \in Graphs, NEW n \in 1 .. Len(nodes[g]) PROVE nodes[g][n].kind = "layer"
      <4>1. CASE g = 0
        BY <1>2, <1>5, <3>1, <4>1
      <4>2. CASE g # 0
        BY <1>3, <3>1, <4>2
      <4>. QED
        BY <4>1, <4>2
    <3>. QED
      BY <3>1
  <2>. QED
    BY <1>11, <2>1 DEF OwnerInv
<1>. QED
  BY <1>8, <1>9, <1>10, <1>11, <1>12 DEF Inv, WorkInv, MapInv, LinkInv

\* A step that adds no node and goes at most to a later graph.
LEMMA NoNodeAdded ==
    ASSUME Inv, Typed', UNCHANGED <<nodes, nodeMap, sentTo>>, target <= target'
    PROVE  MapInv' /\ LinkInv' /\ OwnerInv'
<1>1. /\ nodes \in [Graphs -> Seq(Nodes)] /\ target \in Graphs /\ target' \in Graphs
      /\ Grown(nodes, nodes)
  BY GrownSame DEF Inv, Typed
<1>2. ASSUME NEW p \in DOMAIN nodeMap PROVE Entry(nodes, target', p, nodeMap[p])
  BY <1>1, EntryGrown DEF Inv, MapInv
<1>3. MapInv'
  BY <1>2 DEF MapInv
<1>4. LinkInv' /\ OwnerInv'
  BY DEF Inv, LinkInv, OwnerInv
<1>. QED
  BY <1>3, <1>4

LEMMA OpenSubStreamInv ==
    ASSUME Inv, NEW s \in Streams, NEW from \in Streams, OpenSubStream(s, from)
    PROVE  Inv'
<1>. USE DEF OpenSubStream
<1>1. Typed'
  BY DEF Inv, Typed
<1>2 target <= target'
  <2>1. target \in Graphs /\ target' = target
    BY DEF Inv, Typed
  <2>. QED
    BY <2>1, GraphNumbers
<1>3. TargetInv'
  BY DEF Inv, TargetInv
<1>4. TailInv'
  BY DEF Inv, Typed, TailInv
<1>5. WorkInv'
  BY DEF WorkInv
<1>. QED
  BY <1>1, <1>2, <1>3, <1>4, <1>5, NoNodeAdded DEF Inv

LEMMA ForwardTailInv ==
    ASSUME ~ForwardAcross, Inv, NEW s \in Streams, ForwardTail(s)
    PROVE  Inv'
<1>. DEFINE p == TailNode(tails[s], target)
<1>1. /\ tails \in [Streams -> Positions] /\ meant \in [Streams -> 0 .. MaxLayers]
      /\ Main \in Streams /\ s # Main /\ tails[s].graph <= target
      /\ Holds(nodes, tails[s], meant[s])
  BY StreamsAssumption DEF Inv, Typed, TailInv, ForwardTail
<1>2. p \in Positions /\ p.graph <= target /\ Holds(nodes, p, meant[s])
  BY <1>1, TailNodeHolds
<1>3. /\ tails' = [tails EXCEPT ![s] = p, ![Main].node = p.node]
      /\ meant' = [meant EXCEPT ![Main] = meant[s]]
      /\ p.graph = tails[Main].graph
  BY DEF ForwardTail
<1>. HIDE DEF p
<1>4. [tails[Main] EXCEPT !.node = p.node] = p
  BY <1>1, <1>2, <1>3 DEF Positions
<1>5. tails' = [tails EXCEPT ![s] = p, ![Main] = p]
  BY <1>1, <1>3, <1>4
<1>6. Typed'
  <2>1. tails' \in [Streams -> Positions] /\ meant' \in [Streams -> 0 .. MaxLayers]
    BY <1>1, <1>2, <1>3, <1>5
  <2>2. Typed /\ UNCHANGED <<nodes, added, currentLayer, startingLayer, npuHint, target, work>>
    BY DEF ForwardTail, Inv
  <2>. QED
    BY <2>1, <2>2 DEF Typed
<1>7 target <= target'
  <2>1. target \in Graphs /\ target' = target
    BY DEF ForwardTail, Inv, Typed
  <2>. QED
    BY <2>1, GraphNumbers
<1>8. TargetInv'
  BY DEF ForwardTail, Inv, TargetInv
<1>9. TailInv'
  BY <1>1, <1>2, <1>3, <1>5 DEF ForwardTail, Inv, TailInv
<1>10. WorkInv'
  BY DEF ForwardTail, WorkInv
<1>. QED
  BY <1>6, <1>7, <1>8, <1>9, <1>10, NoNodeAdded DEF Inv, ForwardTail

\* A function on the first n numbers is a sequence of length n.
LEMMA ListOf ==
    ASSUME NEW S, NEW n \in Nat, NEW f \in [1 .. n -> S]
    PROVE  f \in Seq(S) /\ Len(f) = n
<1>1. f = [i \in 1 .. n |-> f[i]] /\ \A i \in 1 .. n : f[i] \in S
  OBVIOUS
<1>2. [i \in 1 .. n |-> f[i]] \in Seq(S)
  BY <1>1, IsASeq
<1>3. Len(f) \in Nat /\ DOMAIN f = 1 .. Len(f) /\ DOMAIN f = 1 .. n
  BY <1>1, <1>2, LenProperties
<1>. QED
  BY <1>1, <1>2, <1>3

\* The number and the graph of a layer that begins.
LEMMA LayerTarget ==
    ASSUME Inv, NEW starts \in BOOLEAN
    PROVE  LET n == LayerNumber(starts)
               t == TargetGraph(n)
           IN  /\ n \in 0 .. added + 1 /\ t \in Graphs
               /\ \/ t = target
                  \/ t = target + 1 /\ n = Start[t]
<1>1. currentLayer \in Nat /\ added \in Nat /\ currentLayer <= added
  BY GraphNumbers DEF Inv, Typed
<1>2. LayerNumber(starts) = currentLayer \/ LayerNumber(starts) = currentLayer + 1
  BY DEF LayerNumber
<1>3. target = TargetGraph(currentLayer)
  BY DEF Inv, TargetInv
<1>4. LayerNumber(starts) \in 0 .. added + 1 /\ LayerNumber(starts) \in Nat
  BY <1>1, <1>2
<1>5. TargetGraph(LayerNumber(starts)) \in Graphs
  BY <1>4, TargetOf
<1>6. \/ TargetGraph(currentLayer + 1) = target
      \/ /\ TargetGraph(currentLayer + 1) = target + 1
         /\ currentLayer + 1 = Start[TargetGraph(currentLayer + 1)]
  BY <1>1, <1>3, NextTarget
<1>. QED
  BY <1>2, <1>3, <1>4, <1>5, <1>6

LEMMA BeginLayerInv ==
    ASSUME ~GraphIdFirst, Inv, NEW s \in Streams, NEW subs \in Seq(Streams),
           NEW starts \in BOOLEAN, BeginLayer(s, subs, starts)
    PROVE  Inv'
<1>. DEFINE read == [i \in 1 .. Len(subs) |-> TailNode(tails[subs[i]], target)]
            want == [i \in 1 .. Len(subs) |-> meant[subs[i]]]
<1>1. /\ Len(subs) \in Nat /\ DOMAIN subs = 1 .. Len(subs)
      /\ \A i \in 1 .. Len(subs) : subs[i] \in Streams
  OBVIOUS
<1>2. /\ tails \in [Streams -> Positions] /\ meant \in [Streams -> 0 .. MaxLayers]
      /\ target \in Graphs /\ target \in Nat /\ added \in 0 .. MaxLayers /\ MaxLayers \in Nat
      /\ nodes \in [Graphs -> Seq(Nodes)] /\ npuHint \in BOOLEAN /\ startingLayer \in BOOLEAN
  BY GraphNumbers DEF Inv, Typed
<1>3. /\ work = Idle /\ added < MaxLayers /\ added' = added + 1
      /\ currentLayer' = LayerNumber(starts) /\ target' = TargetGraph(LayerNumber(starts))
      /\ npuHint' = Hint(LayerNumber(starts), target')
      /\ startingLayer' = (startingLayer /\ ~starts)
      /\ UNCHANGED <<nodes, sentTo, nodeMap, tails, meant>>
  BY DEF BeginLayer
<1>4. /\ \A i \in 1 .. Len(subs) :
           /\ read[i] \in Positions /\ read[i].graph <= target
           /\ Holds(nodes, read[i], want[i]) /\ want[i] \in 0 .. MaxLayers
      /\ tails[s] \in Positions /\ tails[s].graph <= target /\ Holds(nodes, tails[s], meant[s])
  <2>1. ASSUME NEW r \in Streams
        PROVE  /\ tails[r] \in Positions /\ tails[r].graph <= target
               /\ Holds(nodes, tails[r], meant[r])
    BY <1>2 DEF Inv, TailInv
  <2>2. ASSUME NEW r \in Streams
        PROVE  /\ TailNode(tails[r], target) \in Positions
               /\ TailNode(tails[r], target).graph <= target
               /\ Holds(nodes, TailNode(tails[r], target), meant[r])
    BY <2>1, TailNodeHolds
  <2>. QED
    BY <1>1, <1>2, <2>1, <2>2
<1>5. /\ read \in Seq(Positions) /\ Len(read) = Len(subs)
      /\ want \in Seq(0 .. MaxLayers) /\ Len(want) = Len(subs)
  <2>1. read \in [1 .. Len(subs) -> Positions] /\ want \in [1 .. Len(subs) -> 0 .. MaxLayers]
    BY <1>4
  <2>. HIDE DEF read, want
  <2>. QED
    BY <1>1, <2>1, ListOf
<1>6. /\ work'.stream = s /\ work'.subs = read
      /\ work'.wants = IF subs = <<>> THEN <<meant[s]>> ELSE want
      /\ work'.inputs = Append(read, tails[s])
      /\ work' = [stream |-> s, subs |-> read, inputs |-> Append(read, tails[s]),
                  wants |-> IF subs = <<>> THEN <<meant[s]>> ELSE want]
  <2>1. [i \in DOMAIN subs |-> Listed(tails[subs[i]])] = read
    BY <1>1 DEF Listed
  <2>. HIDE DEF read
  <2>2. [i \in DOMAIN subs |-> TailNode(tails[subs[i]], target)] = read
    BY <1>1 DEF read
  <2>. QED
    BY <1>1, <2>1, <2>2 DEF BeginLayer
<1>. HIDE DEF read, want
<1>7. /\ target' \in Graphs /\ target' \in Nat /\ target <= target'
      /\ currentLayer' \in 0 .. added' /\ added' \in 0 .. MaxLayers
      /\ \/ target' = target
         \/ target' = target + 1 /\ currentLayer' = Start[target']
  <2>1. /\ currentLayer' \in 0 .. added + 1 /\ target' \in Graphs
        /\ \/ target' = target
           \/ target' = target + 1 /\ currentLayer' = Start[target']
    BY <1>3, LayerTarget
  <2>2. target' \in Nat
    BY <2>1, GraphNumbers
  <2>. QED
    BY <1>2, <1>3, <2>1, <2>2
<1>8. /\ work'.wants \in Seq(0 .. MaxLayers) /\ work'.wants # <<>>
      /\ work'.inputs \in Seq(Positions) /\ Len(work'.inputs) = Len(read) + 1
      /\ \A i \in 1 .. Len(read) : work'.inputs[i] = read[i]
      /\ work'.inputs[Len(read) + 1] = tails[s]
      /\ work' # Idle
  <2>1. work'.wants \in Seq(0 .. MaxLayers) /\ work'.wants # <<>>
    <3>1. CASE subs = <<>>
      BY <1>2, <1>6, <3>1
    <3>2. CASE subs # <<>>
      <4>1. want # <<>>
        BY <1>1, <1>5, <3>2
      <4>. QED
        BY <1>5, <1>6, <3>2, <4>1
    <3>. QED
      BY <3>1, <3>2
  <2>2. Idle.wants = <<>>
    BY DEF Idle
  <2>3. tails[s] \in Positions
    BY <1>4
  <2>. QED
    BY <1>5, <1>6, <2>1, <2>2, <2>3
<1>9. Typed'
  <2>1. work' \in Works
    BY <1>5, <1>6, <1>8 DEF Works
  <2>2. npuHint' \in BOOLEAN
    <3>1. CASE LayerNumber(starts) = Start[target']
      BY <1>3, <3>1 DEF Hint
    <3>2. CASE LayerNumber(starts) # Start[target']
      BY <1>2, <1>3, <3>2 DEF Hint
    <3>. QED
      BY <3>1, <3>2
  <2>3. startingLayer' \in BOOLEAN
    BY <1>2, <1>3
  <2>. QED
    BY <1>2, <1>3, <1>7, <2>1, <2>2, <2>3 DEF Typed
<1>10. TargetInv'
  <2>1. npuHint' <=> target' \in NpuGraphs
    <3>1. npuHint <=> target \in NpuGraphs
      BY DEF Inv, TargetInv
    <3>2. target' = target \/ currentLayer' = Start[target']
      BY <1>7
    <3>3. npuHint' <=> IF currentLayer' = Start[target'] THEN target' \in NpuGraphs ELSE npuHint
      BY <1>3 DEF Hint
    <3>. QED
      BY <3>1, <3>2, <3>3
  <2>2. /\ \A g \in Graphs : (g > target => nodes[g] = <<>>) /\ (g < target => nodes[g] # <<>>)
        /\ nodes[target] # <<>>
        /\ \A g \in Graphs \ {0} : nodes[g] # <<>> => nodes[g][1].kind = "receiver"
    BY <1>3 DEF Inv, TargetInv
  <2>3. \A g \in Graphs : (g > target' => g > target) /\ (g < target' => g < target \/ g = target)
    BY <1>2, <1>7, GraphNumbers
  <2>4. \A g \in Graphs : (g > target' => nodes[g] = <<>>) /\ (g < target' => nodes[g] # <<>>)
    BY <2>2, <2>3
  <2>5. target' = TargetGraph(currentLayer') /\ nodes' = nodes
    BY <1>3
  <2>. QED
    BY <1>8, <2>1, <2>2, <2>4, <2>5 DEF TargetInv
<1>11. \A p \in Positions : p.graph <= target => p.graph <= target'
  <2>1. \A p \in Positions : p.graph \in Nat
    BY GraphNumbers DEF Positions
  <2>. QED
    BY <1>2, <1>7, <2>1
<1>12. TailInv'
  <2>1. \A r \in Streams : tails[r] \in Positions /\ tails[r].graph <= target
                           /\ Holds(nodes, tails[r], meant[r])
    BY <1>2 DEF Inv, TailInv
  <2>. QED
    BY <1>3, <1>11, <2>1 DEF TailInv
<1>13. WorkInv'
  <2>1. work'.subs = <<>> => work'.wants = <<meant[s]>>
    BY <1>1, <1>5, <1>6
  <2>2. work'.subs # <<>> => /\ Len(work'.wants) = Len(work'.subs)
                             /\ work'.wants = want
    BY <1>1, <1>5, <1>6
  <2>3. ASSUME NEW i \in 1 .. Len(read)
        PROVE  /\ Holds(nodes, read[i], work'.wants[i]) /\ read[i].graph <= target'
               /\ i \in 1 .. Len(work'.inputs) /\ work'.inputs[i] = read[i]
    <3>1. read # <<>> /\ work'.wants = want
      BY <1>5, <1>6, <2>2
    <3>2. i \in 1 .. Len(subs) /\ i \in 1 .. Len(work'.inputs) /\ work'.inputs[i] = read[i]
      BY <1>1, <1>5, <1>8
    <3>. QED
      BY <1>4, <1>11, <3>1, <3>2
  <2>4. /\ Len(read) + 1 \in 1 .. Len(work'.inputs)
        /\ work'.inputs[Len(read) + 1] = tails[s] /\ tails[s].graph <= target'
        /\ Holds(nodes, tails[s], meant[s])
    BY <1>1, <1>4, <1>5, <1>8, <1>11
  <2>5. ASSUME NEW i \in 1 .. Len(work'.inputs)
        PROVE  /\ work'.inputs[i].graph <= target'
               /\ \/ Holds(nodes, work'.inputs[i], meant[s])
                  \/ \E j \in 1 .. Len(work'.wants) : Holds(nodes, work'.inputs[i], work'.wants[j])
    <3>1. CASE i = Len(read) + 1
      BY <2>4, <3>1
    <3>2. CASE i # Len(read) + 1
      <4>1. i \in 1 .. Len(read) /\ work'.subs # <<>>
        BY <1>1, <1>5, <1>6, <1>8, <3>2
      <4>2. i \in 1 .. Len(work'.wants)
        BY <1>6, <2>2, <4>1
      <4>. QED
        BY <2>3, <4>1, <4>2
    <3>. QED
      BY <3>1, <3>2
  <2>6. \A i \in 1 .. Len(read) : Brought(read[i], target', nodeMap, work'.inputs)
    BY <2>3 DEF Brought
  <2>7. Brought(tails[s], target', nodeMap, work'.inputs)
    BY <2>4 DEF Brought
  <2>8. UNCHANGED <<nodes, nodeMap, tails, meant>> /\ work'.stream = s /\ work'.subs = read
    BY <1>3, <1>6
  <2>. QED
    BY <1>8, <2>1, <2>2, <2>3, <2>5, <2>6, <2>7, <2>8 DEF WorkInv
<1>. QED
  BY <1>3, <1>7, <1>9, <1>10, <1>12, <1>13, NoNodeAdded DEF Inv

--------------------------------------------------------------------------------
(* The inputs of a layer. *)

\* ms are the graphs ns, but for node N at the end of graph g.
Added(ns, g, N, ms) ==
    /\ ms \in [Graphs -> Seq(Nodes)] /\ Grown(ns, ms)
    /\ Len(ns[g]) \in Nat /\ Len(ms[g]) = Len(ns[g]) + 1
    /\ ms[g][Len(ns[g]) + 1] = N
    /\ \A h \in Graphs \ {g} : ms[h] = ns[h]

LEMMA GrownAppend ==
    ASSUME NEW ns \in [Graphs -> Seq(Nodes)], NEW g \in Graphs, NEW N \in Nodes
    PROVE  Added(ns, g, N, Adding(ns, g, N))
<1>. DEFINE ms == Adding(ns, g, N)
<1>1. /\ ns[g] \in Seq(Nodes) /\ Len(ns[g]) \in Nat /\ ms[g] = Append(ns[g], N)
      /\ \A h \in Graphs \ {g} : ms[h] = ns[h]
  BY DEF Adding
<1>2. /\ Len(ms[g]) = Len(ns[g]) + 1 /\ ms[g][Len(ns[g]) + 1] = N
      /\ \A n \in 1 .. Len(ns[g]) : ms[g][n] = ns[g][n]
  BY <1>1
<1>3. ms \in [Graphs -> Seq(Nodes)]
  BY DEF Adding
<1>. HIDE DEF ms
<1>4. ASSUME NEW h \in Graphs
      PROVE  Len(ns[h]) <= Len(ms[h]) /\ \A n \in 1 .. Len(ns[h]) : ms[h][n] = ns[h][n]
  <2>1. CASE h = g
    BY <1>1, <1>2, <2>1
  <2>2. CASE h # g
    <3>1. ms[h] = ns[h] /\ Len(ns[h]) \in Nat
      BY <1>1, <2>2
    <3>. QED
      BY <3>1
  <2>. QED
    BY <2>1, <2>2
<1>5. Grown(ns, ms)
  BY <1>4 DEF Grown
<1>. QED
  BY <1>1, <1>2, <1>3, <1>5 DEF ms, Added

LEMMA GrownTrans ==
    ASSUME NEW ns \in [Graphs -> Seq(Nodes)], NEW ms \in [Graphs -> Seq(Nodes)],
           NEW os \in [Graphs -> Seq(Nodes)], Grown(ns, ms), Grown(ms, os)
    PROVE  Grown(ns, os)
<1>1. ASSUME NEW g \in Graphs
      PROVE  Len(ns[g]) <= Len(os[g]) /\ \A n \in 1 .. Len(ns[g]) : os[g][n] = ns[g][n]
  <2>1. Len(ns[g]) \in Nat /\ Len(ms[g]) \in Nat /\ Len(os[g]) \in Nat
    OBVIOUS
  <2>2. Len(ns[g]) <= Len(ms[g]) /\ Len(ms[g]) <= Len(os[g])
    BY DEF Grown
  <2>3. ASSUME NEW n \in 1 .. Len(ns[g]) PROVE os[g][n] = ns[g][n]
    <3>1. n \in 1 .. Len(ms[g])
      BY <2>1, <2>2
    <3>. QED
      BY <3>1 DEF Grown
  <2>. QED
    BY <2>1, <2>2, <2>3
<1>. QED
  BY <1>1 DEF Grown

LEMMA InputFacts ==
    ASSUME Inv, Pending
    PROVE  /\ Input \in Positions /\ Input.graph \in Graphs /\ Input.graph <= target
           /\ Holds(nodes, Input, NodeAt(Input).value)
           /\ \/ NodeAt(Input).value = meant[work.stream]
              \/ \E j \in 1 .. Len(work.wants) : NodeAt(Input).value = work.wants[j]
           /\ Input = work.inputs[1] /\ Len(work.inputs) \in Nat
           /\ Tail(work.inputs) \in Seq(Positions)
           /\ Len(Tail(work.inputs)) = Len(work.inputs) - 1
           /\ \A i \in 1 .. Len(Tail(work.inputs)) : Tail(work.inputs)[i] = work.inputs[i + 1]
<1>1. work.inputs \in Seq(Positions) /\ work.inputs # <<>> /\ work # Idle
  BY DEF Inv, Typed, Works, Pending
<1>2. /\ Tail(work.inputs) \in Seq(Positions) /\ Len(work.inputs) \in Nat
      /\ Input = work.inputs[1] /\ Input \in Positions /\ 1 \in 1 .. Len(work.inputs)
      /\ Len(Tail(work.inputs)) = Len(work.inputs) - 1
      /\ \A i \in 1 .. Len(Tail(work.inputs)) : Tail(work.inputs)[i] = work.inputs[i + 1]
  BY <1>1, HeadTailProperties DEF Input
<1>3. /\ Input.graph <= target
      /\ \/ Holds(nodes, Input, meant[work.stream])
         \/ \E j \in 1 .. Len(work.wants) : Holds(nodes, Input, work.wants[j])
  BY <1>1, <1>2 DEF Inv, WorkInv
<1>4. \A v : Holds(nodes, Input, v) =>
        v = NodeAt(Input).value /\ Holds(nodes, Input, NodeAt(Input).value)
  BY DEF Holds, NodeAt
<1>5. Input.graph \in Graphs
  BY <1>2 DEF Positions
<1>. QED
  BY <1>2, <1>3, <1>4, <1>5

\* The tails keep their values while the graphs grow.
LEMMA TailsKept ==
    ASSUME Inv, nodes' \in [Graphs -> Seq(Nodes)], Grown(nodes, nodes'),
           UNCHANGED <<target, tails, meant>>
    PROVE  TailInv'
<1>1. ASSUME NEW s \in Streams
      PROVE  tails[s].graph <= target /\ Holds(nodes', tails[s], meant[s])
  <2>1. tails[s].graph <= target /\ Holds(nodes, tails[s], meant[s])
    BY DEF Inv, TailInv
  <2>2. nodes \in [Graphs -> Seq(Nodes)]
    BY DEF Inv, Typed
  <2>. QED
    BY <2>1, <2>2, HoldsGrown
<1>. QED
  BY <1>1 DEF TailInv

\* The layer goes on to its next input once this one is in its graph.
LEMMA NextInputWork ==
    ASSUME Inv, Pending, NextInput, nodes' \in [Graphs -> Seq(Nodes)], Grown(nodes, nodes'),
           UNCHANGED <<target, tails, meant>>, InTarget(Input, target, nodeMap'),
           \A p : InTarget(p, target, nodeMap) => InTarget(p, target, nodeMap')
    PROVE  work' \in Works /\ work' # Idle /\ WorkInv'
<1>1. /\ work \in Works /\ work # Idle /\ work.inputs # <<>> /\ work' = [work EXCEPT !.inputs = Tail(@)]
      /\ nodes \in [Graphs -> Seq(Nodes)] /\ work.wants # <<>>
  BY DEF Inv, Typed, WorkInv, Pending, NextInput
<1>2. work' \in Works /\ work'.inputs = Tail(work.inputs)
      /\ work'.stream = work.stream /\ work'.subs = work.subs /\ work'.wants = work.wants
  BY <1>1, InputFacts DEF Works
<1>3. work' # Idle
  BY <1>1, <1>2 DEF Idle
<1>4. ASSUME NEW p, Brought(p, target, nodeMap, work.inputs)
      PROVE  Brought(p, target, nodeMap', work'.inputs)
  <2>1. CASE InTarget(p, target, nodeMap)
    BY <2>1 DEF Brought
  <2>2. CASE \E i \in 1 .. Len(work.inputs) : work.inputs[i] = p
    <3>1. PICK i \in 1 .. Len(work.inputs) : work.inputs[i] = p
      BY <2>2
    <3>2. CASE i = 1
      BY <3>1, <3>2, InputFacts DEF Brought
    <3>3. CASE i # 1
      <4>1. i - 1 \in 1 .. Len(work'.inputs) /\ (i - 1) + 1 = i
        BY <1>2, <3>1, <3>3, InputFacts
      <4>2. work'.inputs[i - 1] = p
        BY <1>2, <3>1, <4>1, InputFacts
      <4>. QED
        BY <4>1, <4>2 DEF Brought
    <3>. QED
      BY <3>2, <3>3
  <2>. QED
    BY <1>4, <2>1, <2>2 DEF Brought
<1>5. \A p, v : Holds(nodes, p, v) => Holds(nodes', p, v)
  BY <1>1, HoldsGrown
<1>6. ASSUME NEW i \in 1 .. Len(work.subs)
      PROVE  /\ Holds(nodes', work.subs[i], work.wants[i]) /\ work.subs[i].graph <= target
             /\ Brought(work.subs[i], target, nodeMap', work'.inputs)
  BY <1>1, <1>4, <1>5 DEF Inv, WorkInv
<1>7. ASSUME NEW i \in 1 .. Len(work'.inputs)
      PROVE  /\ work'.inputs[i].graph <= target
             /\ \/ Holds(nodes', work'.inputs[i], meant[work.stream])
                \/ \E j \in 1 .. Len(work.wants) : Holds(nodes', work'.inputs[i], work.wants[j])
  <2>1. i + 1 \in 1 .. Len(work.inputs) /\ work'.inputs[i] = work.inputs[i + 1]
    BY <1>2, InputFacts
  <2>2. /\ work.inputs[i + 1].graph <= target
        /\ \/ Holds(nodes, work.inputs[i + 1], meant[work.stream])
           \/ \E j \in 1 .. Len(work.wants) : Holds(nodes, work.inputs[i + 1], work.wants[j])
    BY <1>1, <2>1 DEF Inv, WorkInv
  <2>. QED
    BY <1>5, <2>1, <2>2
<1>8. /\ work.subs = <<>> => work.wants = <<meant[work.stream]>>
      /\ work.subs # <<>> => Len(work.wants) = Len(work.subs)
      /\ Brought(tails[work.stream], target, nodeMap', work'.inputs)
  BY <1>1, <1>4 DEF Inv, WorkInv
<1>. QED
  BY <1>1, <1>2, <1>3, <1>6, <1>7, <1>8 DEF WorkInv

\* A graph that gets its first node while a layer's inputs are brought gets a Receiver.
LEMMA TargetKept ==
    ASSUME Inv, nodes' \in [Graphs -> Seq(Nodes)], Grown(nodes, nodes'),
           UNCHANGED <<target, currentLayer, npuHint>>, nodes'[target] # <<>> \/ work' # Idle,
           \A g \in Graphs : g > target => nodes'[g] = nodes[g],
           nodes[target] = <<>> /\ target # 0 /\ nodes'[target] # <<>>
               => nodes'[target][1].kind = "receiver"
    PROVE  TargetInv'
<1>1. /\ target \in Graphs /\ nodes \in [Graphs -> Seq(Nodes)]
      /\ \A g \in Graphs : (g > target => nodes[g] = <<>>) /\ (g < target => nodes[g] # <<>>)
      /\ \A g \in Graphs \ {0} : nodes[g] # <<>> => nodes[g][1].kind = "receiver"
  BY DEF Inv, Typed, TargetInv
<1>2. ASSUME NEW g \in Graphs, nodes[g] # <<>>
      PROVE  nodes'[g] # <<>> /\ nodes'[g][1] = nodes[g][1]
  <2>1. Len(nodes[g]) \in Nat /\ Len(nodes[g]) # 0 /\ Len(nodes'[g]) \in Nat
    BY <1>1, <1>2, EmptySeq
  <2>2. Len(nodes[g]) <= Len(nodes'[g]) /\ 1 \in 1 .. Len(nodes[g])
    BY <2>1 DEF Grown
  <2>3. nodes'[g][1] = nodes[g][1] /\ Len(nodes'[g]) # 0
    BY <2>1, <2>2 DEF Grown
  <2>. QED
    BY <2>3
<1>3. \A g \in Graphs : (g > target => nodes'[g] = <<>>) /\ (g < target => nodes'[g] # <<>>)
  BY <1>1, <1>2
<1>4. ASSUME NEW g \in Graphs \ {0}, nodes'[g] # <<>> PROVE nodes'[g][1].kind = "receiver"
  <2>1. CASE nodes[g] # <<>>
    BY <1>1, <1>2, <2>1
  <2>2. CASE nodes[g] = <<>>
    <3>1. g \in Nat /\ target \in Nat
      BY <1>1, GraphNumbers
    <3>2. g = target
      BY <1>1, <1>3, <1>4, <2>2, <3>1
    <3>. QED
      BY <1>4, <2>2, <3>2
  <2>. QED
    BY <2>1, <2>2
<1>. QED
  BY <1>3, <1>4 DEF Inv, TargetInv

LEMMA InputPresentInv == ASSUME Inv, InputPresent PROVE Inv'
<1>1. /\ Pending /\ NextInput /\ nodes \in [Graphs -> Seq(Nodes)] /\ target \in Nat
      /\ InTarget(Input, target, nodeMap)
      /\ UNCHANGED <<currentLayer, startingLayer, target, npuHint, nodes, sentTo, nodeMap,
                     tails, added, meant>>
  <2>1. target \in Graphs
    BY DEF Inv, Typed
  <2>. QED
    BY <2>1, GraphNumbers DEF InputPresent, InTarget, MappedIn, Inv, Typed
<1>2. Grown(nodes, nodes') /\ nodes' \in [Graphs -> Seq(Nodes)] /\ target <= target'
  BY <1>1, GrownSame
<1>3. work' \in Works /\ work' # Idle /\ WorkInv'
  BY <1>1, <1>2, NextInputWork
<1>4. Typed'
  BY <1>1, <1>3 DEF Inv, Typed
<1>5. TargetInv'
  BY <1>1, <1>3 DEF Inv, TargetInv
<1>6. TailInv'
  BY <1>1, <1>2, TailsKept
<1>. QED
  BY <1>1, <1>2, <1>3, <1>4, <1>5, <1>6, NoNodeAdded DEF Inv

\* node_map gets a Receiver for the input in the target graph, and with the first one the
\* Sender; the new nodes are these, and the new channel is the one from the Sender to it.
LEMMA ChannelAdded ==
    ASSUME Inv, Pending, nodes' \in [Graphs -> Seq(Nodes)], Grown(nodes, nodes'),
           target' = target, NEW f, target \in DOMAIN f, Input.graph # target,
           Entry(nodes', target, Input, f),
           DOMAIN nodeMap' = DOMAIN nodeMap \cup {Input}, nodeMap'[Input] = f,
           \A p \in DOMAIN nodeMap \ {Input} : nodeMap'[p] = nodeMap[p],
           \A g \in DOMAIN f : g = target \/ f[g] = Len(nodes[g]) + 1
                               \/ (Input \in DOMAIN nodeMap /\ g \in DOMAIN nodeMap[Input]),
           f[target] = Len(nodes[target]) + 1,
           Input \notin DOMAIN nodeMap => DOMAIN f = {Input.graph, target},
           Input \in DOMAIN nodeMap =>
               /\ DOMAIN f = DOMAIN nodeMap[Input] \cup {target}
               /\ target \notin DOMAIN nodeMap[Input]
               /\ \A g \in DOMAIN nodeMap[Input] : f[g] = nodeMap[Input][g],
           \A g \in Graphs : \A n \in 1 .. Len(nodes'[g]) :
               n \in 1 .. Len(nodes[g]) \/ (g \in DOMAIN f /\ f[g] = n),
           sentTo' = sentTo \cup {Link(Input, f, target)}
    PROVE  MapInv' /\ LinkInv' /\ OwnerInv'
<1>1. /\ nodes \in [Graphs -> Seq(Nodes)] /\ target \in Graphs /\ target \in Nat
      /\ target <= target /\ \A g \in Graphs : Len(nodes[g]) \in Nat
  <2>1. nodes \in [Graphs -> Seq(Nodes)] /\ target \in Graphs
    BY DEF Inv, Typed
  <2>. QED
    BY <2>1, GraphNumbers
<1>2. ASSUME NEW p \in DOMAIN nodeMap PROVE Entry(nodes, target, p, nodeMap[p])
  BY DEF Inv, MapInv
<1>3. ASSUME NEW p \in DOMAIN nodeMap, p # Input
      PROVE  nodeMap'[p] = nodeMap[p] /\ Entry(nodes', target, p, nodeMap'[p])
  BY <1>1, <1>2, <1>3, EntryGrown
<1>4. MapInv'
  BY <1>3 DEF MapInv
<1>5. Input.graph \in DOMAIN f /\ DOMAIN f \subseteq Graphs
  BY DEF Entry
<1>6. ASSUME NEW p \in DOMAIN nodeMap
      PROVE  /\ p.graph \in DOMAIN nodeMap[p] /\ DOMAIN nodeMap[p] \subseteq DOMAIN nodeMap'[p]
             /\ \A g \in DOMAIN nodeMap[p] : nodeMap'[p][g] = nodeMap[p][g]
  <2>1. CASE p = Input
    BY <1>2, <2>1 DEF Entry
  <2>2. CASE p # Input
    BY <1>2, <1>3, <2>2 DEF Entry
  <2>. QED
    BY <2>1, <2>2
<1>7. LinkInv'
  <2>1. ASSUME NEW c \in sentTo'
        PROVE  \E p \in DOMAIN nodeMap' :
                  \E g \in DOMAIN nodeMap'[p] \ {p.graph} : c = Link(p, nodeMap'[p], g)
    <3>1. CASE c = Link(Input, f, target)
      BY <3>1
    <3>2. CASE c \in sentTo
      <4>1. PICK p \in DOMAIN nodeMap : \E g \in DOMAIN nodeMap[p] \ {p.graph} :
               c = Link(p, nodeMap[p], g)
        BY <3>2 DEF Inv, LinkInv
      <4>2. PICK g \in DOMAIN nodeMap[p] \ {p.graph} : c = Link(p, nodeMap[p], g)
        BY <4>1
      <4>3. c = Link(p, nodeMap'[p], g) /\ g \in DOMAIN nodeMap'[p] \ {p.graph}
        BY <1>6, <4>1, <4>2 DEF Link
      <4>. QED
        BY <4>1, <4>3
    <3>. QED
      BY <2>1, <3>1, <3>2
  <2>2. ASSUME NEW p \in DOMAIN nodeMap', NEW g \in DOMAIN nodeMap'[p] \ {p.graph}
        PROVE  Link(p, nodeMap'[p], g) \in sentTo'
    <3>1. CASE p \in DOMAIN nodeMap /\ g \in DOMAIN nodeMap[p]
      <4>1. Link(p, nodeMap[p], g) \in sentTo
        BY <3>1 DEF Inv, LinkInv
      <4>2. Link(p, nodeMap'[p], g) = Link(p, nodeMap[p], g)
        BY <1>6, <3>1 DEF Link
      <4>. QED
        BY <4>1, <4>2
    <3>2. CASE ~(p \in DOMAIN nodeMap /\ g \in DOMAIN nodeMap[p])
      <4>1. p = Input
        BY <1>3, <3>2
      <4>2. g = target
        BY <2>2, <3>2, <4>1
      <4>. QED
        BY <4>1, <4>2
    <3>. QED
      BY <3>1, <3>2
  <2>. QED
    BY <2>1, <2>2 DEF LinkInv
<1>8. ASSUME NEW g \in Graphs, NEW n \in 1 .. Len(nodes'[g])
      PROVE  /\ nodes'[g][n].kind = "sender" =>
                  \E p \in DOMAIN nodeMap' : p.graph = g /\ nodeMap'[p][g] = n
             /\ nodes'[g][n].kind = "receiver" =>
                  \E p \in DOMAIN nodeMap' :
                      p.graph # g /\ g \in DOMAIN nodeMap'[p] /\ nodeMap'[p][g] = n
  <2>1. CASE n \in 1 .. Len(nodes[g])
    <3>1. nodes'[g][n] = nodes[g][n]
      BY <2>1 DEF Grown
    <3>2. nodes[g][n].kind = "sender" =>
            \E p \in DOMAIN nodeMap' : p.graph = g /\ nodeMap'[p][g] = n
      <4>1. nodes[g][n].kind = "sender" => \E p \in DOMAIN nodeMap : p.graph = g /\ nodeMap[p][g] = n
        BY <2>1 DEF Inv, OwnerInv
      <4>. QED
        BY <1>6, <4>1
    <3>3. nodes[g][n].kind = "receiver" =>
            \E p \in DOMAIN nodeMap' :
               p.graph # g /\ g \in DOMAIN nodeMap'[p] /\ nodeMap'[p][g] = n
      <4>1. nodes[g][n].kind = "receiver" =>
              \E p \in DOMAIN nodeMap : p.graph # g /\ g \in DOMAIN nodeMap[p] /\ nodeMap[p][g] = n
        BY <2>1 DEF Inv, OwnerInv
      <4>. QED
        BY <1>6, <4>1
    <3>. QED
      BY <3>1, <3>2, <3>3
  <2>2. CASE g \in DOMAIN f /\ f[g] = n
    <3>1. /\ g = Input.graph => nodes'[g][n].kind = "sender"
          /\ g # Input.graph => nodes'[g][n].kind = "receiver"
      BY <2>2 DEF Entry, Peer
    <3>. QED
      BY <2>2, <3>1
  <2>. QED
    BY <2>1, <2>2
<1>9. ASSUME NEW p \in DOMAIN nodeMap, NEW g \in DOMAIN nodeMap[p]
      PROVE  g \in Graphs /\ nodeMap[p][g] \in 1 .. Len(nodes[g])
  BY <1>2 DEF Entry, Peer
<1>10. ASSUME NEW p \in DOMAIN nodeMap, p # Input,
              NEW g \in DOMAIN nodeMap[p] \cap DOMAIN f, nodeMap[p][g] = f[g]
       PROVE  FALSE
  <2>1. nodeMap[p][g] \in 1 .. Len(nodes[g]) /\ Len(nodes[g]) \in Nat
    BY <1>1, <1>9
  <2>2. f[g] # Len(nodes[g]) + 1
    BY <1>10, <2>1
  <2>3. Input \in DOMAIN nodeMap /\ g \in DOMAIN nodeMap[Input]
    BY <2>2
  <2>4. nodeMap[p][g] = nodeMap[Input][g]
    BY <1>10, <2>3
  <2>. QED
    BY <1>10, <2>3, <2>4 DEF Inv, OwnerInv
<1>11. ASSUME NEW p \in DOMAIN nodeMap', NEW q \in DOMAIN nodeMap',
              NEW g \in DOMAIN nodeMap'[p] \cap DOMAIN nodeMap'[q], nodeMap'[p][g] = nodeMap'[q][g]
       PROVE  p = q
  <2>1. CASE p # Input /\ q # Input
    <3>1. p \in DOMAIN nodeMap /\ q \in DOMAIN nodeMap
      BY <2>1
    <3>2. nodeMap'[p] = nodeMap[p] /\ nodeMap'[q] = nodeMap[q]
      BY <2>1, <3>1
    <3>. QED
      BY <1>11, <3>1, <3>2 DEF Inv, OwnerInv
  <2>2. CASE p = Input /\ q # Input
    <3>1. q \in DOMAIN nodeMap /\ nodeMap'[q] = nodeMap[q] /\ nodeMap'[p] = f
      BY <2>2
    <3>. QED
      BY <1>10, <1>11, <2>2, <3>1
  <2>3. CASE p # Input /\ q = Input
    <3>1. p \in DOMAIN nodeMap /\ nodeMap'[p] = nodeMap[p] /\ nodeMap'[q] = f
      BY <2>3
    <3>. QED
      BY <1>10, <1>11, <2>3, <3>1
  <2>. QED
    BY <2>1, <2>2, <2>3
<1>12. OwnerInv'
  BY <1>8, <1>11 DEF OwnerInv
<1>. QED
  BY <1>4, <1>7, <1>12

\* What holds whichever way an input gets its Receiver: node N in the target graph, ms
\* being the graphs with what was added before it.
LEMMA ReceiverAdded ==
    ASSUME Inv, Pending, Input.graph # target, NextInput,
           NEW ms \in [Graphs -> Seq(Nodes)], Grown(nodes, ms), ms[target] = nodes[target],
           \A g \in Graphs : g > target => ms[g] = nodes[g],
           NEW N \in Nodes, N.kind = "receiver", nodes' = Adding(ms, target, N),
           InTarget(Input, target, nodeMap'), DOMAIN nodeMap \subseteq DOMAIN nodeMap',
           \A p \in DOMAIN nodeMap : DOMAIN nodeMap[p] \subseteq DOMAIN nodeMap'[p],
           UNCHANGED <<currentLayer, startingLayer, target, npuHint, tails, added, meant>>
    PROVE  /\ nodes' \in [Graphs -> Seq(Nodes)] /\ Grown(nodes, nodes') /\ Grown(ms, nodes')
           /\ Typed' /\ TargetInv' /\ TailInv' /\ WorkInv'
<1>1. target \in Graphs /\ target \in Nat /\ nodes \in [Graphs -> Seq(Nodes)]
  <2>1. target \in Graphs /\ nodes \in [Graphs -> Seq(Nodes)]
    BY DEF Inv, Typed
  <2>. QED
    BY <2>1, GraphNumbers
<1>2. /\ nodes' \in [Graphs -> Seq(Nodes)] /\ Grown(ms, nodes')
      /\ Len(ms[target]) \in Nat /\ Len(nodes'[target]) = Len(ms[target]) + 1
      /\ nodes'[target][Len(ms[target]) + 1] = N
      /\ \A h \in Graphs \ {target} : nodes'[h] = ms[h]
  <2>1. Added(ms, target, N, nodes')
    BY <1>1, GrownAppend
  <2>. QED
    BY <2>1 DEF Added
<1>3. Grown(nodes, nodes')
  BY <1>1, <1>2, GrownTrans
<1>4. work' \in Works /\ work' # Idle /\ WorkInv'
  <2>1. \A p : InTarget(p, target, nodeMap) => InTarget(p, target, nodeMap')
    BY DEF InTarget
  <2>. QED
    BY <1>2, <1>3, <2>1, NextInputWork
<1>5. Typed'
  BY <1>2, <1>4 DEF Inv, Typed
<1>6. TailInv'
  BY <1>2, <1>3, TailsKept
<1>7. TargetInv'
  <2>1. ASSUME NEW g \in Graphs, g > target PROVE nodes'[g] = nodes[g]
    <3>1. g # target
      BY <1>1, <2>1, GraphNumbers
    <3>2. nodes'[g] = ms[g]
      BY <1>2, <3>1
    <3>. QED
      BY <2>1, <3>2
  <2>2. nodes[target] = <<>> => nodes'[target][1] = N
    <3>1. ASSUME nodes[target] = <<>> PROVE Len(ms[target]) + 1 = 1
      BY <3>1
    <3>. QED
      BY <1>2, <3>1
  <2>. QED
    BY <1>2, <1>3, <1>4, <2>1, <2>2, TargetKept
<1>. QED
  BY <1>2, <1>3, <1>4, <1>5, <1>6, <1>7

\* The nodes that a step adds for the input: a Sender, and a Receiver in the target graph.
Brings ==
    /\ nodes' \in [Graphs -> Seq(Nodes)] /\ Grown(nodes, nodes')
    /\ \A g \in Graphs : \A n \in 1 .. Len(nodes'[g]) :
         \/ n \in 1 .. Len(nodes[g])
         \/ nodes'[g][n].kind = "sender"
         \/ /\ g = target /\ nodes'[g][n].kind = "receiver"
            /\ nodes'[g][n].value = NodeAt(Input).value

LEMMA SmallNodes ==
    ASSUME NEW v \in 0 .. MaxLayers, NEW n \in Nat, NEW h \in BOOLEAN
    PROVE  /\ Node("sender", v, <<n>>, <<>>, v, h) \in Nodes
           /\ Node("receiver", v, <<>>, <<>>, v, h) \in Nodes
  BY DEF Node, Nodes

LEMMA InputFirstUseInv ==
    ASSUME Inv, InputFirstUse
    PROVE  /\ Inv' /\ Brings
           /\ DOMAIN nodeMap' = DOMAIN nodeMap \cup {Input}
           /\ \A p \in DOMAIN nodeMap : p # Input /\ nodeMap'[p] = nodeMap[p]
           /\ DOMAIN nodeMap'[Input] = {Input.graph, target}
           /\ nodes'[target][nodeMap'[Input][target]].npu = npuHint
<1>. DEFINE g == Input.graph
            v == NodeAt(Input).value
            S == Node("sender", v, <<Input.node>>, <<>>, v, g \in NpuGraphs)
            R == Node("receiver", v, <<>>, <<>>, v, npuHint)
            ms == Adding(nodes, g, S)
            f == [h \in {g, target} |-> NewNode(h)]
<1>1. /\ nodes \in [Graphs -> Seq(Nodes)] /\ target \in Graphs /\ target \in Nat
      /\ npuHint \in BOOLEAN
  <2>1. nodes \in [Graphs -> Seq(Nodes)] /\ target \in Graphs /\ npuHint \in BOOLEAN
    BY DEF Inv, Typed
  <2>. QED
    BY <2>1, GraphNumbers
<1>2. /\ Pending /\ g # target /\ Input \notin DOMAIN nodeMap /\ NextInput
      /\ nodeMap' = WithEntry(nodeMap, Input, f)
      /\ sentTo' = sentTo \cup {<<At(NewNode(g), g), At(NewNode(target), target)>>}
      /\ UNCHANGED <<currentLayer, startingLayer, target, npuHint, tails, added, meant>>
  BY DEF InputFirstUse
<1>3. /\ Input \in Positions /\ g \in Graphs /\ g \in Nat /\ g < target
      /\ Holds(nodes, Input, v)
  <2>1. Input \in Positions /\ g \in Graphs /\ g <= target /\ Holds(nodes, Input, v)
    BY <1>2, InputFacts
  <2>2. g \in Nat
    BY <2>1, GraphNumbers
  <2>. QED
    BY <1>1, <1>2, <2>1, <2>2
<1>4. v \in 0 .. MaxLayers /\ Input.node \in Nat /\ NodeAt(Input) = nodes[g][Input.node]
  <2>1. nodes[g] \in Seq(Nodes) /\ Input.node \in 1 .. Len(nodes[g]) /\ Input.node \in Nat
    BY <1>1, <1>3 DEF Holds, Positions
  <2>2. nodes[g][Input.node] \in Nodes
    BY <2>1, ElementOfSeq
  <2>. QED
    BY <2>1, <2>2 DEF NodeAt, Nodes
<1>5. S \in Nodes /\ R \in Nodes
  <2>1. (g \in NpuGraphs) \in BOOLEAN
    OBVIOUS
  <2>. HIDE DEF v, g
  <2>. QED
    BY <1>1, <1>4, <2>1, SmallNodes
<1>6. /\ S.kind = "sender" /\ S.value = v /\ S.reads = <<Input.node>>
      /\ R.kind = "receiver" /\ R.value = v /\ R.npu = npuHint
  BY DEF Node
<1>7. nodes' = Adding(ms, target, R)
  <2>1. nodes' = [nodes EXCEPT ![g] = Append(@, S), ![target] = Append(@, R)]
    BY DEF InputFirstUse
  <2>. HIDE DEF S, R, g
  <2>. QED
    BY <1>1, <1>2, <1>3, <2>1 DEF Adding
<1>. HIDE DEF S, R, ms, v
<1>8. /\ ms \in [Graphs -> Seq(Nodes)] /\ Grown(nodes, ms)
      /\ Len(nodes[g]) \in Nat /\ Len(ms[g]) = Len(nodes[g]) + 1 /\ ms[g][Len(nodes[g]) + 1] = S
      /\ \A h \in Graphs \ {g} : ms[h] = nodes[h]
  <2>1. nodes \in [Graphs -> Seq(Nodes)] /\ g \in Graphs /\ ms = Adding(nodes, g, S)
    BY <1>1, <1>3 DEF ms
  <2>. HIDE DEF g
  <2>2. Added(nodes, g, S, ms)
    BY <1>5, <2>1, GrownAppend
  <2>. QED
    BY <2>2 DEF Added
<1>9. /\ Len(nodes[target]) \in Nat /\ Len(nodes'[target]) = Len(nodes[target]) + 1
      /\ nodes'[target][Len(nodes[target]) + 1] = R
      /\ \A h \in Graphs \ {target} : nodes'[h] = ms[h]
      /\ ms[target] = nodes[target]
  <2>1. ms[target] = nodes[target]
    BY <1>1, <1>2, <1>8
  <2>2. target \in Graphs /\ ms \in [Graphs -> Seq(Nodes)]
    BY <1>1, <1>8
  <2>3. Added(ms, target, R, nodes')
    BY <1>5, <1>7, <2>2, GrownAppend
  <2>. QED
    BY <2>1, <2>3 DEF Added
<1>10. /\ f[g] = Len(nodes[g]) + 1 /\ f[target] = Len(nodes[target]) + 1
       /\ DOMAIN f = {g, target}
  BY DEF NewNode
<1>11. /\ DOMAIN nodeMap' = DOMAIN nodeMap \cup {Input} /\ nodeMap'[Input] = f
       /\ \A p \in DOMAIN nodeMap \ {Input} : nodeMap'[p] = nodeMap[p]
  <2>. HIDE DEF f
  <2>. QED
    BY <1>2 DEF WithEntry
<1>12. sentTo' = sentTo \cup {Link(Input, f, target)}
  BY <1>2 DEF Link
<1>. HIDE DEF f
<1>13. /\ nodes' \in [Graphs -> Seq(Nodes)] /\ Grown(nodes, nodes') /\ Grown(ms, nodes')
       /\ Typed' /\ TargetInv' /\ TailInv' /\ WorkInv'
  <2>1. InTarget(Input, target, nodeMap')
    BY <1>10, <1>11 DEF InTarget
  <2>2. \A p \in DOMAIN nodeMap : DOMAIN nodeMap[p] \subseteq DOMAIN nodeMap'[p]
    BY <1>2, <1>11
  <2>3. \A h \in Graphs : h > target => ms[h] = nodes[h]
    <3>1. \A h \in Graphs : h > target => h # g
      BY <1>1, <1>3, GraphNumbers
    <3>. QED
      BY <1>8, <3>1
  <2>. QED
    BY <1>2, <1>5, <1>6, <1>7, <1>8, <1>9, <1>11, <2>1, <2>2, <2>3, ReceiverAdded
<1>14. Entry(nodes', target, Input, f)
  <2>1. /\ Holds(nodes', Input, v) /\ nodes'[g][Input.node] = nodes[g][Input.node]
        /\ nodes[g][Input.node].value = v
    <3>1. nodes[g][Input.node].value = v
      BY <1>3 DEF Holds
    <3>2. \A p, w : Holds(nodes, p, w) =>
            Holds(nodes', p, w) /\ nodes'[p.graph][p.node] = nodes[p.graph][p.node]
      BY <1>1, <1>13, HoldsGrown
    <3>. QED
      BY <1>3, <3>1, <3>2
  <2>2. Peer(nodes', target, Input, g, f[g])
    <3>1. nodes'[g] = ms[g]
      BY <1>2, <1>3, <1>9
    <3>2. f[g] \in 1 .. Len(nodes'[g]) /\ nodes'[g][f[g]] = S
      BY <1>8, <1>10, <3>1
    <3>. QED
      BY <1>6, <2>1, <3>2 DEF Peer
  <2>3. Peer(nodes', target, Input, target, f[target])
    <3>1. f[target] \in 1 .. Len(nodes'[target]) /\ nodes'[target][f[target]] = R
      BY <1>9, <1>10
    <3>2. target <= target
      BY <1>1
    <3>. QED
      BY <1>2, <1>3, <1>6, <2>1, <3>1, <3>2 DEF Peer
  <2>. QED
    BY <1>1, <1>2, <1>3, <1>10, <2>1, <2>2, <2>3 DEF Entry
<1>15. ASSUME NEW h \in Graphs, NEW n \in 1 .. Len(nodes'[h])
       PROVE  n \in 1 .. Len(nodes[h]) \/ (h \in DOMAIN f /\ f[h] = n)
  <2>1. CASE h = target
    BY <1>9, <1>10, <2>1
  <2>2. CASE h = g
    <3>1. nodes'[h] = ms[h]
      BY <1>2, <1>9, <2>2
    <3>. QED
      BY <1>8, <1>10, <2>2, <3>1
  <2>3. CASE h # target /\ h # g
    BY <1>8, <1>9, <2>3
  <2>. QED
    BY <2>1, <2>2, <2>3
<1>16. MapInv' /\ LinkInv' /\ OwnerInv'
  BY <1>2, <1>10, <1>11, <1>12, <1>13, <1>14, <1>15, ChannelAdded
<1>17. Brings
  <2>1. ASSUME NEW h \in Graphs, NEW n \in 1 .. Len(nodes'[h]), n \notin 1 .. Len(nodes[h])
        PROVE  nodes'[h][n].kind = "sender" \/ (h = target /\ nodes'[h][n] = R)
    <3>1. h \in {g, target} /\ f[h] = n
      BY <1>10, <1>15, <2>1
    <3>2. CASE h = target
      BY <1>9, <1>10, <3>1, <3>2
    <3>3. CASE h = g /\ h # target
      BY <1>6, <1>8, <1>9, <1>10, <3>1, <3>3
    <3>. QED
      BY <3>1, <3>2, <3>3
  <2>. QED
    BY <1>6, <1>13, <2>1 DEF Brings, v
<1>18. nodes'[target][nodeMap'[Input][target]].npu = npuHint
  BY <1>6, <1>9, <1>10, <1>11
<1>. QED
  BY <1>2, <1>10, <1>11, <1>13, <1>16, <1>17, <1>18 DEF Inv

LEMMA InputSentInv ==
    ASSUME Inv, InputSent
    PROVE  /\ Inv' /\ Brings
           /\ DOMAIN nodeMap' = DOMAIN nodeMap
           /\ \A p \in DOMAIN nodeMap \ {Input} : nodeMap'[p] = nodeMap[p]
           /\ DOMAIN nodeMap'[Input] = DOMAIN nodeMap[Input] \cup {target}
           /\ \A g \in DOMAIN nodeMap[Input] : nodeMap'[Input][g] = nodeMap[Input][g]
<1>. DEFINE g == Input.graph
            v == NodeAt(Input).value
            R == Node("receiver", v, <<>>, <<>>, v, NodeAt(Input).npu)
            f == WithEntry(nodeMap[Input], target, NewNode(target))
<1>1. /\ nodes \in [Graphs -> Seq(Nodes)] /\ target \in Graphs /\ target \in Nat
      /\ target <= target
  <2>1. nodes \in [Graphs -> Seq(Nodes)] /\ target \in Graphs
    BY DEF Inv, Typed
  <2>. QED
    BY <2>1, GraphNumbers
<1>2. /\ Pending /\ g # target /\ Input \in DOMAIN nodeMap /\ target \notin DOMAIN nodeMap[Input]
      /\ NextInput /\ nodeMap' = [nodeMap EXCEPT ![Input] = f]
      /\ nodes' = Adding(nodes, target, R)
      /\ sentTo' = sentTo \cup {<<At(nodeMap[Input][g], g), At(NewNode(target), target)>>}
      /\ UNCHANGED <<currentLayer, startingLayer, target, npuHint, tails, added, meant>>
  BY DEF InputSent, MappedIn, Adding
<1>3. /\ Input \in Positions /\ g \in Graphs /\ Holds(nodes, Input, v)
      /\ Entry(nodes, target, Input, nodeMap[Input])
  BY <1>2, InputFacts DEF Inv, MapInv
<1>4. g \in DOMAIN nodeMap[Input] /\ g < target /\ DOMAIN nodeMap[Input] \subseteq Graphs
  BY <1>3 DEF Entry
<1>5. R \in Nodes /\ R.kind = "receiver" /\ R.value = v
  <2>1. nodes[g] \in Seq(Nodes) /\ Input.node \in 1 .. Len(nodes[g])
    BY <1>1, <1>3 DEF Holds
  <2>2. NodeAt(Input) \in Nodes
    BY <2>1, ElementOfSeq DEF NodeAt
  <2>3. v \in 0 .. MaxLayers /\ NodeAt(Input).npu \in BOOLEAN /\ 0 \in Nat
    BY <2>2 DEF Nodes
  <2>4. R \in Nodes
    <3>. HIDE DEF v
    <3>. QED
      BY <2>3, SmallNodes
  <2>. QED
    BY <2>4 DEF Node
<1>. HIDE DEF R, v
<1>6. /\ nodes' \in [Graphs -> Seq(Nodes)] /\ Grown(nodes, nodes')
      /\ Len(nodes[target]) \in Nat /\ Len(nodes'[target]) = Len(nodes[target]) + 1
      /\ nodes'[target][Len(nodes[target]) + 1] = R
      /\ \A h \in Graphs \ {target} : nodes'[h] = nodes[h]
  <2>1. Added(nodes, target, R, nodes')
    BY <1>1, <1>2, <1>5, GrownAppend
  <2>. QED
    BY <2>1 DEF Added
<1>7. /\ DOMAIN f = DOMAIN nodeMap[Input] \cup {target} /\ f[target] = Len(nodes[target]) + 1
      /\ \A h \in DOMAIN nodeMap[Input] : f[h] = nodeMap[Input][h]
  BY <1>2 DEF WithEntry, NewNode
<1>8. sentTo' = sentTo \cup {Link(Input, f, target)}
  BY <1>2, <1>4, <1>7 DEF Link, NewNode
<1>. HIDE DEF f
<1>9. /\ DOMAIN nodeMap' = DOMAIN nodeMap \cup {Input} /\ nodeMap'[Input] = f
      /\ \A p \in DOMAIN nodeMap \ {Input} : nodeMap'[p] = nodeMap[p]
  BY <1>2
<1>10. Typed' /\ TargetInv' /\ TailInv' /\ WorkInv'
  <2>1. InTarget(Input, target, nodeMap')
    BY <1>7, <1>9 DEF InTarget
  <2>2. \A p \in DOMAIN nodeMap : DOMAIN nodeMap[p] \subseteq DOMAIN nodeMap'[p]
    BY <1>7, <1>9
  <2>3. Grown(nodes, nodes)
    BY <1>1, GrownSame
  <2>. QED
    BY <1>1, <1>2, <1>5, <1>9, <2>1, <2>2, <2>3, ReceiverAdded
<1>11. Entry(nodes', target, Input, f)
  <2>1. Entry(nodes', target, Input, nodeMap[Input])
    BY <1>1, <1>3, <1>6, EntryGrown
  <2>2. nodes'[g][Input.node].value = v
    <3>1. \A p, w : Holds(nodes, p, w) => Holds(nodes', p, w)
      BY <1>1, <1>6, HoldsGrown
    <3>2. Holds(nodes', Input, v)
      BY <1>3, <3>1
    <3>. QED
      BY <3>2 DEF Holds
  <2>3. Peer(nodes', target, Input, target, f[target])
    <3>1. f[target] \in 1 .. Len(nodes'[target]) /\ nodes'[target][f[target]] = R
      BY <1>6, <1>7
    <3>. QED
      BY <1>1, <1>2, <1>4, <1>5, <2>2, <3>1 DEF Peer
  <2>. QED
    BY <1>1, <1>7, <2>1, <2>3 DEF Entry
<1>12. ASSUME NEW h \in Graphs, NEW n \in 1 .. Len(nodes'[h])
       PROVE  n \in 1 .. Len(nodes[h]) \/ (h \in DOMAIN f /\ f[h] = n)
  <2>1. CASE h = target
    BY <1>6, <1>7, <2>1
  <2>2. CASE h # target
    BY <1>6, <2>2
  <2>. QED
    BY <2>1, <2>2
<1>13. MapInv' /\ LinkInv' /\ OwnerInv'
  BY <1>2, <1>6, <1>7, <1>8, <1>9, <1>11, <1>12, ChannelAdded
<1>14. Brings
  <2>1. ASSUME NEW h \in Graphs, NEW n \in 1 .. Len(nodes'[h]), n \notin 1 .. Len(nodes[h])
        PROVE  h = target /\ nodes'[h][n] = R
    <3>1. h = target
      BY <1>6, <2>1
    <3>. QED
      BY <1>6, <1>7, <1>12, <2>1, <3>1
  <2>. QED
    BY <1>5, <1>6, <2>1 DEF Brings, v
<1>. QED
  BY <1>2, <1>7, <1>9, <1>10, <1>13, <1>14 DEF Inv

--------------------------------------------------------------------------------
(* The layer itself. *)

\* The new layer N reads, in the target graph, a node for each value that it wants.
Reading(ns, t, N, wants) ==
    /\ N \in Nodes /\ N.kind = "layer" /\ N.wants = wants
    /\ \A i \in 1 .. Len(wants) :
         /\ N.reads[i] \in 1 .. Len(ns[t])
         /\ ns[t][N.reads[i]].kind # "sender"
         /\ ns[t][N.reads[i]].value = wants[i]

LEMMA CreateLayerFacts ==
    ASSUME Inv, CreateLayer
    PROVE  /\ work \in Works /\ work # Idle /\ nodes[target] # <<>>
           /\ tails' = [tails EXCEPT ![work.stream] = At(Len(nodes[target]) + 1, target)]
           /\ meant' = [meant EXCEPT ![work.stream] = added]
           /\ \E N \in Nodes :
                /\ nodes' = Adding(nodes, target, N)
                /\ Reading(nodes, target, N, work.wants)
                /\ N.value = added /\ N.after = meant[work.stream]
<1>. DEFINE s == work.stream
            own == IF tails[s].graph = target THEN tails[s] ELSE Find(tails[s], target)
            reads == IF work.subs = <<>> THEN <<own.node>>
                     ELSE [i \in DOMAIN work.subs |-> TailNode(work.subs[i], target).node]
            npu == reads[1] \in DOMAIN nodes[target] /\ nodes[target][reads[1]].npu
            N == Node("layer", added, reads, work.wants, meant[s], npu)
<1>1. /\ work # Idle /\ work.inputs = <<>> /\ work \in Works
      /\ nodes \in [Graphs -> Seq(Nodes)] /\ target \in Graphs
      /\ tails \in [Streams -> Positions] /\ meant \in [Streams -> 0 .. MaxLayers]
      /\ added \in 0 .. MaxLayers
  BY DEF CreateLayer, Inv, Typed
<1>2. /\ s \in Streams /\ tails[s] \in Positions /\ work.subs \in Seq(Positions)
      /\ work.wants \in Seq(0 .. MaxLayers) /\ meant[s] \in 0 .. MaxLayers
      /\ nodes[target] \in Seq(Nodes)
  BY <1>1 DEF Works
<1>3. /\ nodes' = Adding(nodes, target, N)
      /\ tails' = [tails EXCEPT ![s] = At(Len(nodes[target]) + 1, target)]
      /\ meant' = [meant EXCEPT ![s] = added]
  BY DEF CreateLayer, Adding, NewNode
<1>4. ASSUME NEW p, Brought(p, target, nodeMap, work.inputs) PROVE InTarget(p, target, nodeMap)
  BY <1>1, <1>4 DEF Brought
<1>5. own.graph = target /\ Holds(nodes, own, meant[s])
  <2>1. tails[s].graph <= target /\ Holds(nodes, tails[s], meant[s])
    BY <1>2 DEF Inv, TailInv
  <2>2. InTarget(tails[s], target, nodeMap)
    BY <1>1, <1>4 DEF Inv, WorkInv
  <2>3. CASE tails[s].graph = target
    BY <2>1, <2>3
  <2>4. CASE tails[s].graph # target
    <3>1. own = TailNode(tails[s], target)
      BY <2>2, <2>4 DEF InTarget, Find, TailNode, MappedIn
    <3>. HIDE DEF own
    <3>. QED
      BY <1>2, <2>1, <2>2, <3>1, TailNodeHolds
  <2>. QED
    BY <2>3, <2>4
<1>6. own.node \in Nat /\ nodes[target] # <<>>
  <2>. HIDE DEF own
  <2>1. own.node \in Nat /\ own.node \in 1 .. Len(nodes[target])
    BY <1>5 DEF Holds, Positions
  <2>. QED
    BY <2>1
<1>7. ASSUME NEW i \in 1 .. Len(work.subs)
      PROVE  /\ TailNode(work.subs[i], target) \in Positions
             /\ TailNode(work.subs[i], target).graph = target
             /\ Holds(nodes, TailNode(work.subs[i], target), work.wants[i])
  <2>1. /\ Holds(nodes, work.subs[i], work.wants[i]) /\ work.subs[i].graph <= target
        /\ InTarget(work.subs[i], target, nodeMap) /\ work.subs[i] \in Positions
    BY <1>1, <1>2, <1>4 DEF Inv, WorkInv
  <2>. QED
    BY <2>1, TailNodeHolds
<1>. HIDE DEF own
<1>8. reads \in Seq(Nat)
  <2>1. CASE work.subs = <<>>
    BY <1>6, <2>1
  <2>2. CASE work.subs # <<>>
    <3>1. Len(work.subs) \in Nat /\ DOMAIN work.subs = 1 .. Len(work.subs)
      BY <1>2
    <3>2. reads = [i \in 1 .. Len(work.subs) |-> TailNode(work.subs[i], target).node]
      BY <2>2, <3>1
    <3>3. \A i \in 1 .. Len(work.subs) : TailNode(work.subs[i], target).node \in Nat
      BY <1>7 DEF Positions
    <3>4. reads \in [1 .. Len(work.subs) -> Nat]
      BY <3>2, <3>3
    <3>. HIDE DEF reads
    <3>. QED
      BY <3>1, <3>4, ListOf
  <2>. QED
    BY <2>1, <2>2
<1>9. ASSUME NEW i \in 1 .. Len(work.wants)
      PROVE  /\ reads[i] \in 1 .. Len(nodes[target])
             /\ nodes[target][reads[i]].kind # "sender"
             /\ nodes[target][reads[i]].value = work.wants[i]
  <2>1. CASE work.subs = <<>>
    <3>1. work.wants = <<meant[s]>>
      BY <1>1, <2>1 DEF Inv, WorkInv
    <3>2. i = 1 /\ reads[i] = own.node /\ work.wants[i] = meant[s]
      BY <2>1, <3>1
    <3>. HIDE DEF reads
    <3>. QED
      BY <1>5, <3>2 DEF Holds
  <2>2. CASE work.subs # <<>>
    <3>1. /\ i \in 1 .. Len(work.subs) /\ DOMAIN work.subs = 1 .. Len(work.subs)
      BY <1>1, <1>2, <2>2 DEF Inv, WorkInv
    <3>2. reads[i] = TailNode(work.subs[i], target).node
      BY <2>2, <3>1
    <3>. HIDE DEF reads
    <3>. QED
      BY <1>7, <3>1, <3>2 DEF Holds
  <2>. QED
    BY <2>1, <2>2
<1>10. npu \in BOOLEAN
  <2>. HIDE DEF reads
  <2>. QED
    OBVIOUS
<1>. HIDE DEF reads, npu, s
<1>11. /\ N \in Nodes /\ N.kind = "layer" /\ N.wants = work.wants /\ N.reads = reads
       /\ N.value = added /\ N.after = meant[s]
  BY <1>1, <1>2, <1>8, <1>10 DEF Node, Nodes
<1>. HIDE DEF N
<1>12. Reading(nodes, target, N, work.wants)
  BY <1>9, <1>11 DEF Reading
<1>. QED
  BY <1>1, <1>3, <1>6, <1>11, <1>12 DEF s

LEMMA CreateLayerInv ==
    ASSUME Inv, CreateLayer
    PROVE  /\ Inv' /\ Grown(nodes, nodes')
           /\ \A g \in Graphs : \A n \in 1 .. Len(nodes'[g]) :
                \/ n \in 1 .. Len(nodes[g])
                \/ /\ g = target /\ n = Len(nodes[target]) + 1
                   /\ Reading(nodes, target, nodes'[g][n], work.wants)
                   /\ nodes'[g][n].after = meant[work.stream]
           /\ \E n \in 1 .. Len(nodes'[target]) : n \notin 1 .. Len(nodes[target])
<1>1. /\ nodes \in [Graphs -> Seq(Nodes)] /\ target \in Graphs /\ target \in Nat
      /\ target <= target /\ tails \in [Streams -> Positions]
      /\ meant \in [Streams -> 0 .. MaxLayers] /\ added \in 0 .. MaxLayers
  <2>1. target \in Graphs
    BY DEF Inv, Typed
  <2>. QED
    BY <2>1, GraphNumbers DEF Inv, Typed
<1>2. /\ work' = Idle /\ UNCHANGED <<currentLayer, startingLayer, target, npuHint, sentTo,
                                     nodeMap, added>>
  BY DEF CreateLayer
<1>3. PICK N \in Nodes : /\ nodes' = Adding(nodes, target, N)
                         /\ Reading(nodes, target, N, work.wants) /\ N.value = added
                         /\ N.after = meant[work.stream]
  BY CreateLayerFacts
<1>4. /\ work.stream \in Streams /\ nodes[target] # <<>>
      /\ tails' = [tails EXCEPT ![work.stream] = At(Len(nodes[target]) + 1, target)]
      /\ meant' = [meant EXCEPT ![work.stream] = added]
  BY CreateLayerFacts DEF Works
<1>5. /\ nodes' \in [Graphs -> Seq(Nodes)] /\ Grown(nodes, nodes')
      /\ Len(nodes[target]) \in Nat /\ Len(nodes'[target]) = Len(nodes[target]) + 1
      /\ nodes'[target][Len(nodes[target]) + 1] = N
      /\ \A h \in Graphs \ {target} : nodes'[h] = nodes[h]
  <2>1. ASSUME NEW h \in Graphs, NEW M \in Nodes
        PROVE  /\ Adding(nodes, h, M) \in [Graphs -> Seq(Nodes)]
               /\ Grown(nodes, Adding(nodes, h, M))
               /\ Len(nodes[h]) \in Nat /\ Len(Adding(nodes, h, M)[h]) = Len(nodes[h]) + 1
               /\ Adding(nodes, h, M)[h][Len(nodes[h]) + 1] = M
               /\ \A k \in Graphs \ {h} : Adding(nodes, h, M)[k] = nodes[k]
    <3>1. nodes \in [Graphs -> Seq(Nodes)]
      BY <1>1
    <3>2. Added(nodes, h, M, Adding(nodes, h, M))
      BY <3>1, GrownAppend
    <3>. QED
      BY <3>2 DEF Added
  <2>. QED
    BY <1>1, <1>3, <2>1
<1>6. N.kind = "layer"
  BY <1>3 DEF Reading
<1>7. At(Len(nodes[target]) + 1, target) \in Positions
  BY <1>1, <1>5 DEF At, Positions
<1>8. Typed'
  <2>1. tails' \in [Streams -> Positions] /\ meant' \in [Streams -> 0 .. MaxLayers]
    BY <1>1, <1>4, <1>7
  <2>2. Idle \in Works
    BY StreamsAssumption DEF Idle, Works
  <2>. QED
    BY <1>2, <1>5, <2>1, <2>2 DEF Inv, Typed
<1>9. TargetInv'
  <2>1. nodes'[target] # <<>>
    BY <1>5
  <2>2. ASSUME NEW g \in Graphs, g > target PROVE nodes'[g] = nodes[g]
    <3>1. g # target
      BY <1>1, <2>2, GraphNumbers
    <3>. QED
      BY <1>5, <3>1
  <2>. QED
    BY <1>2, <1>4, <1>5, <2>1, <2>2, TargetKept
<1>10. TailInv'
  <2>1. ASSUME NEW r \in Streams
        PROVE  tails'[r].graph <= target /\ Holds(nodes', tails'[r], meant'[r])
    <3>1. CASE r = work.stream
      <4>1. tails'[r] = At(Len(nodes[target]) + 1, target) /\ meant'[r] = added
        BY <1>1, <1>4, <3>1
      <4>2. tails'[r].graph = target /\ tails'[r].node = Len(nodes[target]) + 1
        BY <4>1 DEF At
      <4>3. tails'[r].node \in 1 .. Len(nodes'[target]) /\ nodes'[target][tails'[r].node] = N
        BY <1>5, <4>2
      <4>. QED
        BY <1>1, <1>3, <1>6, <1>7, <4>1, <4>2, <4>3 DEF Holds
    <3>2. CASE r # work.stream
      <4>1. tails'[r] = tails[r] /\ meant'[r] = meant[r]
        BY <1>1, <1>4, <3>2
      <4>2. tails[r].graph <= target /\ Holds(nodes, tails[r], meant[r])
        BY DEF Inv, TailInv
      <4>3. \A p, w : Holds(nodes, p, w) => Holds(nodes', p, w)
        BY <1>1, <1>5, HoldsGrown
      <4>. QED
        BY <4>1, <4>2, <4>3
    <3>. QED
      BY <3>1, <3>2
  <2>. QED
    BY <1>2, <2>1 DEF TailInv
<1>11. MapInv'
  <2>1. ASSUME NEW p \in DOMAIN nodeMap PROVE Entry(nodes', target, p, nodeMap[p])
    <3>1. Entry(nodes, target, p, nodeMap[p])
      BY DEF Inv, MapInv
    <3>. QED
      BY <1>1, <1>5, <3>1, EntryGrown
  <2>. QED
    BY <1>2, <2>1 DEF MapInv
<1>12. LinkInv'
  BY <1>2 DEF Inv, LinkInv
<1>13. OwnerInv'
  <2>1. ASSUME NEW g \in Graphs, NEW n \in 1 .. Len(nodes'[g])
        PROVE  \/ n \in 1 .. Len(nodes[g]) /\ nodes'[g][n] = nodes[g][n]
               \/ nodes'[g][n].kind = "layer"
    <3>1. CASE g = target /\ n = Len(nodes[target]) + 1
      BY <1>5, <1>6, <3>1
    <3>2. CASE ~(g = target /\ n = Len(nodes[target]) + 1)
      <4>1. n \in 1 .. Len(nodes[g])
        BY <1>5, <3>2
      <4>. QED
        BY <1>5, <4>1 DEF Grown
    <3>. QED
      BY <3>1, <3>2
  <2>. QED
    BY <1>2, <2>1 DEF Inv, OwnerInv
<1>14. Inv'
  BY <1>2, <1>8, <1>9, <1>10, <1>11, <1>12, <1>13 DEF Inv, WorkInv
<1>15. ASSUME NEW g \in Graphs, NEW n \in 1 .. Len(nodes'[g]), n \notin 1 .. Len(nodes[g])
       PROVE  /\ g = target /\ n = Len(nodes[target]) + 1
              /\ nodes'[g][n] = N
  <2>1. g = target
    BY <1>5, <1>15
  <2>. QED
    BY <1>5, <1>15, <2>1
<1>16. \E n \in 1 .. Len(nodes'[target]) : n \notin 1 .. Len(nodes[target])
  <2>1. Len(nodes[target]) + 1 \in 1 .. Len(nodes'[target])
    BY <1>5
  <2>2. Len(nodes[target]) + 1 \notin 1 .. Len(nodes[target])
    BY <1>5
  <2>. QED
    BY <2>1, <2>2
<1>. QED
  BY <1>3, <1>5, <1>14, <1>15, <1>16

LEMMA NextInv ==
    ASSUME ~GraphIdFirst, ~ForwardAcross, Inv, [Next]_vars
    PROVE  Inv'
<1>1. ASSUME NEW s \in Streams, NEW from \in Streams, OpenSubStream(s, from) PROVE Inv'
  BY <1>1, OpenSubStreamInv
<1>2. ASSUME NEW s \in Streams, ForwardTail(s) PROVE Inv'
  BY <1>2, ForwardTailInv
<1>3. ASSUME NEW s \in Streams, NEW starts \in BOOLEAN, NEW subs \in Joins,
             BeginLayer(s, subs, starts)
      PROVE  Inv'
  <2>1. subs \in Seq(Streams)
    <3>1. CASE subs = <<>>
      BY <3>1
    <3>2. CASE subs # <<>>
      <4>1. subs \in {<<a, b>> : a, b \in SubStreams}
        <5>. HIDE DEF SubStreams
        <5>. QED
          BY <3>2 DEF Joins
      <4>2. PICK a \in SubStreams, b \in SubStreams : subs = <<a, b>>
        BY <4>1
      <4>3. a \in Streams /\ b \in Streams
        BY DEF SubStreams
      <4>. QED
        BY <4>2, <4>3
    <3>. QED
      BY <3>1, <3>2
  <2>. QED
    BY <1>3, <2>1, BeginLayerInv
<1>4. CASE InputPresent
  BY <1>4, InputPresentInv
<1>5. CASE InputFirstUse
  BY <1>5, InputFirstUseInv
<1>6. CASE InputSent
  BY <1>6, InputSentInv
<1>7. CASE CreateLayer
  BY <1>7, CreateLayerInv
<1>8. CASE UNCHANGED vars
  <2>1. Typed' /\ TargetInv'
    BY <1>8 DEF vars, Inv, Typed, TargetInv
  <2>2. TailInv' /\ WorkInv'
    BY <1>8 DEF vars, Inv, TailInv, WorkInv
  <2>3. MapInv' /\ LinkInv' /\ OwnerInv'
    BY <1>8 DEF vars, Inv, MapInv, LinkInv, OwnerInv
  <2>. QED
    BY <2>1, <2>2, <2>3 DEF Inv
<1>9. CASE Next
  <2>1. ASSUME NEW s \in Streams, NEW starts \in BOOLEAN,
               \E subs \in {j \in Joins : j = <<>> \/ j[1] # j[2]} : BeginLayer(s, subs, starts)
        PROVE  Inv'
    BY <1>3, <2>1
  <2>. QED
    BY <1>1, <1>2, <2>1, <1>4, <1>5, <1>6, <1>7, <1>9 DEF Next
<1>. QED
  BY <1>8, <1>9

--------------------------------------------------------------------------------
(* What holds of the nodes once they are there. *)

\* Layer n of graph g reads what it wants, as LayersReadTheirInputs has it.
ReadsInputs(ns, g, n) ==
    \A i \in DOMAIN ns[g][n].wants :
        /\ ns[g][n].reads[i] \in 1 .. n - 1
        /\ ns[g][ns[g][n].reads[i]].kind # "sender"
        /\ ns[g][ns[g][n].reads[i]].value = ns[g][n].wants[i]

ReadsInv ==
    \A g \in Graphs : \A n \in 1 .. Len(nodes[g]) :
        nodes[g][n].kind = "layer" => ReadsInputs(nodes, g, n)

\* A layer of graph g has asked for v, or the one being added asks for it.
Asked(ns, g, v) ==
    \E n \in 1 .. Len(ns[g]) :
        /\ ns[g][n].kind = "layer"
        /\ v = ns[g][n].after \/ \E i \in DOMAIN ns[g][n].wants : v = ns[g][n].wants[i]

Wanted(v) == v = meant[work.stream] \/ \E i \in DOMAIN work.wants : v = work.wants[i]

StrayInv ==
    \A g \in Graphs : \A n \in 1 .. Len(nodes[g]) :
        nodes[g][n].kind = "receiver" =>
            \/ Asked(nodes, g, nodes[g][n].value)
            \/ work # Idle /\ g = target /\ Wanted(nodes[g][n].value)

\* A position's Receiver has the hint of its graph, unless an earlier graph has one too.
Hinted(ns, p, f) ==
    \A g \in DOMAIN f \ {p.graph} :
        \/ ns[g][f[g]].npu <=> g \in NpuGraphs
        \/ \E h \in DOMAIN f \ {p.graph} : h < g

FirstInv == \A p \in DOMAIN nodeMap : Hinted(nodes, p, nodeMap[p])

Strong == Inv /\ ReadsInv /\ StrayInv /\ FirstInv

LEMMA LayerKept ==
    ASSUME Inv, nodes' \in [Graphs -> Seq(Nodes)], Grown(nodes, nodes'), ReadsInv,
           NEW g \in Graphs, NEW n \in 1 .. Len(nodes[g]), nodes[g][n].kind = "layer"
    PROVE  ReadsInputs(nodes', g, n)
<1>1. Len(nodes[g]) \in Nat /\ ReadsInputs(nodes, g, n)
  BY DEF Inv, Typed, ReadsInv
<1>2. \A m \in 1 .. Len(nodes[g]) : nodes'[g][m] = nodes[g][m]
  BY DEF Grown
<1>3. nodes'[g][n] = nodes[g][n] /\ \A m \in 1 .. n - 1 : nodes'[g][m] = nodes[g][m]
  BY <1>1, <1>2
<1>. QED
  BY <1>1, <1>3 DEF ReadsInputs

LEMMA AskedGrown ==
    ASSUME NEW ns \in [Graphs -> Seq(Nodes)], NEW ms \in [Graphs -> Seq(Nodes)],
           Grown(ns, ms), NEW g \in Graphs, NEW v, Asked(ns, g, v)
    PROVE  Asked(ms, g, v)
<1>1. PICK n \in 1 .. Len(ns[g]) :
         /\ ns[g][n].kind = "layer"
         /\ v = ns[g][n].after \/ \E i \in DOMAIN ns[g][n].wants : v = ns[g][n].wants[i]
  BY DEF Asked
<1>2. Len(ns[g]) \in Nat /\ Len(ms[g]) \in Nat /\ Len(ns[g]) <= Len(ms[g])
  BY DEF Grown
<1>3. n \in 1 .. Len(ms[g]) /\ ms[g][n] = ns[g][n]
  BY <1>2 DEF Grown
<1>. QED
  BY <1>1, <1>3 DEF Asked

LEMMA HintedGrown ==
    ASSUME NEW ns \in [Graphs -> Seq(Nodes)], NEW ms \in [Graphs -> Seq(Nodes)],
           Grown(ns, ms), NEW t, NEW p, NEW f, Entry(ns, t, p, f), Hinted(ns, p, f)
    PROVE  Hinted(ms, p, f)
<1>1. ASSUME NEW g \in DOMAIN f PROVE ms[g][f[g]] = ns[g][f[g]]
  BY DEF Entry, Peer, Grown
<1>. QED
  BY <1>1 DEF Hinted

LEMMA InitStrong == Init => Strong
<1>. SUFFICES ASSUME Init PROVE Strong
  OBVIOUS
<1>. DEFINE first == Node("layer", 0, <<>>, <<>>, 0, FALSE)
<1>1. first.kind = "layer" /\ DOMAIN first.wants = {}
  BY DEF Node
<1>. HIDE DEF first
<1>2. ASSUME NEW g \in Graphs, NEW n \in 1 .. Len(nodes[g]) PROVE nodes[g][n] = first
  <2>1. nodes[g] = IF g = 0 THEN <<first>> ELSE <<>>
    BY DEF Init, first
  <2>2. CASE g = 0
    BY <1>2, <2>1, <2>2
  <2>3. CASE g # 0
    BY <1>2, <2>1, <2>3
  <2>. QED
    BY <2>2, <2>3
<1>3. ReadsInv
  <2>1. ASSUME NEW g \in Graphs, NEW n \in 1 .. Len(nodes[g]) PROVE ReadsInputs(nodes, g, n)
    BY <1>1, <1>2 DEF ReadsInputs
  <2>. QED
    BY <2>1 DEF ReadsInv
<1>4. StrayInv
  BY <1>1, <1>2 DEF StrayInv
<1>5. FirstInv
  <2>1. DOMAIN <<>> = {} /\ nodeMap = <<>>
    BY DEF Init
  <2>. QED
    BY <2>1 DEF FirstInv
<1>. QED
  BY <1>3, <1>4, <1>5, InitInv DEF Strong

\* A step of the streams adds no node, and starts from no layer being added.
LEMMA StreamStepStrong ==
    ASSUME Strong, Inv', work = Idle, UNCHANGED <<nodes, nodeMap>>
    PROVE  Strong'
<1>1. ReadsInv'
  BY DEF Strong, ReadsInv
<1>2. StrayInv'
  BY DEF Strong, StrayInv
<1>3. FirstInv'
  BY DEF Strong, FirstInv
<1>. QED
  BY <1>1, <1>2, <1>3 DEF Strong

\* Bringing an input adds at most a Receiver that the layer being added asks for.
LEMMA BringsStrong ==
    ASSUME Strong, Pending, NextInput, Brings, UNCHANGED <<target, meant>>
    PROVE  ReadsInv' /\ StrayInv'
<1>1. Inv /\ nodes \in [Graphs -> Seq(Nodes)] /\ work # Idle
  BY DEF Strong, Inv, Typed, Pending
<1>2. ReadsInv'
  <2>1. ASSUME NEW g \in Graphs, NEW n \in 1 .. Len(nodes'[g]), nodes'[g][n].kind = "layer"
        PROVE  ReadsInputs(nodes', g, n)
    <3>1. n \in 1 .. Len(nodes[g])
      BY <2>1 DEF Brings
    <3>2. nodes[g][n].kind = "layer"
      BY <2>1, <3>1 DEF Brings, Grown
    <3>. QED
      BY <1>1, <3>1, <3>2, LayerKept DEF Strong, Brings
  <2>. QED
    BY <2>1 DEF ReadsInv
<1>3. /\ work'.stream = work.stream /\ work'.wants = work.wants /\ work' # Idle
  <2>1. /\ work \in Works /\ work.wants # <<>> /\ work' = [work EXCEPT !.inputs = Tail(@)]
    BY <1>1 DEF Inv, Typed, WorkInv, NextInput
  <2>2. work'.stream = work.stream /\ work'.wants = work.wants
    BY <2>1 DEF Works
  <2>. QED
    BY <2>1, <2>2 DEF Idle
<1>4. Wanted(NodeAt(Input).value)
  <2>1. DOMAIN work.wants = 1 .. Len(work.wants)
    BY <1>1 DEF Inv, Typed, Works
  <2>. QED
    BY <1>1, <2>1, InputFacts DEF Wanted
<1>5. \A v : Wanted(v)' <=> Wanted(v)
  BY <1>3 DEF Wanted
<1>6. ASSUME NEW g \in Graphs, NEW n \in 1 .. Len(nodes'[g]), nodes'[g][n].kind = "receiver"
      PROVE  \/ Asked(nodes', g, nodes'[g][n].value)
             \/ g = target /\ Wanted(nodes'[g][n].value)
  <2>1. CASE n \in 1 .. Len(nodes[g])
    <3>1. nodes'[g][n] = nodes[g][n]
      BY <2>1 DEF Brings, Grown
    <3>2. Asked(nodes, g, nodes[g][n].value) \/ (g = target /\ Wanted(nodes[g][n].value))
      BY <1>6, <2>1, <3>1 DEF Strong, StrayInv
    <3>3. \A v : Asked(nodes, g, v) => Asked(nodes', g, v)
      BY <1>1, AskedGrown DEF Brings
    <3>. QED
      BY <3>1, <3>2, <3>3
  <2>2. CASE n \notin 1 .. Len(nodes[g])
    BY <1>4, <1>6, <2>2 DEF Brings
  <2>. QED
    BY <2>1, <2>2
<1>7. StrayInv'
  BY <1>3, <1>5, <1>6 DEF StrayInv
<1>. QED
  BY <1>2, <1>7

LEMMA NextStrong ==
    ASSUME ~GraphIdFirst, ~ForwardAcross, Strong, [Next]_vars
    PROVE  Strong'
<1>1. Inv /\ Inv'
  BY NextInv DEF Strong
<1>2. CASE UNCHANGED vars
  BY <1>1, <1>2 DEF vars, Strong, ReadsInv, StrayInv, Wanted, FirstInv
<1>3. ASSUME NEW s \in Streams, NEW from \in Streams, OpenSubStream(s, from) PROVE Strong'
  BY <1>1, <1>3, StreamStepStrong DEF OpenSubStream
<1>4. ASSUME NEW s \in Streams, ForwardTail(s) PROVE Strong'
  BY <1>1, <1>4, StreamStepStrong DEF ForwardTail
<1>5. ASSUME NEW s \in Streams, NEW starts \in BOOLEAN, NEW subs, BeginLayer(s, subs, starts)
      PROVE  Strong'
  BY <1>1, <1>5, StreamStepStrong DEF BeginLayer
<1>6. CASE InputPresent
  <2>1. Pending /\ NextInput /\ UNCHANGED <<nodes, nodeMap, target, meant>>
    BY <1>6 DEF InputPresent
  <2>2. Brings
    <3>1. nodes \in [Graphs -> Seq(Nodes)]
      BY <1>1 DEF Inv, Typed
    <3>2. Grown(nodes, nodes)
      BY <3>1, GrownSame
    <3>. QED
      BY <2>1, <3>1, <3>2 DEF Brings
  <2>3. FirstInv'
    BY <2>1 DEF Strong, FirstInv
  <2>. QED
    BY <1>1, <2>1, <2>2, <2>3, BringsStrong DEF Strong
<1>7. CASE InputFirstUse
  <2>1. /\ Pending /\ NextInput /\ UNCHANGED <<target, meant>> /\ Input.graph # target
    BY <1>7 DEF InputFirstUse
  <2>2. /\ Brings /\ DOMAIN nodeMap' = DOMAIN nodeMap \cup {Input}
        /\ \A p \in DOMAIN nodeMap : p # Input /\ nodeMap'[p] = nodeMap[p]
        /\ DOMAIN nodeMap'[Input] = {Input.graph, target}
        /\ nodes'[target][nodeMap'[Input][target]].npu = npuHint
    BY <1>1, <1>7, InputFirstUseInv
  <2>3. Hinted(nodes', Input, nodeMap'[Input])
    <3>1. npuHint <=> target \in NpuGraphs
      BY <1>1 DEF Inv, TargetInv
    <3>. QED
      BY <2>2, <3>1 DEF Hinted
  <2>4. ASSUME NEW p \in DOMAIN nodeMap PROVE Hinted(nodes', p, nodeMap'[p])
    <3>1. /\ Entry(nodes, target, p, nodeMap[p]) /\ Hinted(nodes, p, nodeMap[p])
          /\ nodes \in [Graphs -> Seq(Nodes)] /\ nodeMap'[p] = nodeMap[p]
      BY <2>2 DEF Strong, Inv, Typed, MapInv, FirstInv
    <3>. QED
      BY <2>2, <3>1, HintedGrown DEF Brings
  <2>5. FirstInv'
    BY <2>2, <2>3, <2>4 DEF FirstInv
  <2>. QED
    BY <1>1, <2>1, <2>2, <2>5, BringsStrong DEF Strong
<1>8. CASE InputSent
  <2>1. /\ Pending /\ NextInput /\ UNCHANGED <<target, meant>> /\ Input.graph # target
        /\ Input \in DOMAIN nodeMap /\ target \notin DOMAIN nodeMap[Input]
    BY <1>8 DEF InputSent, MappedIn
  <2>2. /\ Brings /\ DOMAIN nodeMap' = DOMAIN nodeMap
        /\ \A p \in DOMAIN nodeMap \ {Input} : nodeMap'[p] = nodeMap[p]
        /\ DOMAIN nodeMap'[Input] = DOMAIN nodeMap[Input] \cup {target}
        /\ \A g \in DOMAIN nodeMap[Input] : nodeMap'[Input][g] = nodeMap[Input][g]
    BY <1>1, <1>8, InputSentInv
  <2>3. ASSUME NEW p \in DOMAIN nodeMap
        PROVE  Entry(nodes, target, p, nodeMap[p]) /\ Hinted(nodes', p, nodeMap[p])
    <3>1. /\ Entry(nodes, target, p, nodeMap[p]) /\ Hinted(nodes, p, nodeMap[p])
          /\ nodes \in [Graphs -> Seq(Nodes)]
      BY DEF Strong, Inv, Typed, MapInv, FirstInv
    <3>. QED
      BY <2>2, <3>1, HintedGrown DEF Brings
  <2>4. Hinted(nodes', Input, nodeMap'[Input])
    <3>1. PICK h \in DOMAIN nodeMap[Input] \ {Input.graph} : h \in Graphs /\ h < target
      <4>1. /\ \E h \in DOMAIN nodeMap[Input] : h # Input.graph
            /\ \A h \in DOMAIN nodeMap[Input] : Peer(nodes, target, Input, h, nodeMap[Input][h])
            /\ DOMAIN nodeMap[Input] \subseteq Graphs
        BY <2>1, <2>3 DEF Entry
      <4>2. PICK h \in DOMAIN nodeMap[Input] : h # Input.graph
        BY <4>1
      <4>3. h \in Graphs /\ h <= target /\ h # target /\ target \in Graphs
        BY <1>1, <2>1, <4>1, <4>2 DEF Peer, Inv, Typed
      <4>4. h < target
        BY <4>3, GraphNumbers
      <4>. QED
        BY <4>2, <4>3, <4>4
    <3>2. ASSUME NEW g \in DOMAIN nodeMap'[Input] \ {Input.graph}
          PROVE  \/ nodes'[g][nodeMap'[Input][g]].npu <=> g \in NpuGraphs
                 \/ \E k \in DOMAIN nodeMap'[Input] \ {Input.graph} : k < g
      <4>1. CASE g = target
        BY <2>2, <3>1, <4>1
      <4>2. CASE g # target
        <5>1. /\ g \in DOMAIN nodeMap[Input] \ {Input.graph}
              /\ nodeMap'[Input][g] = nodeMap[Input][g]
          BY <2>2, <3>2, <4>2
        <5>2. Hinted(nodes', Input, nodeMap[Input]) /\ DOMAIN nodeMap[Input] \subseteq DOMAIN nodeMap'[Input]
          BY <2>1, <2>2, <2>3
        <5>. QED
          BY ONLY <5>1, <5>2 DEF Hinted
      <4>. QED
        BY <4>1, <4>2
    <3>. QED
      BY <3>2 DEF Hinted
  <2>5. FirstInv'
    BY <2>2, <2>3, <2>4 DEF FirstInv
  <2>. QED
    BY <1>1, <2>1, <2>2, <2>5, BringsStrong DEF Strong
<1>9. CASE CreateLayer
  <2>1. /\ nodes \in [Graphs -> Seq(Nodes)] /\ nodes' \in [Graphs -> Seq(Nodes)]
        /\ target \in Graphs /\ Len(nodes[target]) \in Nat
        /\ work.wants \in Seq(0 .. MaxLayers) /\ DOMAIN work.wants = 1 .. Len(work.wants)
    <3>1. /\ nodes \in [Graphs -> Seq(Nodes)] /\ nodes' \in [Graphs -> Seq(Nodes)]
          /\ target \in Graphs /\ work \in Works
      BY <1>1 DEF Inv, Typed
    <3>2. work.wants \in Seq(0 .. MaxLayers)
      BY <3>1 DEF Works
    <3>. QED
      BY <3>1, <3>2
  <2>2. /\ Grown(nodes, nodes') /\ UNCHANGED <<nodeMap, target>>
        /\ \A g \in Graphs : \A n \in 1 .. Len(nodes'[g]) :
             \/ n \in 1 .. Len(nodes[g])
             \/ /\ g = target /\ n = Len(nodes[target]) + 1
                /\ Reading(nodes, target, nodes'[g][n], work.wants)
                /\ nodes'[g][n].after = meant[work.stream]
        /\ \E n \in 1 .. Len(nodes'[target]) : n \notin 1 .. Len(nodes[target])
    <3>1. UNCHANGED <<nodeMap, target>>
      BY <1>9 DEF CreateLayer
    <3>. QED
      BY <1>1, <1>9, <3>1, CreateLayerInv
  <2>3. ReadsInv'
    <3>1. ASSUME NEW g \in Graphs, NEW n \in 1 .. Len(nodes'[g]), nodes'[g][n].kind = "layer"
          PROVE  ReadsInputs(nodes', g, n)
      <4>1. CASE n \in 1 .. Len(nodes[g])
        <5>1. nodes[g][n].kind = "layer"
          BY <2>2, <3>1, <4>1 DEF Grown
        <5>. QED
          BY <1>1, <2>1, <2>2, <4>1, <5>1, LayerKept DEF Strong
      <4>2. CASE n \notin 1 .. Len(nodes[g])
        <5>1. /\ g = target /\ n = Len(nodes[target]) + 1
              /\ Reading(nodes, target, nodes'[g][n], work.wants)
          BY <2>2, <4>2
        <5>2. \A m \in 1 .. Len(nodes[g]) : nodes'[g][m] = nodes[g][m]
          BY <2>2 DEF Grown
        <5>3. n - 1 = Len(nodes[g])
          BY <2>1, <5>1
        <5>4. /\ nodes'[g][n].wants = work.wants
              /\ \A i \in 1 .. Len(work.wants) :
                   LET r == nodes'[g][n].reads[i] IN
                   r \in 1 .. n - 1 /\ nodes[g][r].kind # "sender" /\ nodes[g][r].value = work.wants[i]
          BY <5>1, <5>3 DEF Reading
        <5>. QED
          BY <2>1, <5>2, <5>3, <5>4 DEF ReadsInputs
      <4>. QED
        BY <4>1, <4>2
    <3>. QED
      BY <3>1 DEF ReadsInv
  <2>4. ASSUME NEW v, Wanted(v) PROVE Asked(nodes', target, v)
    <3>1. PICK n \in 1 .. Len(nodes'[target]) :
             /\ Reading(nodes, target, nodes'[target][n], work.wants)
             /\ nodes'[target][n].after = meant[work.stream]
      BY <2>1, <2>2
    <3>. QED
      BY <2>4, <3>1 DEF Wanted, Asked, Reading
  <2>5. ASSUME NEW g \in Graphs, NEW n \in 1 .. Len(nodes'[g]), nodes'[g][n].kind = "receiver"
        PROVE  Asked(nodes', g, nodes'[g][n].value)
    <3>1. n \in 1 .. Len(nodes[g])
      BY <2>2, <2>5 DEF Reading
    <3>2. nodes'[g][n] = nodes[g][n]
      BY <2>2, <3>1 DEF Grown
    <3>3. Asked(nodes, g, nodes[g][n].value) \/ (g = target /\ Wanted(nodes[g][n].value))
      BY <2>5, <3>1, <3>2 DEF Strong, StrayInv
    <3>4. \A v : Asked(nodes, g, v) => Asked(nodes', g, v)
      BY <2>1, <2>2, AskedGrown
    <3>. QED
      BY <2>4, <3>2, <3>3, <3>4
  <2>6. StrayInv'
    BY <2>5 DEF StrayInv
  <2>7. ASSUME NEW p \in DOMAIN nodeMap PROVE Hinted(nodes', p, nodeMap[p])
    <3>1. Entry(nodes, target, p, nodeMap[p]) /\ Hinted(nodes, p, nodeMap[p])
      BY DEF Strong, Inv, MapInv, FirstInv
    <3>. QED
      BY <2>1, <2>2, <3>1, HintedGrown
  <2>8. FirstInv'
    BY <2>2, <2>7 DEF FirstInv
  <2>. QED
    BY <1>1, <2>3, <2>6, <2>8 DEF Strong
<1>. QED
  BY <1>2, <1>3, <1>4, <1>5, <1>6, <1>7, <1>8, <1>9 DEF Next

--------------------------------------------------------------------------------
(* The properties. *)

LEMMA StrongAlways == ASSUME ~GraphIdFirst, ~ForwardAcross PROVE Spec => []Strong
<1>1. Strong /\ [Next]_vars => Strong'
  BY NextStrong
<1>. QED
  BY <1>1, InitStrong, PTL DEF Spec

\* A node that NodesOfKind names, by its id and its graph.
LEMMA KindNodes ==
    ASSUME NEW kind, NEW p \in NodesOfKind(kind), nodes \in [Graphs -> Seq(Nodes)]
    PROVE  /\ p.graph \in Graphs /\ p.node \in 1 .. Len(nodes[p.graph])
           /\ p = At(p.node, p.graph) /\ nodes[p.graph][p.node].kind = kind
           /\ NodeAt(p) = nodes[p.graph][p.node]
<1>1. p \in UNION {{At(n, g) : n \in DOMAIN nodes[g]} : g \in Graphs} /\ NodeAt(p).kind = kind
  BY DEF NodesOfKind
<1>2. PICK g \in Graphs : p \in {At(n, g) : n \in DOMAIN nodes[g]}
  BY <1>1
<1>3. PICK n \in DOMAIN nodes[g] : p = At(n, g)
  BY <1>2
<1>4. DOMAIN nodes[g] = 1 .. Len(nodes[g])
  OBVIOUS
<1>. QED
  BY <1>1, <1>3, <1>4 DEF At, NodeAt

LEMMA OfKind ==
    ASSUME NEW kind, NEW g \in Graphs, NEW n \in 1 .. Len(nodes[g]),
           nodes \in [Graphs -> Seq(Nodes)], nodes[g][n].kind = kind
    PROVE  At(n, g) \in NodesOfKind(kind) /\ NodeAt(At(n, g)) = nodes[g][n]
<1>1. n \in DOMAIN nodes[g]
  OBVIOUS
<1>2. NodeAt(At(n, g)) = nodes[g][n]
  BY DEF NodeAt, At
<1>3. At(n, g) \in {At(m, g) : m \in DOMAIN nodes[g]}
  BY <1>1
<1>4. At(n, g) \in UNION {{At(m, h) : m \in DOMAIN nodes[h]} : h \in Graphs}
  BY <1>3
<1>. QED
  BY <1>2, <1>4 DEF NodesOfKind

\* What an entry of node_map says of the two ends of a channel.
LEMMA EntryEnds ==
    ASSUME Inv, NEW p \in DOMAIN nodeMap, NEW g \in DOMAIN nodeMap[p] \ {p.graph}
    PROVE  LET m == nodeMap[p]
           IN  /\ p \in Positions /\ p.graph \in Graphs /\ g \in Graphs /\ p.graph < g
               /\ p.graph \in DOMAIN m
               /\ m[p.graph] \in 1 .. Len(nodes[p.graph]) /\ m[g] \in 1 .. Len(nodes[g])
               /\ nodes[p.graph][m[p.graph]].kind = "sender"
               /\ nodes[p.graph][m[p.graph]].reads = <<p.node>>
               /\ nodes[g][m[g]].kind = "receiver"
               /\ nodes[p.graph][m[p.graph]].value = nodes[g][m[g]].value
               /\ Link(p, m, g) \in sentTo
<1>1. Entry(nodes, target, p, nodeMap[p])
  BY DEF Inv, MapInv
<1>2. /\ p \in Positions /\ p.graph \in Graphs /\ p.graph \in DOMAIN nodeMap[p]
      /\ DOMAIN nodeMap[p] \subseteq Graphs
      /\ Peer(nodes, target, p, p.graph, nodeMap[p][p.graph])
      /\ Peer(nodes, target, p, g, nodeMap[p][g])
  BY <1>1 DEF Entry, Holds, Positions
<1>3. Link(p, nodeMap[p], g) \in sentTo
  BY DEF Inv, LinkInv
<1>. QED
  BY <1>2, <1>3 DEF Peer

LEMMA TypingOf == Inv => TypeOK
<1>. SUFFICES ASSUME Inv PROVE TypeOK
  OBVIOUS
<1>1. currentLayer \in 0 .. MaxLayers
  <2>1. added \in 0 .. MaxLayers /\ currentLayer \in 0 .. added
    BY DEF Inv, Typed
  <2>. QED
    BY <2>1, GraphNumbers
<1>2. ASSUME NEW c \in sentTo PROVE c \in Positions \X Positions
  <2>1. PICK p \in DOMAIN nodeMap :
           \E g \in DOMAIN nodeMap[p] \ {p.graph} : c = Link(p, nodeMap[p], g)
    BY DEF Inv, LinkInv
  <2>2. PICK g \in DOMAIN nodeMap[p] \ {p.graph} : c = Link(p, nodeMap[p], g)
    BY <2>1
  <2>3. /\ p.graph \in Graphs /\ g \in Graphs
        /\ nodeMap[p][p.graph] \in 1 .. Len(nodes[p.graph])
        /\ nodeMap[p][g] \in 1 .. Len(nodes[g])
    BY <2>2, EntryEnds
  <2>4. \A h \in Graphs : \A n \in 1 .. Len(nodes[h]) : At(n, h) \in Positions
    <3>1. \A h \in Graphs : Len(nodes[h]) \in Nat
      BY DEF Inv, Typed
    <3>. QED
      BY <3>1 DEF At, Positions
  <2>. QED
    BY <2>2, <2>3, <2>4 DEF Link
<1>3. ASSUME NEW p \in DOMAIN nodeMap PROVE p \in Positions /\ DOMAIN nodeMap[p] \subseteq Graphs
  BY DEF Inv, MapInv, Entry, Holds
<1>. QED
  BY <1>1, <1>2, <1>3 DEF Inv, Typed, TypeOK

LEMMA ReadsOf == Inv /\ ReadsInv => LayersReadTheirInputs
<1>. SUFFICES ASSUME Inv, ReadsInv, NEW p \in NodesOfKind("layer"), NEW i \in DOMAIN NodeAt(p).wants
              PROVE  LET read == NodeAt(p).reads[i]
                     IN  /\ read \in 1 .. p.node - 1
                         /\ nodes[p.graph][read].kind # "sender"
                         /\ nodes[p.graph][read].value = NodeAt(p).wants[i]
  BY DEF LayersReadTheirInputs
<1>1. nodes \in [Graphs -> Seq(Nodes)]
  BY DEF Inv, Typed
<1>2. /\ p.graph \in Graphs /\ p.node \in 1 .. Len(nodes[p.graph])
      /\ nodes[p.graph][p.node].kind = "layer" /\ NodeAt(p) = nodes[p.graph][p.node]
  BY <1>1, KindNodes
<1>3. ReadsInputs(nodes, p.graph, p.node)
  BY <1>2 DEF ReadsInv
<1>. QED
  BY <1>2, <1>3 DEF ReadsInputs

LEMMA ChannelsOf == Inv => ChannelsLeadForward
<1>. SUFFICES ASSUME Inv PROVE ChannelsLeadForward
  OBVIOUS
<1>1. nodes \in [Graphs -> Seq(Nodes)]
  BY DEF Inv, Typed
<1>2. ASSUME NEW r \in NodesOfKind("receiver")
      PROVE  \E s \in NodesOfKind("sender") :
                /\ {c \in sentTo : c[2] = r} = {<<s, r>>}
                /\ s.graph < r.graph /\ NodeAt(s).value = NodeAt(r).value
  <2>1. /\ r.graph \in Graphs /\ r.node \in 1 .. Len(nodes[r.graph])
        /\ r = At(r.node, r.graph) /\ nodes[r.graph][r.node].kind = "receiver"
        /\ NodeAt(r) = nodes[r.graph][r.node]
    BY <1>1, KindNodes
  <2>2. PICK p \in DOMAIN nodeMap :
           p.graph # r.graph /\ r.graph \in DOMAIN nodeMap[p] /\ nodeMap[p][r.graph] = r.node
    BY <2>1 DEF Inv, OwnerInv
  <2>. DEFINE s == At(nodeMap[p][p.graph], p.graph)
  <2>3. /\ s \in NodesOfKind("sender") /\ s.graph < r.graph /\ NodeAt(s).value = NodeAt(r).value
        /\ <<s, r>> \in sentTo
    <3>1. /\ p.graph \in Graphs /\ p.graph < r.graph
          /\ nodeMap[p][p.graph] \in 1 .. Len(nodes[p.graph])
          /\ nodes[p.graph][nodeMap[p][p.graph]].kind = "sender"
          /\ nodes[p.graph][nodeMap[p][p.graph]].value = nodes[r.graph][r.node].value
          /\ Link(p, nodeMap[p], r.graph) \in sentTo
      BY <2>2, EntryEnds
    <3>2. s \in NodesOfKind("sender") /\ NodeAt(s) = nodes[p.graph][nodeMap[p][p.graph]]
      BY <1>1, <3>1, OfKind
    <3>3. Link(p, nodeMap[p], r.graph) = <<s, r>>
      BY <2>1, <2>2 DEF Link
    <3>4. s.graph = p.graph
      BY DEF At
    <3>. QED
      BY <2>1, <3>1, <3>2, <3>3, <3>4
  <2>4. ASSUME NEW c \in sentTo, c[2] = r PROVE c = <<s, r>>
    <3>1. PICK q \in DOMAIN nodeMap :
             \E h \in DOMAIN nodeMap[q] \ {q.graph} : c = Link(q, nodeMap[q], h)
      BY DEF Inv, LinkInv
    <3>2. PICK h \in DOMAIN nodeMap[q] \ {q.graph} : c = Link(q, nodeMap[q], h)
      BY <3>1
    <3>3. At(nodeMap[q][h], h) = At(r.node, r.graph)
      BY <2>1, <2>4, <3>2 DEF Link
    <3>4. h = r.graph /\ nodeMap[q][h] = r.node
      BY <3>3 DEF At
    <3>5. h \in DOMAIN nodeMap[p] \cap DOMAIN nodeMap[q] /\ nodeMap[p][h] = nodeMap[q][h]
      BY <2>2, <3>2, <3>4
    <3>6. p = q
      BY <3>5 DEF Inv, OwnerInv
    <3>. QED
      BY <2>1, <3>2, <3>4, <3>6 DEF Link
  <2>. HIDE DEF s
  <2>5. {c \in sentTo : c[2] = r} = {<<s, r>>}
    <3>1. <<s, r>>[2] = r
      OBVIOUS
    <3>. QED
      BY <2>3, <2>4, <3>1
  <2>. QED
    BY <2>3, <2>5
<1>3. ASSUME NEW s \in NodesOfKind("sender")
      PROVE  \E r \in NodesOfKind("receiver") : <<s, r>> \in sentTo
  <2>1. /\ s.graph \in Graphs /\ s.node \in 1 .. Len(nodes[s.graph])
        /\ s = At(s.node, s.graph) /\ nodes[s.graph][s.node].kind = "sender"
    BY <1>1, KindNodes
  <2>2. PICK p \in DOMAIN nodeMap : p.graph = s.graph /\ nodeMap[p][s.graph] = s.node
    BY <2>1 DEF Inv, OwnerInv
  <2>3. PICK g \in DOMAIN nodeMap[p] : g # p.graph
    BY DEF Inv, MapInv, Entry
  <2>4. /\ g \in Graphs /\ nodeMap[p][g] \in 1 .. Len(nodes[g])
        /\ nodes[g][nodeMap[p][g]].kind = "receiver" /\ Link(p, nodeMap[p], g) \in sentTo
    BY <2>3, EntryEnds
  <2>5. At(nodeMap[p][g], g) \in NodesOfKind("receiver")
    BY <1>1, <2>4, OfKind
  <2>6. Link(p, nodeMap[p], g) = <<s, At(nodeMap[p][g], g)>>
    BY <2>1, <2>2 DEF Link
  <2>. QED
    BY <2>4, <2>5, <2>6
<1>. QED
  BY <1>2, <1>3 DEF ChannelsLeadForward

LEMMA OneChannelOf == Inv => OneChannelPerValue
<1>. SUFFICES ASSUME Inv PROVE OneChannelPerValue
  OBVIOUS
<1>1. nodes \in [Graphs -> Seq(Nodes)]
  BY DEF Inv, Typed
<1>2. ASSUME NEW s \in NodesOfKind("sender")
      PROVE  /\ s = At(s.node, s.graph)
             /\ \E p \in DOMAIN nodeMap :
                   /\ p \in Positions /\ p.graph = s.graph /\ nodeMap[p][s.graph] = s.node
                   /\ NodeAt(s).reads = <<p.node>>
  <2>1. /\ s.graph \in Graphs /\ s.node \in 1 .. Len(nodes[s.graph])
        /\ s = At(s.node, s.graph) /\ nodes[s.graph][s.node].kind = "sender"
        /\ NodeAt(s) = nodes[s.graph][s.node]
    BY <1>1, KindNodes
  <2>2. PICK p \in DOMAIN nodeMap : p.graph = s.graph /\ nodeMap[p][s.graph] = s.node
    BY <2>1 DEF Inv, OwnerInv
  <2>3. PICK g \in DOMAIN nodeMap[p] : g # p.graph
    BY DEF Inv, MapInv, Entry
  <2>4. p \in Positions /\ nodes[p.graph][nodeMap[p][p.graph]].reads = <<p.node>>
    BY <2>3, EntryEnds
  <2>. QED
    BY <2>1, <2>2, <2>4
<1>3. ASSUME NEW s \in NodesOfKind("sender"), NEW t \in NodesOfKind("sender"),
             s.graph = t.graph, NodeAt(s).reads = NodeAt(t).reads
      PROVE  s = t
  <2>1. PICK p \in DOMAIN nodeMap :
           /\ p \in Positions /\ p.graph = s.graph /\ nodeMap[p][s.graph] = s.node
           /\ NodeAt(s).reads = <<p.node>>
    BY <1>2
  <2>2. PICK q \in DOMAIN nodeMap :
           /\ q \in Positions /\ q.graph = t.graph /\ nodeMap[q][t.graph] = t.node
           /\ NodeAt(t).reads = <<q.node>>
    BY <1>2
  <2>3. p.node = q.node
    <3>1. <<p.node>> = <<q.node>>
      BY <1>3, <2>1, <2>2
    <3>2. <<p.node>>[1] = p.node /\ <<q.node>>[1] = q.node
      OBVIOUS
    <3>. QED
      BY <3>1, <3>2
  <2>4. p = q
    BY <1>3, <2>1, <2>2, <2>3 DEF Positions
  <2>5. s.node = t.node
    BY <1>3, <2>1, <2>2, <2>4
  <2>. QED
    BY <1>2, <1>3, <2>5
<1>4. ASSUME NEW c \in sentTo, NEW d \in sentTo, c[1] = d[1], c[2].graph = d[2].graph
      PROVE  c = d
  <2>1. PICK p \in DOMAIN nodeMap :
           \E g \in DOMAIN nodeMap[p] \ {p.graph} : c = Link(p, nodeMap[p], g)
    BY DEF Inv, LinkInv
  <2>2. PICK g \in DOMAIN nodeMap[p] \ {p.graph} : c = Link(p, nodeMap[p], g)
    BY <2>1
  <2>3. PICK q \in DOMAIN nodeMap :
           \E h \in DOMAIN nodeMap[q] \ {q.graph} : d = Link(q, nodeMap[q], h)
    BY DEF Inv, LinkInv
  <2>4. PICK h \in DOMAIN nodeMap[q] \ {q.graph} : d = Link(q, nodeMap[q], h)
    BY <2>3
  <2>5. At(nodeMap[p][p.graph], p.graph) = At(nodeMap[q][q.graph], q.graph)
    BY <1>4, <2>2, <2>4 DEF Link
  <2>6. p.graph = q.graph /\ nodeMap[p][p.graph] = nodeMap[q][p.graph]
    BY <2>5 DEF At
  <2>7. p.graph \in DOMAIN nodeMap[p] \cap DOMAIN nodeMap[q]
    BY <2>2, <2>4, <2>6, EntryEnds
  <2>8. p = q
    BY <2>6, <2>7 DEF Inv, OwnerInv
  <2>9. g = h
    <3>1. c[2] = At(nodeMap[p][g], g) /\ d[2] = At(nodeMap[q][h], h)
      BY <2>2, <2>4 DEF Link
    <3>. QED
      BY <1>4, <3>1 DEF At
  <2>. QED
    BY <2>2, <2>4, <2>8, <2>9
<1>. QED
  BY <1>3, <1>4 DEF OneChannelPerValue

LEMMA NoStrayOf == Inv /\ StrayInv => NoStrayChannel
<1>. SUFFICES ASSUME Inv, StrayInv, NEW r \in NodesOfKind("receiver")
              PROVE  LET v == NodeAt(r).value
                     IN  \/ \E p \in NodesOfKind("layer") :
                              /\ p.graph = r.graph
                              /\ \/ v = NodeAt(p).after
                                 \/ \E i \in DOMAIN NodeAt(p).wants : v = NodeAt(p).wants[i]
                         \/ /\ work # Idle /\ r.graph = target
                            /\ \/ v = meant[work.stream]
                               \/ \E i \in DOMAIN work.wants : v = work.wants[i]
  BY DEF NoStrayChannel
<1>. DEFINE v == NodeAt(r).value
<1>1. nodes \in [Graphs -> Seq(Nodes)]
  BY DEF Inv, Typed
<1>2. /\ r.graph \in Graphs /\ r.node \in 1 .. Len(nodes[r.graph])
      /\ nodes[r.graph][r.node].kind = "receiver" /\ v = nodes[r.graph][r.node].value
  BY <1>1, KindNodes
<1>. HIDE DEF v
<1>3. CASE Asked(nodes, r.graph, v)
  <2>1. PICK n \in 1 .. Len(nodes[r.graph]) :
           /\ nodes[r.graph][n].kind = "layer"
           /\ \/ v = nodes[r.graph][n].after
              \/ \E i \in DOMAIN nodes[r.graph][n].wants : v = nodes[r.graph][n].wants[i]
    BY <1>3 DEF Asked
  <2>. DEFINE p == At(n, r.graph)
  <2>2. p \in NodesOfKind("layer") /\ NodeAt(p) = nodes[r.graph][n] /\ p.graph = r.graph
    <3>1. p.graph = r.graph
      BY DEF At
    <3>. QED
      BY <1>1, <1>2, <2>1, <3>1, OfKind
  <2>. HIDE DEF p
  <2>. QED
    BY <2>1, <2>2 DEF v
<1>4. CASE work # Idle /\ r.graph = target /\ Wanted(v)
  BY <1>4 DEF Wanted, v
<1>. QED
  BY <1>2, <1>3, <1>4 DEF StrayInv

LEMMA UsedFirstOf == Inv => UsedGraphsFirst
<1>. SUFFICES ASSUME Inv, NEW g \in Graphs \ {0}, nodes[g] # <<>>
              PROVE  nodes[g - 1] # <<>> /\ nodes[g][1].kind = "receiver"
  BY DEF UsedGraphsFirst
<1>1. /\ target \in Graphs /\ target \in Nat /\ g \in Nat /\ g - 1 \in Graphs
  <2>1. target \in Graphs
    BY DEF Inv, Typed
  <2>2. g # 0 /\ g \in Graphs
    OBVIOUS
  <2>. QED
    BY <2>1, <2>2, GraphNumbers, Ranges
<1>2. ~(g > target)
  BY DEF Inv, TargetInv
<1>3. g - 1 < target
  BY <1>1, <1>2
<1>. QED
  BY <1>1, <1>3 DEF Inv, TargetInv

LEMMA FirstOf == Inv /\ FirstInv => FirstReceiverTargets
<1>. SUFFICES ASSUME Inv, FirstInv, NEW c \in sentTo,
                     \A d \in sentTo : d[1] = c[1] => c[2].graph <= d[2].graph
              PROVE  NodeAt(c[2]).npu <=> c[2].graph \in NpuGraphs
  BY DEF FirstReceiverTargets
<1>1. PICK p \in DOMAIN nodeMap :
         \E g \in DOMAIN nodeMap[p] \ {p.graph} : c = Link(p, nodeMap[p], g)
  BY DEF Inv, LinkInv
<1>2. PICK g \in DOMAIN nodeMap[p] \ {p.graph} : c = Link(p, nodeMap[p], g)
  BY <1>1
<1>3. /\ c[1] = At(nodeMap[p][p.graph], p.graph) /\ c[2] = At(nodeMap[p][g], g)
      /\ c[2].graph = g /\ NodeAt(c[2]) = nodes[g][nodeMap[p][g]]
  BY <1>2 DEF Link, At, NodeAt
<1>4. ASSUME NEW h \in DOMAIN nodeMap[p] \ {p.graph}, h < g PROVE FALSE
  <2>1. Link(p, nodeMap[p], h) \in sentTo /\ h \in Graphs /\ g \in Graphs
    BY <1>2, EntryEnds
  <2>2. Link(p, nodeMap[p], h)[1] = c[1] /\ Link(p, nodeMap[p], h)[2].graph = h
    BY <1>3 DEF Link, At
  <2>3. g <= h
    BY <1>3, <2>1, <2>2
  <2>. QED
    BY <1>4, <2>1, <2>3, GraphNumbers
<1>5. Hinted(nodes, p, nodeMap[p])
  BY DEF FirstInv
<1>. QED
  BY <1>2, <1>3, <1>4, <1>5 DEF Hinted

\* The tails, the ends of the channels and the keys of node_map are positions of the graphs
\* there are, and no layer number passes the number of layers (next_layer, add_layer).
THEOREM BuilderTyping == ASSUME ~GraphIdFirst, ~ForwardAcross PROVE Spec => []TypeOK
<1>1. Strong => TypeOK
  BY TypingOf DEF Strong
<1>. QED
  BY <1>1, StrongAlways, PTL

\* A layer reads the values the example gave it, in their order, from nodes of its own
\* graph, whatever boundaries lie between (next_layer, tail_node, create_layer).
THEOREM LayersRead ==
    ASSUME ~GraphIdFirst, ~ForwardAcross PROVE Spec => []LayersReadTheirInputs
<1>1. Strong => LayersReadTheirInputs
  BY ReadsOf DEF Strong
<1>. QED
  BY <1>1, StrongAlways, PTL

\* Every Receiver has one Sender, of the value it stands for, in an earlier graph, and no
\* Sender is without a Receiver (next_layer adds them together).
THEOREM ForwardChannels ==
    ASSUME ~GraphIdFirst, ~ForwardAcross PROVE Spec => []ChannelsLeadForward
<1>1. Strong => ChannelsLeadForward
  BY ChannelsOf DEF Strong
<1>. QED
  BY <1>1, StrongAlways, PTL

\* A value leaves its graph through one Sender and enters each other graph through one
\* Receiver at most (node_map is asked before a node is added).
THEOREM SingleChannels ==
    ASSUME ~GraphIdFirst, ~ForwardAcross PROVE Spec => []OneChannelPerValue
<1>1. Strong => OneChannelPerValue
  BY OneChannelOf DEF Strong
<1>. QED
  BY <1>1, StrongAlways, PTL

\* A graph receives only what a layer in it, or the stream of such a layer, asked for
\* (the input nodes that next_layer walks through).
THEOREM NoStray == ASSUME ~GraphIdFirst, ~ForwardAcross PROVE Spec => []NoStrayChannel
<1>1. Strong => NoStrayChannel
  BY NoStrayOf DEF Strong
<1>. QED
  BY <1>1, StrongAlways, PTL

\* The graphs that have nodes are the first ones, and each but graph 0 starts with a
\* Receiver (target_graph, and finalize counting the empty graphs off).
THEOREM FirstGraphsUsed ==
    ASSUME ~GraphIdFirst, ~ForwardAcross PROVE Spec => []UsedGraphsFirst
<1>1. Strong => UsedGraphsFirst
  BY UsedFirstOf DEF Strong
<1>. QED
  BY <1>1, StrongAlways, PTL

\* The first Receiver of a Sender works as one of an NPU exactly if the NPU executes its
\* graph (the hints next_layer takes with the first layer of a graph).
THEOREM FirstReceivers ==
    ASSUME ~GraphIdFirst, ~ForwardAcross PROVE Spec => []FirstReceiverTargets
<1>1. Strong => FirstReceiverTargets
  BY FirstOf DEF Strong
<1>. QED
  BY <1>1, StrongAlways, PTL
================================================================================
