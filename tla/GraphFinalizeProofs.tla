-------------------------- MODULE GraphFinalizeProofs --------------------------
(***************************************************************************)
(* Theorems about GraphFinalize, for constructed graphs of any size: the   *)
(* four records of a connection agree at every step of the merge, the      *)
(* outputs of an NPU graph keep their tensors and its inputs their uses,   *)
(* and the tasks come in an order that computes every input before it is   *)
(* read.                                                                   *)
(***************************************************************************)
EXTENDS GraphFinalize, FiniteSetTheorems, SequenceTheorems, NaturalsInduction,
        WellFoundedInduction, TLAPS

--------------------------------------------------------------------------------
(* Numbers in ascending order *)

\* How many members of S there are up to x.
Rank(S, x) == Cardinality({y \in S : y <= x})

LEMMA Least ==
    ASSUME NEW S \in SUBSET Nat, S # {}
    PROVE  \E m \in S : \A y \in S : m <= y
<1>. DEFINE Less == {p \in Nat \X Nat : p[1] < p[2]}
<1>1. IsWellFoundedOn(Less, Nat)
  BY NatLessThanWellFounded DEF OpToRel
<1>2. PICK m \in S : \A y \in S : <<y, m>> \notin Less
  <2>. HIDE DEF Less
  <2>. QED
    BY <1>1, WFMin
<1>3. ASSUME NEW y \in S PROVE m <= y
  <2>1. <<y, m>> \notin Less /\ y \in Nat /\ m \in Nat
    BY <1>2
  <2>. QED
    BY <2>1
<1>. QED
  BY <1>3

LEMMA RankRange ==
    ASSUME NEW S \in SUBSET Nat, IsFiniteSet(S), NEW x \in S
    PROVE  Rank(S, x) \in 1 .. Cardinality(S)
<1>. DEFINE X == {z \in S : z <= x}
<1>1. X \subseteq S /\ x \in X
  <2>1. x \in Nat
    OBVIOUS
  <2>. QED
    BY <2>1
<1>. HIDE DEF X
<1>2. /\ IsFiniteSet(X) /\ Cardinality(X) <= Cardinality(S)
      /\ Cardinality(X) \in Nat /\ Cardinality(S) \in Nat
  BY <1>1, FS_Subset, FS_CardinalityType
<1>3. Cardinality(X) # 0
  BY <1>1, <1>2, FS_EmptySet
<1>4. Cardinality(X) \in 1 .. Cardinality(S)
  BY <1>2, <1>3
<1>. QED
  BY <1>4 DEF X, Rank

\* The larger member has the larger rank.
LEMMA RankOrder ==
    ASSUME NEW S \in SUBSET Nat, IsFiniteSet(S), NEW x \in S, NEW y \in S
    PROVE  /\ Rank(S, x) \in Nat /\ Rank(S, y) \in Nat /\ x \in Nat /\ y \in Nat
           /\ x <= y <=> Rank(S, x) <= Rank(S, y)
<1>1. ASSUME NEW a \in S, NEW b \in S, a < b
      PROVE  Rank(S, a) < Rank(S, b)
  <2>. DEFINE A == {z \in S : z <= a}
              B == {z \in S : z <= b}
  <2>1. a \in Nat /\ b \in Nat
    OBVIOUS
  <2>2. ASSUME NEW z \in A PROVE z \in B
    <3>1. z \in Nat /\ z <= a
      OBVIOUS
    <3>. QED
      BY <1>1, <2>1, <3>1
  <2>3. b \in B /\ b \notin A /\ B \subseteq S
    BY <1>1, <2>1
  <2>. HIDE DEF A, B
  <2>4. IsFiniteSet(B) /\ A # B /\ A \subseteq B
    BY <2>2, <2>3, FS_Subset
  <2>5. Cardinality(A) < Cardinality(B)
    <3>1. IsFiniteSet(A) /\ Cardinality(A) <= Cardinality(B) /\ (Cardinality(A) = Cardinality(B) => A = B)
      BY <2>4, FS_Subset
    <3>2. Cardinality(A) \in Nat /\ Cardinality(B) \in Nat
      BY <2>4, <3>1, FS_CardinalityType
    <3>. QED
      BY <2>4, <3>1, <3>2
  <2>. QED
    BY <2>5 DEF A, B, Rank
<1>2. Rank(S, x) \in Nat /\ Rank(S, y) \in Nat /\ x \in Nat /\ y \in Nat
  <2>1. Rank(S, x) \in 1 .. Cardinality(S) /\ Rank(S, y) \in 1 .. Cardinality(S)
    BY RankRange
  <2>2. Cardinality(S) \in Nat
    BY FS_CardinalityType
  <2>. QED
    BY <2>1, <2>2
<1>3. CASE x < y
  BY <1>1, <1>2, <1>3
<1>4. CASE y < x
  BY <1>1, <1>2, <1>4
<1>5. CASE x = y
  BY <1>2, <1>5
<1>. QED
  BY <1>2, <1>3, <1>4, <1>5

\* Each rank is some member's: one more than the ranks below it is that of the least
\* member that has none of them.
LEMMA RankExists ==
    ASSUME NEW S \in SUBSET Nat, IsFiniteSet(S)
    PROVE  \A i \in 1 .. Cardinality(S) : \E x \in S : Rank(S, x) = i
<1>. DEFINE Missing == {i \in 1 .. Cardinality(S) : \A x \in S : Rank(S, x) # i}
<1>1. SUFFICES ASSUME Missing # {} PROVE FALSE
  OBVIOUS
<1>2. Missing \in SUBSET Nat /\ Cardinality(S) \in Nat
  BY FS_CardinalityType
<1>3. PICK i \in Missing : \A j \in Missing : i <= j
  <2>. HIDE DEF Missing
  <2>. QED
    BY <1>1, <1>2, Least
<1>4. i \in 1 .. Cardinality(S) /\ i \in Nat /\ \A x \in S : Rank(S, x) # i
  BY <1>2
<1>5. ASSUME NEW j \in 1 .. i - 1 PROVE \E x \in S : Rank(S, x) = j
  <2>1. j \notin Missing /\ j \in 1 .. Cardinality(S)
    BY <1>2, <1>3, <1>4
  <2>. QED
    BY <2>1
<1>. HIDE DEF Missing
<1>. DEFINE Low == {y \in S : Rank(S, y) < i}
            High == S \ Low
<1>6. IsFiniteSet(Low) /\ Cardinality(Low) = i - 1
  <2>1. CASE i = 1
    <3>1. ASSUME NEW y \in S PROVE ~(Rank(S, y) < 1)
      <4>1. Rank(S, y) \in 1 .. Cardinality(S)
        BY RankRange
      <4>. QED
        BY <1>2, <4>1
    <3>2. Low = {}
      BY <2>1, <3>1
    <3>. QED
      BY <2>1, <3>2, FS_EmptySet
  <2>2. CASE i # 1
    <3>1. i - 1 \in 1 .. i - 1
      BY <1>4, <2>2
    <3>2. PICK x \in S : Rank(S, x) = i - 1
      BY <1>5, <3>1
    <3>3. ASSUME NEW y \in S PROVE Rank(S, y) < i <=> y <= x
      <4>1. /\ Rank(S, y) \in Nat /\ Rank(S, x) \in Nat
            /\ y <= x <=> Rank(S, y) <= Rank(S, x)
        BY RankOrder
      <4>. QED
        BY <1>4, <3>2, <4>1
    <3>4. Low = {y \in S : y <= x} /\ Low \subseteq S
      BY <3>3
    <3>. HIDE DEF Low
    <3>. QED
      BY <3>2, <3>4, FS_Subset DEF Rank
  <2>. QED
    BY <2>1, <2>2
<1>7. High # {} /\ High \in SUBSET Nat
  <2>1. Cardinality(Low) # Cardinality(S)
    BY <1>2, <1>4, <1>6
  <2>2. Low # S
    BY <2>1
  <2>. QED
    BY <2>2
<1>8. PICK m \in High : \A y \in High : m <= y
  <2>. HIDE DEF High
  <2>. QED
    BY <1>7, Least
<1>9. ASSUME NEW y \in S PROVE y <= m <=> y \in Low \cup {m}
  <2>1. /\ Rank(S, y) \in Nat /\ Rank(S, m) \in Nat /\ y \in Nat /\ m \in Nat
        /\ y <= m <=> Rank(S, y) <= Rank(S, m)
    BY RankOrder
  <2>2. ~(Rank(S, m) < i)
    OBVIOUS
  <2>3. CASE y \in Low
    BY <1>4, <2>1, <2>2, <2>3
  <2>4. CASE y \in High
    <3>1. m <= y
      BY <1>8, <2>4
    <3>. QED
      BY <2>1, <2>4, <3>1
  <2>. QED
    BY <2>3, <2>4
<1>10. {y \in S : y <= m} = Low \cup {m} /\ m \notin Low
  <2>1. Low \cup {m} \subseteq S /\ m \notin Low
    OBVIOUS
  <2>. HIDE DEF Low
  <2>. QED
    BY <1>9, <2>1
<1>11. Rank(S, m) = i
  <2>. HIDE DEF Low
  <2>1. Cardinality(Low \cup {m}) = Cardinality(Low) + 1
    BY <1>6, <1>10, FS_AddElement
  <2>2. Cardinality(Low \cup {m}) = i
    BY <1>4, <1>6, <2>1
  <2>. QED
    BY <1>10, <2>2 DEF Rank
<1>. QED
  BY <1>4, <1>11

\* Ascending(S) lists the members of S, each once, from the smallest on.
LEMMA AscendingIs ==
    ASSUME NEW S \in SUBSET Nat, IsFiniteSet(S)
    PROVE  /\ Ascending(S) \in [1 .. Cardinality(S) -> S] /\ Ascending(S) \in Seq(S)
           /\ Cardinality(S) \in Nat /\ Len(Ascending(S)) = Cardinality(S)
           /\ \A i, j \in 1 .. Cardinality(S) : i < j => Ascending(S)[i] < Ascending(S)[j]
           /\ \A x \in S : \E i \in 1 .. Cardinality(S) : Ascending(S)[i] = x
<1>. DEFINE A == Ascending(S)
<1>1. Cardinality(S) \in Nat
  BY FS_CardinalityType
<1>2. \A i \in 1 .. Cardinality(S) : A[i] \in S /\ Rank(S, A[i]) = i
  <2>1. ASSUME NEW i \in 1 .. Cardinality(S) PROVE A[i] \in S /\ Rank(S, A[i]) = i
    <3>1. A[i] = CHOOSE x \in S : Rank(S, x) = i
      BY DEF Ascending, Rank
    <3>2. \E x \in S : Rank(S, x) = i
      BY RankExists
    <3>. QED
      BY <3>1, <3>2
  <2>. QED
    BY <2>1
<1>3. A \in [1 .. Cardinality(S) -> S]
  <2>1. A = [i \in 1 .. Cardinality(S) |-> A[i]]
    BY DEF Ascending
  <2>. HIDE DEF A
  <2>. QED
    BY <1>2, <2>1
<1>. HIDE DEF A
<1>4. A \in Seq(S) /\ Len(A) = Cardinality(S)
  BY <1>1, <1>3
<1>5. ASSUME NEW i \in 1 .. Cardinality(S), NEW j \in 1 .. Cardinality(S), i < j
      PROVE  A[i] < A[j]
  <2>1. A[i] \in S /\ A[j] \in S /\ Rank(S, A[i]) = i /\ Rank(S, A[j]) = j
    BY <1>2
  <2>2. /\ A[i] \in Nat /\ A[j] \in Nat
        /\ A[j] <= A[i] <=> Rank(S, A[j]) <= Rank(S, A[i])
    BY <2>1, RankOrder
  <2>. QED
    BY <1>1, <1>5, <2>1, <2>2
<1>6. ASSUME NEW x \in S PROVE \E i \in 1 .. Cardinality(S) : A[i] = x
  <2>1. PICK i \in 1 .. Cardinality(S) : Rank(S, x) = i
    BY RankRange
  <2>2. A[i] \in S /\ Rank(S, A[i]) = Rank(S, x)
    BY <1>2, <2>1
  <2>3. ASSUME NEW a \in S, Rank(S, a) = Rank(S, x) PROVE a = x
    <3>1. /\ a \in Nat /\ x \in Nat /\ Rank(S, a) \in Nat /\ Rank(S, x) \in Nat
          /\ a <= x <=> Rank(S, a) <= Rank(S, x)
      BY RankOrder
    <3>2. x <= a <=> Rank(S, x) <= Rank(S, a)
      BY RankOrder
    <3>. QED
      BY <2>3, <3>1, <3>2
  <2>. QED
    BY <2>2, <2>3
<1>. QED
  BY <1>1, <1>3, <1>4, <1>5, <1>6 DEF A

--------------------------------------------------------------------------------
(* Graphs and what is done to them. *)

Kinds == {"input", "const", "layer", "output", "npu", "removed"}
NodeRecs == [kind : Kinds, ins : Seq(Nat), outs : SUBSET Nat, tensors : Seq(Nat)]
EdgeRecs == [from : Nat, out : Nat, to : Nat, in : Nat, tensor : Nat, live : BOOLEAN]
GraphRecs == [nodes : Seq(NodeRecs), edges : Seq(EdgeRecs), bound : Seq(SUBSET Nat)]

LiveOf(h) == {e \in DOMAIN h.edges : h.edges[e].live}

\* Edge e of h leads from an output of a node to a node, whose input is this edge.
EdgeSound(h, e) ==
    LET c == h.edges[e] IN
    /\ c.from \in DOMAIN h.nodes /\ c.to \in DOMAIN h.nodes
    /\ c.out \in DOMAIN h.nodes[c.from].tensors
    /\ c.tensor = h.nodes[c.from].tensors[c.out]
    /\ c.in \in DOMAIN h.nodes[c.to].ins => h.nodes[c.to].ins[c.in] = e

\* Node n of h has the edges that leave it, its inputs are edges to it, and its tensors exist.
NodeSound(h, n) ==
    /\ h.nodes[n].outs = {e \in LiveOf(h) : h.edges[e].from = n}
    /\ \A i \in DOMAIN h.nodes[n].ins :
         h.nodes[n].ins[i] # 0 => /\ h.nodes[n].ins[i] \in LiveOf(h)
                                  /\ h.edges[h.nodes[n].ins[i]].to = n
                                  /\ h.edges[h.nodes[n].ins[i]].in = i
    /\ \A i \in DOMAIN h.nodes[n].tensors : h.nodes[n].tensors[i] \in DOMAIN h.bound

\* Consistent, of any graph, and typed.
Sound(h) ==
    /\ h \in GraphRecs
    /\ \A e \in LiveOf(h) : EdgeSound(h, e)
    /\ \A n \in DOMAIN h.nodes : NodeSound(h, n)
    /\ \A t \in DOMAIN h.bound : h.bound[t] = {e \in LiveOf(h) : h.edges[e].tensor = t}

\* Nodes and edges are numbered from 1.
LEMMA GraphFacts ==
    ASSUME NEW h \in GraphRecs
    PROVE  /\ h.nodes \in Seq(NodeRecs) /\ h.edges \in Seq(EdgeRecs) /\ h.bound \in Seq(SUBSET Nat)
           /\ DOMAIN h.nodes = 1 .. Len(h.nodes) /\ Len(h.nodes) \in Nat
           /\ DOMAIN h.edges = 1 .. Len(h.edges) /\ Len(h.edges) \in Nat
           /\ DOMAIN h.bound = 1 .. Len(h.bound) /\ Len(h.bound) \in Nat
           /\ \A n \in DOMAIN h.nodes :
                /\ h.nodes[n] \in NodeRecs /\ h.nodes[n].kind \in Kinds
                /\ h.nodes[n].ins \in Seq(Nat) /\ h.nodes[n].outs \in SUBSET Nat
                /\ h.nodes[n].tensors \in Seq(Nat)
           /\ \A e \in DOMAIN h.edges :
                /\ h.edges[e] \in EdgeRecs /\ h.edges[e].live \in BOOLEAN
                /\ h.edges[e].from \in Nat /\ h.edges[e].to \in Nat /\ h.edges[e].in \in Nat
                /\ h.edges[e].out \in Nat /\ h.edges[e].tensor \in Nat
           /\ \A t \in DOMAIN h.bound : h.bound[t] \in SUBSET Nat
<1>1. h.nodes \in Seq(NodeRecs) /\ h.edges \in Seq(EdgeRecs) /\ h.bound \in Seq(SUBSET Nat)
  BY DEF GraphRecs
<1>2. /\ DOMAIN h.nodes = 1 .. Len(h.nodes) /\ Len(h.nodes) \in Nat
      /\ DOMAIN h.edges = 1 .. Len(h.edges) /\ Len(h.edges) \in Nat
      /\ DOMAIN h.bound = 1 .. Len(h.bound) /\ Len(h.bound) \in Nat
  BY <1>1
<1>3. ASSUME NEW n \in DOMAIN h.nodes
      PROVE  /\ h.nodes[n] \in NodeRecs /\ h.nodes[n].kind \in Kinds
             /\ h.nodes[n].ins \in Seq(Nat) /\ h.nodes[n].outs \in SUBSET Nat
             /\ h.nodes[n].tensors \in Seq(Nat)
  <2>1. h.nodes[n] \in NodeRecs
    BY <1>1, <1>2, ElementOfSeq
  <2>. QED
    BY <2>1 DEF NodeRecs
<1>4. ASSUME NEW e \in DOMAIN h.edges
      PROVE  /\ h.edges[e] \in EdgeRecs /\ h.edges[e].live \in BOOLEAN
             /\ h.edges[e].from \in Nat /\ h.edges[e].to \in Nat /\ h.edges[e].in \in Nat
             /\ h.edges[e].out \in Nat /\ h.edges[e].tensor \in Nat
  <2>1. h.edges[e] \in EdgeRecs
    BY <1>1, <1>2, ElementOfSeq
  <2>. QED
    BY <2>1 DEF EdgeRecs
<1>5. ASSUME NEW t \in DOMAIN h.bound PROVE h.bound[t] \in SUBSET Nat
  BY <1>1, <1>2, ElementOfSeq
<1>. QED
  BY <1>1, <1>2, <1>3, <1>4, <1>5

\* What a list of length n is made of makes it a sequence.
LEMMA ListOf ==
    ASSUME NEW S, NEW n \in Nat, NEW s, s = [i \in 1 .. n |-> s[i]], \A i \in 1 .. n : s[i] \in S
    PROVE  s \in Seq(S) /\ Len(s) = n /\ DOMAIN s = 1 .. n
<1>1. s \in [1 .. n -> S] /\ DOMAIN s = 1 .. n
  OBVIOUS
<1>. QED
  BY <1>1

\* What remains of a connection, whatever happens to its edge.
SameEdge(h, d, e) ==
    /\ d.edges[e].from = h.edges[e].from /\ d.edges[e].out = h.edges[e].out
    /\ d.edges[e].to = h.edges[e].to /\ d.edges[e].in = h.edges[e].in
    /\ d.edges[e].tensor = h.edges[e].tensor

\* d is h with the edges of E gone.
Disconnected(h, E, d) ==
    /\ d \in GraphRecs
    /\ Len(d.nodes) = Len(h.nodes) /\ Len(d.edges) = Len(h.edges) /\ Len(d.bound) = Len(h.bound)
    /\ \A e \in DOMAIN h.edges : SameEdge(h, d, e)
    /\ LiveOf(d) = LiveOf(h) \ E
    /\ \A n \in DOMAIN h.nodes :
         /\ d.nodes[n].kind = h.nodes[n].kind /\ d.nodes[n].tensors = h.nodes[n].tensors
         /\ d.nodes[n].outs = h.nodes[n].outs \ {e \in LiveOf(h) \cap E : h.edges[e].from = n}
         /\ DOMAIN d.nodes[n].ins = DOMAIN h.nodes[n].ins
         /\ \A i \in DOMAIN h.nodes[n].ins :
              \/ /\ \E e \in LiveOf(h) \cap E : h.edges[e].to = n /\ h.edges[e].in = i
                 /\ d.nodes[n].ins[i] = 0
              \/ /\ \A e \in LiveOf(h) \cap E : ~(h.edges[e].to = n /\ h.edges[e].in = i)
                 /\ d.nodes[n].ins[i] = h.nodes[n].ins[i]
    /\ \A t \in DOMAIN h.bound :
         d.bound[t] = h.bound[t] \ {e \in LiveOf(h) \cap E : h.edges[e].tensor = t}

LEMMA DisconnectIs ==
    ASSUME NEW h \in GraphRecs, NEW E
    PROVE  Disconnected(h, E, Disconnect(h, E))
<1>. DEFINE gone == {e \in E \cap DOMAIN h.edges : h.edges[e].live}
            edges == [e \in DOMAIN h.edges |-> IF e \in gone THEN [h.edges[e] EXCEPT !.live = FALSE]
                                                             ELSE h.edges[e]]
            bound == [t \in DOMAIN h.bound |-> h.bound[t] \ {e \in gone : h.edges[e].tensor = t}]
            ins(n) == [i \in DOMAIN h.nodes[n].ins |->
                         IF \E e \in gone : h.edges[e].to = n /\ h.edges[e].in = i
                         THEN 0 ELSE h.nodes[n].ins[i]]
            outs(n) == h.nodes[n].outs \ {e \in gone : h.edges[e].from = n}
            node(n) == [h.nodes[n] EXCEPT !.ins = ins(n), !.outs = outs(n)]
            nodes == [n \in DOMAIN h.nodes |-> node(n)]
            d == Disconnect(h, E)
<1>1. d = [nodes |-> nodes, edges |-> edges, bound |-> bound]
  <2>1. h = [nodes |-> h.nodes, edges |-> h.edges, bound |-> h.bound]
    BY DEF GraphRecs
  <2>2. d = [h EXCEPT !.edges = edges, !.nodes = nodes, !.bound = bound]
    BY DEF Disconnect
  <2>. HIDE DEF d, edges, bound, nodes
  <2>. QED
    BY <2>1, <2>2
<1>2. gone = LiveOf(h) \cap E
  BY DEF LiveOf
<1>3. d.nodes = nodes /\ d.edges = edges /\ d.bound = bound
  <2>. HIDE DEF d, edges, bound, nodes
  <2>. QED
    BY <1>1
<1>. HIDE DEF d
<1>4. ASSUME NEW e \in DOMAIN h.edges
      PROVE  /\ edges[e] \in EdgeRecs /\ SameEdge(h, d, e)
             /\ edges[e].live <=> h.edges[e].live /\ e \notin E
  <2>1. h.edges[e] \in EdgeRecs /\ h.edges[e].live \in BOOLEAN
    BY GraphFacts
  <2>2. CASE e \in gone
    <3>1. edges[e] = [h.edges[e] EXCEPT !.live = FALSE] /\ d.edges[e] = [h.edges[e] EXCEPT !.live = FALSE]
      BY <1>3, <2>2
    <3>2. e \in E
      BY <2>2
    <3>. HIDE DEF edges, gone
    <3>. QED
      BY <2>1, <3>1, <3>2 DEF EdgeRecs, SameEdge
  <2>3. CASE e \notin gone
    <3>1. edges[e] = h.edges[e] /\ d.edges[e] = h.edges[e]
      BY <1>3, <2>3
    <3>2. h.edges[e].live => e \notin E
      BY <2>3
    <3>. HIDE DEF edges, gone
    <3>. QED
      BY <2>1, <3>1, <3>2 DEF SameEdge
  <2>. QED
    BY <2>2, <2>3
<1>5. ASSUME NEW n \in DOMAIN h.nodes
      PROVE  /\ nodes[n] \in NodeRecs /\ nodes[n].kind = h.nodes[n].kind
             /\ nodes[n].tensors = h.nodes[n].tensors /\ nodes[n].ins = ins(n)
             /\ nodes[n].outs = h.nodes[n].outs \ {e \in gone : h.edges[e].from = n}
  <2>1. h.nodes[n] \in NodeRecs /\ h.nodes[n].ins \in Seq(Nat)
    BY GraphFacts
  <2>2. ins(n) \in Seq(Nat)
    BY <2>1, ListOf
  <2>3. nodes[n] = node(n)
    OBVIOUS
  <2>. HIDE DEF gone, ins, nodes
  <2>. QED
    BY <2>1, <2>2, <2>3 DEF NodeRecs
<1>6. ASSUME NEW t \in DOMAIN h.bound PROVE bound[t] \in SUBSET Nat
  BY GraphFacts
<1>7. /\ d \in GraphRecs
      /\ Len(d.nodes) = Len(h.nodes) /\ Len(d.edges) = Len(h.edges) /\ Len(d.bound) = Len(h.bound)
  <2>1. nodes \in Seq(NodeRecs) /\ Len(nodes) = Len(h.nodes)
    <3>1. nodes = [n \in 1 .. Len(h.nodes) |-> nodes[n]] /\ Len(h.nodes) \in Nat
      BY GraphFacts
    <3>2. \A n \in 1 .. Len(h.nodes) : nodes[n] \in NodeRecs
      BY <1>5, GraphFacts
    <3>. HIDE DEF nodes
    <3>. QED
      BY <3>1, <3>2, ListOf
  <2>2. edges \in Seq(EdgeRecs) /\ Len(edges) = Len(h.edges)
    <3>1. edges = [e \in 1 .. Len(h.edges) |-> edges[e]] /\ Len(h.edges) \in Nat
      BY GraphFacts
    <3>2. \A e \in 1 .. Len(h.edges) : edges[e] \in EdgeRecs
      BY <1>4, GraphFacts
    <3>. HIDE DEF edges
    <3>. QED
      BY <3>1, <3>2, ListOf
  <2>3. bound \in Seq(SUBSET Nat) /\ Len(bound) = Len(h.bound)
    <3>1. bound = [t \in 1 .. Len(h.bound) |-> bound[t]] /\ Len(h.bound) \in Nat
      BY GraphFacts
    <3>2. \A t \in 1 .. Len(h.bound) : bound[t] \in SUBSET Nat
      BY <1>6, GraphFacts
    <3>. HIDE DEF bound
    <3>. QED
      BY <3>1, <3>2, ListOf
  <2>. HIDE DEF nodes, edges, bound
  <2>. QED
    BY <1>1, <2>1, <2>2, <2>3 DEF GraphRecs
<1>8. LiveOf(d) = LiveOf(h) \ E
  <2>1. DOMAIN d.edges = DOMAIN h.edges
    BY <1>3
  <2>2. \A e \in DOMAIN h.edges : d.edges[e].live <=> h.edges[e].live /\ e \notin E
    <3>. HIDE DEF edges
    <3>. QED
      BY <1>3, <1>4
  <2>. QED
    BY <2>1, <2>2 DEF LiveOf
<1>9. \A e \in DOMAIN h.edges : SameEdge(h, d, e)
  BY <1>4
<1>10. ASSUME NEW n \in DOMAIN h.nodes
       PROVE  /\ d.nodes[n].kind = h.nodes[n].kind /\ d.nodes[n].tensors = h.nodes[n].tensors
              /\ d.nodes[n].outs = h.nodes[n].outs \ {e \in LiveOf(h) \cap E : h.edges[e].from = n}
              /\ DOMAIN d.nodes[n].ins = DOMAIN h.nodes[n].ins
              /\ \A i \in DOMAIN h.nodes[n].ins :
                   \/ /\ \E e \in LiveOf(h) \cap E : h.edges[e].to = n /\ h.edges[e].in = i
                      /\ d.nodes[n].ins[i] = 0
                   \/ /\ \A e \in LiveOf(h) \cap E : ~(h.edges[e].to = n /\ h.edges[e].in = i)
                      /\ d.nodes[n].ins[i] = h.nodes[n].ins[i]
  <2>1. /\ d.nodes[n].kind = h.nodes[n].kind /\ d.nodes[n].tensors = h.nodes[n].tensors
        /\ d.nodes[n].outs = h.nodes[n].outs \ {e \in gone : h.edges[e].from = n}
        /\ d.nodes[n].ins = ins(n)
    <3>. HIDE DEF nodes, ins, gone
    <3>. QED
      BY <1>3, <1>5
  <2>. HIDE DEF nodes, gone
  <2>. QED
    BY <1>2, <2>1
<1>11. ASSUME NEW t \in DOMAIN h.bound
       PROVE  d.bound[t] = h.bound[t] \ {e \in LiveOf(h) \cap E : h.edges[e].tensor = t}
  <2>1. d.bound[t] = h.bound[t] \ {e \in gone : h.edges[e].tensor = t}
    BY <1>3
  <2>. HIDE DEF gone
  <2>. QED
    BY <1>2, <2>1
<1>. QED
  BY <1>7, <1>8, <1>9, <1>10, <1>11 DEF Disconnected, d

\* The facts of Disconnected that concern one edge, one node.
LEMMA DisconnectedFacts ==
    ASSUME NEW h \in GraphRecs, NEW E, NEW d, Disconnected(h, E, d)
    PROVE  /\ d \in GraphRecs
           /\ DOMAIN d.nodes = DOMAIN h.nodes /\ DOMAIN d.edges = DOMAIN h.edges
           /\ DOMAIN d.bound = DOMAIN h.bound
           /\ LiveOf(d) = LiveOf(h) \ E
           /\ \A e \in DOMAIN h.edges : SameEdge(h, d, e)
           /\ \A n \in DOMAIN h.nodes :
                /\ d.nodes[n].kind = h.nodes[n].kind /\ d.nodes[n].tensors = h.nodes[n].tensors
                /\ DOMAIN d.nodes[n].ins = DOMAIN h.nodes[n].ins
<1>1. d \in GraphRecs
  BY DEF Disconnected
<1>2. /\ DOMAIN d.nodes = DOMAIN h.nodes /\ DOMAIN d.edges = DOMAIN h.edges
      /\ DOMAIN d.bound = DOMAIN h.bound
  <2>1. /\ DOMAIN d.nodes = 1 .. Len(d.nodes) /\ DOMAIN d.edges = 1 .. Len(d.edges)
        /\ DOMAIN d.bound = 1 .. Len(d.bound)
    BY <1>1, GraphFacts
  <2>2. /\ DOMAIN h.nodes = 1 .. Len(h.nodes) /\ DOMAIN h.edges = 1 .. Len(h.edges)
        /\ DOMAIN h.bound = 1 .. Len(h.bound)
    BY GraphFacts
  <2>. QED
    BY <2>1, <2>2 DEF Disconnected
<1>. QED
  BY <1>1, <1>2 DEF Disconnected

LEMMA DisconnectSound ==
    ASSUME NEW h, Sound(h), NEW E, NEW d, Disconnected(h, E, d)
    PROVE  Sound(d)
<1>1. h \in GraphRecs
  BY DEF Sound
<1>2. /\ d \in GraphRecs
      /\ DOMAIN d.nodes = DOMAIN h.nodes /\ DOMAIN d.edges = DOMAIN h.edges
      /\ DOMAIN d.bound = DOMAIN h.bound
      /\ LiveOf(d) = LiveOf(h) \ E /\ LiveOf(h) \subseteq DOMAIN h.edges
      /\ \A e \in DOMAIN h.edges : SameEdge(h, d, e)
      /\ \A n \in DOMAIN h.nodes :
           /\ d.nodes[n].kind = h.nodes[n].kind /\ d.nodes[n].tensors = h.nodes[n].tensors
           /\ DOMAIN d.nodes[n].ins = DOMAIN h.nodes[n].ins
  BY <1>1, DisconnectedFacts DEF LiveOf
<1>3. ASSUME NEW e \in LiveOf(d) PROVE EdgeSound(d, e)
  <2>1. e \in LiveOf(h) /\ e \notin E /\ EdgeSound(h, e) /\ SameEdge(h, d, e)
    BY <1>2 DEF Sound
  <2>2. ASSUME h.edges[e].in \in DOMAIN h.nodes[h.edges[e].to].ins
        PROVE  d.nodes[h.edges[e].to].ins[h.edges[e].in] = e
    <3>. DEFINE n == h.edges[e].to
                i == h.edges[e].in
    <3>1. n \in DOMAIN h.nodes /\ i \in DOMAIN h.nodes[n].ins /\ h.nodes[n].ins[i] = e
      BY <2>1, <2>2 DEF EdgeSound
    <3>2. ASSUME NEW x \in LiveOf(h) \cap E, h.edges[x].to = n, h.edges[x].in = i PROVE FALSE
      <4>1. EdgeSound(h, x)
        BY DEF Sound
      <4>2. h.nodes[n].ins[i] = x
        BY <3>1, <3>2, <4>1 DEF EdgeSound
      <4>. QED
        BY <2>1, <3>1, <4>2
    <3>. HIDE DEF n, i
    <3>3. d.nodes[n].ins[i] = h.nodes[n].ins[i]
      BY <3>1, <3>2 DEF Disconnected
    <3>. QED
      BY <3>1, <3>3 DEF n, i
  <2>. QED
    BY <1>2, <2>1, <2>2 DEF EdgeSound, SameEdge
<1>4. ASSUME NEW n \in DOMAIN d.nodes PROVE NodeSound(d, n)
  <2>1. n \in DOMAIN h.nodes /\ NodeSound(h, n)
    BY <1>2 DEF Sound
  <2>2. d.nodes[n].outs = {e \in LiveOf(d) : d.edges[e].from = n}
    <3>1. d.nodes[n].outs = h.nodes[n].outs \ {e \in LiveOf(h) \cap E : h.edges[e].from = n}
      BY <2>1 DEF Disconnected
    <3>2. h.nodes[n].outs = {e \in LiveOf(h) : h.edges[e].from = n}
      BY <2>1 DEF NodeSound
    <3>3. d.nodes[n].outs = {e \in LiveOf(h) \ E : h.edges[e].from = n}
      BY <3>1, <3>2
    <3>4. \A e \in LiveOf(h) : d.edges[e].from = h.edges[e].from
      BY <1>2 DEF SameEdge
    <3>. QED
      BY <1>2, <3>3, <3>4
  <2>3. ASSUME NEW i \in DOMAIN d.nodes[n].ins, d.nodes[n].ins[i] # 0
        PROVE  /\ d.nodes[n].ins[i] \in LiveOf(d)
               /\ d.edges[d.nodes[n].ins[i]].to = n /\ d.edges[d.nodes[n].ins[i]].in = i
    <3>1. i \in DOMAIN h.nodes[n].ins
      BY <1>2, <2>1
    <3>2. /\ \A e \in LiveOf(h) \cap E : ~(h.edges[e].to = n /\ h.edges[e].in = i)
          /\ d.nodes[n].ins[i] = h.nodes[n].ins[i]
      BY <2>1, <2>3, <3>1 DEF Disconnected
    <3>. DEFINE e == h.nodes[n].ins[i]
    <3>3. e \in LiveOf(h) /\ h.edges[e].to = n /\ h.edges[e].in = i
      BY <2>1, <2>3, <3>1, <3>2 DEF NodeSound
    <3>. HIDE DEF e
    <3>4. e \in LiveOf(d) /\ SameEdge(h, d, e)
      BY <1>2, <3>2, <3>3
    <3>. QED
      BY <3>2, <3>3, <3>4 DEF SameEdge, e
  <2>. QED
    BY <1>2, <2>1, <2>2, <2>3 DEF NodeSound
<1>5. ASSUME NEW t \in DOMAIN d.bound
      PROVE  d.bound[t] = {e \in LiveOf(d) : d.edges[e].tensor = t}
  <2>1. d.bound[t] = h.bound[t] \ {e \in LiveOf(h) \cap E : h.edges[e].tensor = t}
    BY <1>2 DEF Disconnected
  <2>2. h.bound[t] = {e \in LiveOf(h) : h.edges[e].tensor = t}
    BY <1>2 DEF Sound
  <2>3. d.bound[t] = {e \in LiveOf(h) \ E : h.edges[e].tensor = t}
    BY <2>1, <2>2
  <2>4. \A e \in LiveOf(h) : d.edges[e].tensor = h.edges[e].tensor
    BY <1>2 DEF SameEdge
  <2>. QED
    BY <1>2, <2>3, <2>4
<1>. QED
  BY <1>2, <1>3, <1>4, <1>5 DEF Sound

\* c is h with one edge more, from output i of node a to input j of node b.
Connected(h, a, i, b, j, c) ==
    /\ c \in GraphRecs
    /\ Len(c.nodes) = Len(h.nodes) /\ Len(c.edges) = Len(h.edges) + 1 /\ Len(c.bound) = Len(h.bound)
    /\ \A e \in DOMAIN h.edges : c.edges[e] = h.edges[e]
    /\ LET e == Len(h.edges) + 1 IN
         /\ c.edges[e].from = a /\ c.edges[e].out = i /\ c.edges[e].to = b /\ c.edges[e].in = j
         /\ c.edges[e].tensor = h.nodes[a].tensors[i]
         /\ LiveOf(c) = LiveOf(h) \cup {e}
         /\ \A n \in DOMAIN h.nodes :
              /\ c.nodes[n].kind = h.nodes[n].kind /\ c.nodes[n].tensors = h.nodes[n].tensors
              /\ c.nodes[n].outs = h.nodes[n].outs \cup (IF n = a THEN {e} ELSE {})
              /\ DOMAIN c.nodes[n].ins = DOMAIN h.nodes[n].ins
              /\ \A k \in DOMAIN h.nodes[n].ins :
                   c.nodes[n].ins[k] = IF n = b /\ k = j THEN e ELSE h.nodes[n].ins[k]
         /\ \A t \in DOMAIN h.bound :
              c.bound[t] = h.bound[t] \cup (IF t = h.nodes[a].tensors[i] THEN {e} ELSE {})

LEMMA ConnectIs ==
    ASSUME NEW h \in GraphRecs, NEW a \in DOMAIN h.nodes, NEW i \in DOMAIN h.nodes[a].tensors,
           NEW b \in DOMAIN h.nodes, NEW j \in Nat, h.nodes[a].tensors[i] \in DOMAIN h.bound
    PROVE  Connected(h, a, i, b, j, Connect(h, a, i, b, j))
<1>. DEFINE e == Len(h.edges) + 1
            t == h.nodes[a].tensors[i]
            edge == [from |-> a, out |-> i, to |-> b, in |-> j, tensor |-> t, live |-> TRUE]
            ins == [k \in DOMAIN h.nodes[b].ins |-> IF k = j THEN e ELSE h.nodes[b].ins[k]]
            first == [h.nodes[a] EXCEPT !.outs = @ \cup {e}]
            nodes == [h.nodes EXCEPT ![a].outs = @ \cup {e}, ![b].ins = ins]
            edges == Append(h.edges, edge)
            bound == [h.bound EXCEPT ![t] = @ \cup {e}]
            c == Connect(h, a, i, b, j)
<1>1. /\ c.nodes = nodes /\ c.edges = edges /\ c.bound = bound
      /\ c = [nodes |-> nodes, edges |-> edges, bound |-> bound]
  <2>1. c = [nodes |-> nodes, edges |-> edges, bound |-> bound]
    BY DEF Connect
  <2>. HIDE DEF c, nodes, edges, bound
  <2>. QED
    BY <2>1
<1>2. /\ h.nodes \in Seq(NodeRecs) /\ h.edges \in Seq(EdgeRecs) /\ h.bound \in Seq(SUBSET Nat)
      /\ DOMAIN h.nodes = 1 .. Len(h.nodes) /\ Len(h.nodes) \in Nat
      /\ DOMAIN h.edges = 1 .. Len(h.edges) /\ Len(h.edges) \in Nat
      /\ DOMAIN h.bound = 1 .. Len(h.bound) /\ Len(h.bound) \in Nat
      /\ \A n \in DOMAIN h.nodes : h.nodes[n] \in NodeRecs /\ h.nodes[n].ins \in Seq(Nat)
      /\ t \in Nat /\ i \in Nat /\ a \in Nat /\ b \in Nat /\ e \in Nat
  <2>1. h.nodes[a].tensors \in Seq(Nat)
    BY GraphFacts
  <2>2. i \in Nat /\ t \in Nat
    BY <2>1
  <2>. QED
    BY <2>2, GraphFacts
<1>. HIDE DEF c, e, t
<1>3. /\ edges \in Seq(EdgeRecs) /\ Len(edges) = Len(h.edges) + 1 /\ edges[e] = edge
      /\ \A x \in DOMAIN h.edges : edges[x] = h.edges[x]
  <2>1. edge \in EdgeRecs
    BY <1>2 DEF EdgeRecs
  <2>. HIDE DEF edge
  <2>. QED
    BY <1>2, <2>1, AppendProperties DEF e
<1>4. ins \in Seq(Nat) /\ DOMAIN ins = DOMAIN h.nodes[b].ins
  <2>. DEFINE l == Len(h.nodes[b].ins)
  <2>1. l \in Nat /\ DOMAIN h.nodes[b].ins = 1 .. l /\ h.nodes[b].ins \in Seq(Nat)
    BY <1>2
  <2>2. \A k \in 1 .. l : ins[k] \in Nat
    BY <1>2, <2>1
  <2>. HIDE DEF l
  <2>3. ins = [k \in 1 .. l |-> ins[k]]
    BY <2>1
  <2>. HIDE DEF ins
  <2>. QED
    BY <2>1, <2>2, <2>3, ListOf
<1>5. ASSUME NEW n \in DOMAIN h.nodes
      PROVE  /\ nodes[n] \in NodeRecs
             /\ nodes[n].kind = h.nodes[n].kind /\ nodes[n].tensors = h.nodes[n].tensors
             /\ nodes[n].outs = h.nodes[n].outs \cup (IF n = a THEN {e} ELSE {})
             /\ nodes[n].ins = IF n = b THEN ins ELSE h.nodes[n].ins
  <2>1. h.nodes[n] \in NodeRecs
    BY <1>2
  <2>. HIDE DEF ins
  <2>. QED
    BY <1>2, <1>4, <2>1 DEF NodeRecs
<1>6. DOMAIN nodes = DOMAIN h.nodes /\ nodes \in Seq(NodeRecs) /\ Len(nodes) = Len(h.nodes)
  <2>1. nodes = [n \in 1 .. Len(h.nodes) |-> nodes[n]] /\ Len(h.nodes) \in Nat
    BY <1>2
  <2>2. \A n \in 1 .. Len(h.nodes) : nodes[n] \in NodeRecs
    BY <1>2, <1>5
  <2>. HIDE DEF nodes
  <2>. QED
    BY <1>2, <2>1, <2>2, ListOf
<1>7. /\ bound \in Seq(SUBSET Nat) /\ Len(bound) = Len(h.bound)
      /\ \A x \in DOMAIN h.bound : bound[x] = h.bound[x] \cup (IF x = t THEN {e} ELSE {})
  BY <1>2 DEF t
<1>8. /\ c \in GraphRecs
      /\ Len(c.nodes) = Len(h.nodes) /\ Len(c.edges) = Len(h.edges) + 1
      /\ Len(c.bound) = Len(h.bound)
  <2>. HIDE DEF nodes, edges, bound
  <2>. QED
    BY <1>1, <1>3, <1>6, <1>7 DEF GraphRecs
<1>9. /\ \A x \in DOMAIN h.edges : c.edges[x] = h.edges[x]
      /\ c.edges[e].from = a /\ c.edges[e].out = i /\ c.edges[e].to = b /\ c.edges[e].in = j
      /\ c.edges[e].tensor = t /\ c.edges[e].live
  <2>. HIDE DEF edges
  <2>. QED
    BY <1>1, <1>3
<1>10. LiveOf(c) = LiveOf(h) \cup {e}
  <2>1. DOMAIN c.edges = DOMAIN h.edges \cup {e}
    <3>1. DOMAIN c.edges = 1 .. Len(c.edges)
      BY <1>8, GraphFacts
    <3>. QED
      BY <1>2, <1>8, <3>1 DEF e
  <2>. QED
    BY <1>9, <2>1 DEF LiveOf
<1>11. ASSUME NEW n \in DOMAIN h.nodes
       PROVE  /\ c.nodes[n].kind = h.nodes[n].kind /\ c.nodes[n].tensors = h.nodes[n].tensors
              /\ c.nodes[n].outs = h.nodes[n].outs \cup (IF n = a THEN {e} ELSE {})
              /\ DOMAIN c.nodes[n].ins = DOMAIN h.nodes[n].ins
              /\ \A k \in DOMAIN h.nodes[n].ins :
                   c.nodes[n].ins[k] = IF n = b /\ k = j THEN e ELSE h.nodes[n].ins[k]
  <2>1. c.nodes[n] = nodes[n]
    BY <1>1
  <2>2. /\ DOMAIN ins = DOMAIN h.nodes[b].ins
        /\ \A k \in DOMAIN ins : ins[k] = IF k = j THEN e ELSE h.nodes[b].ins[k]
    OBVIOUS
  <2>. HIDE DEF nodes, ins
  <2>. QED
    BY <1>5, <2>1, <2>2
<1>12. \A x \in DOMAIN h.bound : c.bound[x] = h.bound[x] \cup (IF x = t THEN {e} ELSE {})
  <2>. HIDE DEF bound
  <2>. QED
    BY <1>1, <1>7
<1>. QED
  BY <1>8, <1>9, <1>10, <1>11, <1>12 DEF Connected, c, e, t

LEMMA ConnectedFacts ==
    ASSUME NEW h \in GraphRecs, NEW a, NEW i, NEW b, NEW j, NEW c, Connected(h, a, i, b, j, c)
    PROVE  /\ c \in GraphRecs
           /\ DOMAIN c.nodes = DOMAIN h.nodes
           /\ DOMAIN c.edges = DOMAIN h.edges \cup {Len(h.edges) + 1}
           /\ Len(h.edges) + 1 \notin DOMAIN h.edges /\ Len(h.edges) + 1 \in Nat \ {0}
           /\ DOMAIN c.bound = DOMAIN h.bound
<1>1. c \in GraphRecs
  BY DEF Connected
<1>2. /\ DOMAIN c.nodes = 1 .. Len(c.nodes) /\ DOMAIN c.edges = 1 .. Len(c.edges)
      /\ DOMAIN c.bound = 1 .. Len(c.bound)
  BY <1>1, GraphFacts
<1>3. /\ DOMAIN h.nodes = 1 .. Len(h.nodes) /\ DOMAIN h.edges = 1 .. Len(h.edges)
      /\ DOMAIN h.bound = 1 .. Len(h.bound) /\ Len(h.edges) \in Nat
  BY GraphFacts
<1>. QED
  BY <1>1, <1>2, <1>3 DEF Connected

\* The input must be free, or past the end of the list.
LEMMA ConnectSound ==
    ASSUME NEW h, Sound(h), NEW a \in DOMAIN h.nodes, NEW i \in DOMAIN h.nodes[a].tensors,
           NEW b \in DOMAIN h.nodes, NEW j \in Nat,
           j \in DOMAIN h.nodes[b].ins => h.nodes[b].ins[j] = 0,
           NEW c, Connected(h, a, i, b, j, c)
    PROVE  Sound(c)
<1>. DEFINE e == Len(h.edges) + 1
            t == h.nodes[a].tensors[i]
<1>1. h \in GraphRecs /\ \A x \in LiveOf(h) : EdgeSound(h, x) /\ x \in DOMAIN h.edges
  BY DEF Sound, LiveOf
<1>2. /\ c \in GraphRecs /\ DOMAIN c.nodes = DOMAIN h.nodes /\ DOMAIN c.bound = DOMAIN h.bound
      /\ DOMAIN c.edges = DOMAIN h.edges \cup {e} /\ e \notin DOMAIN h.edges /\ e \in Nat \ {0}
  BY <1>1, ConnectedFacts
<1>3. /\ \A x \in DOMAIN h.edges : c.edges[x] = h.edges[x]
      /\ c.edges[e].from = a /\ c.edges[e].out = i /\ c.edges[e].to = b /\ c.edges[e].in = j
      /\ c.edges[e].tensor = t /\ LiveOf(c) = LiveOf(h) \cup {e}
      /\ \A x \in DOMAIN h.bound : c.bound[x] = h.bound[x] \cup (IF x = t THEN {e} ELSE {})
  BY DEF Connected
<1>4. \A n \in DOMAIN h.nodes :
        /\ c.nodes[n].tensors = h.nodes[n].tensors
        /\ c.nodes[n].outs = h.nodes[n].outs \cup (IF n = a THEN {e} ELSE {})
        /\ DOMAIN c.nodes[n].ins = DOMAIN h.nodes[n].ins
        /\ \A k \in DOMAIN h.nodes[n].ins :
             c.nodes[n].ins[k] = IF n = b /\ k = j THEN e ELSE h.nodes[n].ins[k]
  BY DEF Connected
<1>. HIDE DEF e, t
<1>5. ASSUME NEW x \in LiveOf(c) PROVE EdgeSound(c, x)
  <2>1. CASE x = e
    <3>1. j \in DOMAIN c.nodes[b].ins => c.nodes[b].ins[j] = e
      BY <1>4
    <3>. QED
      BY <1>2, <1>3, <1>4, <2>1, <3>1 DEF EdgeSound, t
  <2>2. CASE x \in LiveOf(h)
    <3>1. EdgeSound(h, x) /\ c.edges[x] = h.edges[x]
      BY <1>1, <1>3, <2>2
    <3>2. ASSUME h.edges[x].to = b, h.edges[x].in = j, j \in DOMAIN h.nodes[b].ins PROVE FALSE
      <4>1. h.nodes[b].ins[j] = x /\ h.nodes[b].ins[j] = 0
        BY <3>1, <3>2 DEF EdgeSound
      <4>2. x \in 1 .. Len(h.edges)
        BY <1>1, <2>2, GraphFacts
      <4>. QED
        BY <4>1, <4>2
    <3>3. ASSUME NEW n, NEW k, n = h.edges[x].to, k = h.edges[x].in, k \in DOMAIN c.nodes[n].ins
          PROVE  c.nodes[n].ins[k] = x
      <4>1. n \in DOMAIN h.nodes /\ (k \in DOMAIN h.nodes[n].ins => h.nodes[n].ins[k] = x)
        BY <3>1, <3>3 DEF EdgeSound
      <4>2. k \in DOMAIN h.nodes[n].ins
        BY <4>1, <3>3, <1>4
      <4>3. ~(n = b /\ k = j)
        BY <4>2, <3>2, <3>3
      <4> QED
        BY <4>1, <4>2, <4>3, <1>4
    <3>4. /\ h.edges[x].from \in DOMAIN c.nodes /\ h.edges[x].to \in DOMAIN c.nodes
          /\ h.edges[x].out \in DOMAIN c.nodes[h.edges[x].from].tensors
          /\ h.edges[x].tensor = c.nodes[h.edges[x].from].tensors[h.edges[x].out]
      BY <1>2, <1>4, <3>1 DEF EdgeSound
    <3>5. h.edges[x].in \in DOMAIN c.nodes[h.edges[x].to].ins
            => c.nodes[h.edges[x].to].ins[h.edges[x].in] = x
      BY <3>3
    <3>. QED
      BY <3>1, <3>4, <3>5 DEF EdgeSound
  <2>. QED
    BY <1>3, <2>1, <2>2
<1>6. ASSUME NEW n \in DOMAIN c.nodes PROVE NodeSound(c, n)
  <2>1. n \in DOMAIN h.nodes /\ NodeSound(h, n)
    BY <1>2 DEF Sound
  <2>2. c.nodes[n].outs = {x \in LiveOf(c) : c.edges[x].from = n}
    <3>1. h.nodes[n].outs = {x \in LiveOf(h) : h.edges[x].from = n}
      BY <2>1 DEF NodeSound
    <3>2. \A x \in LiveOf(h) : c.edges[x].from = h.edges[x].from
      BY <1>1, <1>3
    <3>3. c.nodes[n].outs = h.nodes[n].outs \cup (IF n = a THEN {e} ELSE {})
      BY <1>4, <2>1
    <3>. QED
      BY <1>3, <3>1, <3>2, <3>3
  <2>3. ASSUME NEW k \in DOMAIN c.nodes[n].ins, c.nodes[n].ins[k] # 0
        PROVE  /\ c.nodes[n].ins[k] \in LiveOf(c)
               /\ c.edges[c.nodes[n].ins[k]].to = n /\ c.edges[c.nodes[n].ins[k]].in = k
    <3>1. /\ k \in DOMAIN h.nodes[n].ins
          /\ c.nodes[n].ins[k] = IF n = b /\ k = j THEN e ELSE h.nodes[n].ins[k]
      BY <1>4, <2>1
    <3>2. CASE n = b /\ k = j
      BY <1>3, <3>1, <3>2
    <3>3. CASE ~(n = b /\ k = j)
      <4>1. /\ h.nodes[n].ins[k] \in LiveOf(h)
            /\ h.edges[h.nodes[n].ins[k]].to = n /\ h.edges[h.nodes[n].ins[k]].in = k
            /\ c.nodes[n].ins[k] = h.nodes[n].ins[k]
        BY <2>1, <2>3, <3>1, <3>3 DEF NodeSound
      <4>. QED
        BY <1>1, <1>3, <4>1
    <3>. QED
      BY <3>2, <3>3
  <2>. QED
    BY <1>2, <1>4, <2>1, <2>2, <2>3 DEF NodeSound
<1>7. ASSUME NEW x \in DOMAIN c.bound
      PROVE  c.bound[x] = {y \in LiveOf(c) : c.edges[y].tensor = x}
  <2>1. h.bound[x] = {y \in LiveOf(h) : h.edges[y].tensor = x}
    BY <1>2 DEF Sound
  <2>2. \A y \in LiveOf(h) : c.edges[y].tensor = h.edges[y].tensor
    BY <1>1, <1>3
  <2>3. c.bound[x] = h.bound[x] \cup (IF x = t THEN {e} ELSE {})
    BY <1>2, <1>3
  <2>. QED
    BY <1>3, <2>1, <2>2, <2>3
<1>. QED
  BY <1>2, <1>5, <1>6, <1>7 DEF Sound

\* d is h with one node more, of the kind given, its inputs free.
Extended(h, kind, inputs, outputs, d) ==
    /\ d \in GraphRecs
    /\ Len(d.nodes) = Len(h.nodes) + 1 /\ d.edges = h.edges
    /\ Len(d.bound) = Len(h.bound) + outputs
    /\ \A n \in DOMAIN h.nodes : d.nodes[n] = h.nodes[n]
    /\ LET N == d.nodes[Len(h.nodes) + 1] IN
         /\ N.kind = kind /\ N.outs = {}
         /\ Len(N.ins) = inputs /\ \A i \in 1 .. inputs : N.ins[i] = 0
         /\ Len(N.tensors) = outputs /\ \A i \in 1 .. outputs : N.tensors[i] = Len(h.bound) + i
    /\ \A t \in DOMAIN h.bound : d.bound[t] = h.bound[t]
    /\ \A i \in 1 .. outputs : d.bound[Len(h.bound) + i] = {}

LEMMA AddNodeIs ==
    ASSUME NEW h \in GraphRecs, NEW kind \in Kinds, NEW inputs \in Nat, NEW outputs \in Nat
    PROVE  Extended(h, kind, inputs, outputs, AddNode(h, kind, inputs, outputs))
<1>. DEFINE ins == [i \in 1 .. inputs |-> 0]
            tensors == [i \in 1 .. outputs |-> Len(h.bound) + i]
            empty == [i \in 1 .. outputs |-> {}]
            N == [kind |-> kind, ins |-> ins, outs |-> {}, tensors |-> tensors]
            d == AddNode(h, kind, inputs, outputs)
<1>1. /\ h.nodes \in Seq(NodeRecs) /\ h.edges \in Seq(EdgeRecs) /\ h.bound \in Seq(SUBSET Nat)
      /\ DOMAIN h.nodes = 1 .. Len(h.nodes) /\ Len(h.nodes) \in Nat
      /\ DOMAIN h.bound = 1 .. Len(h.bound) /\ Len(h.bound) \in Nat
  BY GraphFacts
<1>2. /\ ins \in Seq(Nat) /\ Len(ins) = inputs /\ \A i \in 1 .. inputs : ins[i] = 0
      /\ tensors \in Seq(Nat) /\ Len(tensors) = outputs
      /\ \A i \in 1 .. outputs : tensors[i] = Len(h.bound) + i
      /\ empty \in Seq(SUBSET Nat) /\ Len(empty) = outputs /\ \A i \in 1 .. outputs : empty[i] = {}
  <2>1. /\ ins \in [1 .. inputs -> Nat] /\ tensors \in [1 .. outputs -> Nat]
        /\ empty \in [1 .. outputs -> SUBSET Nat]
    BY <1>1
  <2>. QED
    BY <2>1
<1>3. d.nodes = Append(h.nodes, N) /\ d.edges = h.edges /\ d.bound = h.bound \o empty
      /\ d = [nodes |-> d.nodes, edges |-> d.edges, bound |-> d.bound]
  <2>1. h = [nodes |-> h.nodes, edges |-> h.edges, bound |-> h.bound]
    BY DEF GraphRecs
  <2>2. d = [h EXCEPT !.nodes = Append(h.nodes, N), !.bound = h.bound \o empty]
    BY DEF AddNode
  <2>. HIDE DEF d, N, empty
  <2>. QED
    BY <2>1, <2>2
<1>. HIDE DEF d, ins, tensors, empty
<1>4. N \in NodeRecs
  BY <1>2 DEF NodeRecs
<1>5. N.kind = kind /\ N.outs = {} /\ N.ins = ins /\ N.tensors = tensors
  OBVIOUS
<1>. HIDE DEF N
<1>6. /\ d.nodes \in Seq(NodeRecs) /\ Len(d.nodes) = Len(h.nodes) + 1
      /\ \A n \in DOMAIN h.nodes : d.nodes[n] = h.nodes[n]
      /\ d.nodes[Len(h.nodes) + 1] = N
  BY <1>1, <1>3, <1>4, AppendProperties
<1>7. /\ d.bound \in Seq(SUBSET Nat) /\ Len(d.bound) = Len(h.bound) + outputs
      /\ \A t \in DOMAIN h.bound : d.bound[t] = h.bound[t]
      /\ \A i \in 1 .. outputs : d.bound[Len(h.bound) + i] = {}
  <2>. DEFINE S == SUBSET Nat
  <2>1. h.bound \in Seq(S) /\ empty \in Seq(S)
    BY <1>1, <1>2
  <2>. HIDE DEF S
  <2>2. /\ d.bound \in Seq(S) /\ Len(d.bound) = Len(h.bound) + Len(empty)
        /\ \A i \in 1 .. Len(h.bound) + Len(empty) :
             d.bound[i] = IF i <= Len(h.bound) THEN h.bound[i] ELSE empty[i - Len(h.bound)]
    BY <1>3, <2>1, ConcatProperties
  <2>3. ASSUME NEW i \in 1 .. outputs PROVE d.bound[Len(h.bound) + i] = {}
    <3>. DEFINE l == Len(h.bound)
                x == l + i
    <3>1. l \in Nat /\ Len(empty) = outputs /\ empty[i] = {}
      BY <1>1, <1>2
    <3>2. x \in 1 .. l + Len(empty) /\ ~(x <= l) /\ x - l = i
      BY <3>1
    <3>3. d.bound[x] = IF x <= l THEN h.bound[x] ELSE empty[x - l]
      BY <2>2, <3>2
    <3>. HIDE DEF x, l
    <3>4. d.bound[x] = {}
      BY <3>1, <3>2, <3>3
    <3>. QED
      BY <3>4 DEF x, l
  <2>4. ASSUME NEW t \in DOMAIN h.bound PROVE d.bound[t] = h.bound[t]
    <3>1. t \in 1 .. Len(h.bound) /\ Len(h.bound) \in Nat /\ Len(empty) \in Nat
      BY <1>1, <1>2
    <3>2. t \in 1 .. Len(h.bound) + Len(empty) /\ t <= Len(h.bound)
      BY <3>1
    <3>. QED
      BY <2>2, <3>2
  <2>5. d.bound \in Seq(SUBSET Nat)
    BY <2>2 DEF S
  <2>6. Len(d.bound) = Len(h.bound) + outputs
    BY <1>2, <2>2
  <2>. QED
    BY <2>3, <2>4, <2>5, <2>6
<1>8. d \in GraphRecs
  BY <1>1, <1>3, <1>6, <1>7 DEF GraphRecs
<1>. QED
  BY <1>2, <1>3, <1>5, <1>6, <1>7, <1>8 DEF Extended, d

LEMMA AddNodeSound ==
    ASSUME NEW h, Sound(h), NEW kind, NEW inputs \in Nat, NEW outputs \in Nat,
           NEW d, Extended(h, kind, inputs, outputs, d)
    PROVE  /\ Sound(d) /\ LiveOf(d) = LiveOf(h)
           /\ DOMAIN d.nodes = DOMAIN h.nodes \cup {Len(h.nodes) + 1}
           /\ Len(h.nodes) + 1 \notin DOMAIN h.nodes
<1>1. h \in GraphRecs /\ d \in GraphRecs
  BY DEF Sound, Extended
<1>2. /\ DOMAIN h.nodes = 1 .. Len(h.nodes) /\ Len(h.nodes) \in Nat
      /\ DOMAIN h.bound = 1 .. Len(h.bound) /\ Len(h.bound) \in Nat
      /\ DOMAIN d.nodes = 1 .. Len(d.nodes) /\ DOMAIN d.bound = 1 .. Len(d.bound)
      /\ Len(d.nodes) = Len(h.nodes) + 1 /\ Len(d.bound) = Len(h.bound) + outputs
  <2>1. Len(d.nodes) = Len(h.nodes) + 1 /\ Len(d.bound) = Len(h.bound) + outputs
    BY DEF Extended
  <2>. QED
    BY <1>1, <2>1, GraphFacts
<1>3. LiveOf(d) = LiveOf(h) /\ d.edges = h.edges
  BY DEF Extended, LiveOf
<1>. DEFINE m == Len(h.nodes) + 1
<1>4. DOMAIN d.nodes = DOMAIN h.nodes \cup {m} /\ m \notin DOMAIN h.nodes
  BY <1>2
<1>5. ASSUME NEW e \in LiveOf(d) PROVE EdgeSound(d, e)
  <2>1. EdgeSound(h, e)
    BY <1>3 DEF Sound
  <2>2. d.nodes[d.edges[e].from] = h.nodes[h.edges[e].from] /\ d.nodes[d.edges[e].to] = h.nodes[h.edges[e].to]
    BY <1>3, <2>1 DEF EdgeSound, Extended
  <2>. QED
    BY <1>3, <1>4, <2>1, <2>2 DEF EdgeSound
<1>6. ASSUME NEW n \in DOMAIN d.nodes PROVE NodeSound(d, n)
  <2>1. CASE n \in DOMAIN h.nodes
    <3>1. NodeSound(h, n) /\ d.nodes[n] = h.nodes[n] /\ DOMAIN h.bound \subseteq DOMAIN d.bound
      BY <1>2, <2>1 DEF Sound, Extended
    <3>. QED
      BY <1>3, <3>1 DEF NodeSound
  <2>2. CASE n = m
    <3>1. {e \in LiveOf(d) : d.edges[e].from = n} = {}
      <4>1. ASSUME NEW e \in LiveOf(h) PROVE h.edges[e].from # m
        BY <1>4 DEF Sound, EdgeSound
      <4>. QED
        BY <1>3, <2>2, <4>1
    <3>2. /\ d.nodes[n].ins \in Seq(Nat) /\ d.nodes[n].tensors \in Seq(Nat)
          /\ d.nodes[n].outs = {}
          /\ Len(d.nodes[n].ins) = inputs /\ \A i \in 1 .. inputs : d.nodes[n].ins[i] = 0
          /\ Len(d.nodes[n].tensors) = outputs
          /\ \A i \in 1 .. outputs : d.nodes[n].tensors[i] = Len(h.bound) + i
      <4>1. d.nodes[n].ins \in Seq(Nat) /\ d.nodes[n].tensors \in Seq(Nat)
        BY <1>1, GraphFacts
      <4>. QED
        BY <2>2, <4>1 DEF Extended
    <3>3. \A i \in DOMAIN d.nodes[n].tensors : d.nodes[n].tensors[i] \in DOMAIN d.bound
      <4>1. DOMAIN d.nodes[n].tensors = 1 .. outputs
        BY <3>2
      <4>2. \A i \in 1 .. outputs : Len(h.bound) + i \in 1 .. Len(h.bound) + outputs
        BY <1>2
      <4>. QED
        BY <1>2, <3>2, <4>1, <4>2
    <3>4. \A i \in DOMAIN d.nodes[n].ins : d.nodes[n].ins[i] = 0
      BY <3>2
    <3>. QED
      BY <3>1, <3>2, <3>3, <3>4 DEF NodeSound
  <2>. QED
    BY <1>4, <2>1, <2>2
<1>7. ASSUME NEW t \in DOMAIN d.bound
      PROVE  d.bound[t] = {e \in LiveOf(d) : d.edges[e].tensor = t}
  <2>1. CASE t \in DOMAIN h.bound
    BY <1>3, <2>1 DEF Sound, Extended
  <2>2. CASE t \notin DOMAIN h.bound
    <3>1. d.bound[t] = {}
      <4>1. t - Len(h.bound) \in 1 .. outputs /\ t = Len(h.bound) + (t - Len(h.bound))
        BY SMTT(30), <1>2, <2>2
      <4>. QED
        BY <4>1 DEF Extended
    <3>2. ASSUME NEW e \in LiveOf(h) PROVE h.edges[e].tensor # t
      <4>1. EdgeSound(h, e) /\ NodeSound(h, h.edges[e].from)
        BY DEF Sound, EdgeSound
      <4>2. h.edges[e].tensor \in DOMAIN h.bound
        BY <4>1 DEF EdgeSound, NodeSound
      <4>. QED
        BY <2>2, <4>2
    <3>. QED
      BY <1>3, <3>1, <3>2
  <2>. QED
    BY <2>1, <2>2
<1>. QED
  BY <1>1, <1>3, <1>4, <1>5, <1>6, <1>7 DEF Sound

\* d is h with tensor t as a further output of node n.
Retensored(h, n, t, d) ==
    /\ d \in GraphRecs /\ d.edges = h.edges /\ d.bound = h.bound
    /\ Len(d.nodes) = Len(h.nodes)
    /\ \A m \in DOMAIN h.nodes :
         /\ d.nodes[m].kind = h.nodes[m].kind /\ d.nodes[m].ins = h.nodes[m].ins
         /\ d.nodes[m].outs = h.nodes[m].outs
         /\ d.nodes[m].tensors = IF m = n THEN Append(h.nodes[m].tensors, t) ELSE h.nodes[m].tensors

LEMMA RetensorIs ==
    ASSUME NEW h \in GraphRecs, NEW n \in DOMAIN h.nodes, NEW t \in Nat
    PROVE  Retensored(h, n, t, [h EXCEPT !.nodes[n].tensors = Append(@, t)])
<1>. DEFINE tensors == Append(h.nodes[n].tensors, t)
            N == [h.nodes[n] EXCEPT !.tensors = tensors]
            nodes == [h.nodes EXCEPT ![n] = N]
            d == [h EXCEPT !.nodes[n].tensors = Append(@, t)]
<1>1. d.nodes = nodes /\ d.edges = h.edges /\ d.bound = h.bound
      /\ d = [nodes |-> nodes, edges |-> h.edges, bound |-> h.bound]
  <2>1. h = [nodes |-> h.nodes, edges |-> h.edges, bound |-> h.bound]
    BY DEF GraphRecs
  <2>2. d = [h EXCEPT !.nodes = nodes]
    OBVIOUS
  <2>. HIDE DEF d, nodes
  <2>. QED
    BY <2>1, <2>2
<1>2. h.nodes[n] \in NodeRecs /\ tensors \in Seq(Nat)
  <2>1. h.nodes[n] \in NodeRecs /\ h.nodes[n].tensors \in Seq(Nat)
    BY GraphFacts
  <2>. QED
    BY <2>1, AppendProperties
<1>. HIDE DEF d, tensors
<1>3. /\ N \in NodeRecs /\ N.kind = h.nodes[n].kind /\ N.ins = h.nodes[n].ins
      /\ N.outs = h.nodes[n].outs /\ N.tensors = tensors
  BY <1>2 DEF NodeRecs
<1>. HIDE DEF N
<1>4. n \in 1 .. Len(h.nodes) /\ h.nodes \in Seq(NodeRecs) /\ DOMAIN h.nodes = 1 .. Len(h.nodes)
  BY GraphFacts
<1>5. nodes \in Seq(NodeRecs) /\ Len(nodes) = Len(h.nodes)
  BY <1>3, <1>4, ExceptSeq
<1>6. \A m \in DOMAIN h.nodes : nodes[m] = IF m = n THEN N ELSE h.nodes[m]
  OBVIOUS
<1>. HIDE DEF nodes
<1>7. d \in GraphRecs
  BY <1>1, <1>5 DEF GraphRecs
<1>. QED
  BY <1>1, <1>3, <1>5, <1>6, <1>7 DEF Retensored, d, tensors

LEMMA RetensorSound ==
    ASSUME NEW h, Sound(h), NEW n \in DOMAIN h.nodes, NEW t \in DOMAIN h.bound,
           NEW d, Retensored(h, n, t, d)
    PROVE  Sound(d) /\ LiveOf(d) = LiveOf(h) /\ DOMAIN d.nodes = DOMAIN h.nodes
<1>1. h \in GraphRecs /\ d \in GraphRecs /\ d.edges = h.edges /\ d.bound = h.bound
  BY DEF Sound, Retensored
<1>2. LiveOf(d) = LiveOf(h)
  BY <1>1 DEF LiveOf
<1>3. DOMAIN d.nodes = DOMAIN h.nodes
  <2>1. /\ DOMAIN d.nodes = 1 .. Len(d.nodes) /\ DOMAIN h.nodes = 1 .. Len(h.nodes)
        /\ Len(d.nodes) = Len(h.nodes)
    BY <1>1, GraphFacts DEF Retensored
  <2>. QED
    BY <2>1
<1>4. ASSUME NEW m \in DOMAIN h.nodes
      PROVE  /\ d.nodes[m].ins = h.nodes[m].ins /\ d.nodes[m].outs = h.nodes[m].outs
             /\ DOMAIN h.nodes[m].tensors \subseteq DOMAIN d.nodes[m].tensors
             /\ \A i \in DOMAIN h.nodes[m].tensors : d.nodes[m].tensors[i] = h.nodes[m].tensors[i]
             /\ \A i \in DOMAIN d.nodes[m].tensors :
                  i \in DOMAIN h.nodes[m].tensors \/ d.nodes[m].tensors[i] = t
  <2>1. /\ d.nodes[m].ins = h.nodes[m].ins /\ d.nodes[m].outs = h.nodes[m].outs
        /\ d.nodes[m].tensors = IF m = n THEN Append(h.nodes[m].tensors, t) ELSE h.nodes[m].tensors
    BY DEF Retensored
  <2>2. h.nodes[m].tensors \in Seq(Nat) /\ t \in Nat
    BY <1>1, GraphFacts
  <2>. DEFINE s == h.nodes[m].tensors
  <2>3. /\ DOMAIN s = 1 .. Len(s) /\ Len(s) \in Nat /\ DOMAIN Append(s, t) = 1 .. Len(s) + 1
        /\ \A i \in 1 .. Len(s) : Append(s, t)[i] = s[i]
        /\ Append(s, t)[Len(s) + 1] = t
    <3>. HIDE DEF s
    <3>. QED
      BY <2>2 DEF s
  <2>. HIDE DEF s
  <2>4. /\ DOMAIN s \subseteq DOMAIN Append(s, t)
        /\ \A i \in DOMAIN s : Append(s, t)[i] = s[i]
        /\ \A i \in DOMAIN Append(s, t) : i \in DOMAIN s \/ Append(s, t)[i] = t
    BY <2>3
  <2>5. d.nodes[m].tensors = IF m = n THEN Append(s, t) ELSE s
    BY <2>1 DEF s
  <2>6. /\ DOMAIN s \subseteq DOMAIN d.nodes[m].tensors
        /\ \A i \in DOMAIN s : d.nodes[m].tensors[i] = s[i]
        /\ \A i \in DOMAIN d.nodes[m].tensors : i \in DOMAIN s \/ d.nodes[m].tensors[i] = t
    BY <2>4, <2>5
  <2>. QED
    BY <2>1, <2>6 DEF s
<1>5. ASSUME NEW e \in LiveOf(d) PROVE EdgeSound(d, e)
  <2>1. EdgeSound(h, e)
    BY <1>2 DEF Sound
  <2>. QED
    <3>1. /\ d.edges[e].from \in DOMAIN d.nodes /\ d.edges[e].to \in DOMAIN d.nodes
          /\ d.edges[e].out \in DOMAIN h.nodes[d.edges[e].from].tensors
          /\ d.edges[e].tensor = h.nodes[d.edges[e].from].tensors[d.edges[e].out]
          /\ d.edges[e].in \in DOMAIN h.nodes[d.edges[e].to].ins
               => h.nodes[d.edges[e].to].ins[d.edges[e].in] = e
      <4>1. d.edges = h.edges
        BY <1>1
      <4> QED
        BY <4>1, <1>3, <2>1 DEF EdgeSound
    <3> QED
      BY <3>1, <1>1, <1>3, <1>4 DEF EdgeSound
<1>6. ASSUME NEW m \in DOMAIN d.nodes PROVE NodeSound(d, m)
  <2>1. NodeSound(h, m) /\ m \in DOMAIN h.nodes
    BY <1>3 DEF Sound
  <2>2. \A i \in DOMAIN d.nodes[m].tensors : d.nodes[m].tensors[i] \in DOMAIN d.bound
    BY <1>1, <1>4, <2>1 DEF NodeSound
  <2>. QED
    BY <1>1, <1>2, <1>4, <2>1, <2>2 DEF NodeSound
<1>. QED
  BY <1>1, <1>2, <1>3, <1>5, <1>6 DEF Sound

\* x is h without node n, all of whose edges are gone.
NodeRemoved(h, n, x) ==
    /\ x \in GraphRecs
    /\ Len(x.nodes) = Len(h.nodes) /\ Len(x.edges) = Len(h.edges) /\ Len(x.bound) = Len(h.bound)
    /\ \A e \in DOMAIN h.edges : SameEdge(h, x, e)
    /\ LiveOf(x) = {e \in LiveOf(h) : h.edges[e].from # n /\ h.edges[e].to # n}
    /\ x.nodes[n] = [kind |-> "removed", ins |-> <<>>, outs |-> {}, tensors |-> <<>>]
    /\ \A m \in DOMAIN h.nodes \ {n} :
         /\ x.nodes[m].kind = h.nodes[m].kind /\ x.nodes[m].tensors = h.nodes[m].tensors
         /\ DOMAIN x.nodes[m].ins = DOMAIN h.nodes[m].ins
         /\ \A i \in DOMAIN h.nodes[m].ins :
              /\ h.nodes[m].ins[i] \in LiveOf(x) => x.nodes[m].ins[i] = h.nodes[m].ins[i]
              /\ x.nodes[m].ins[i] \in {0, h.nodes[m].ins[i]}

LEMMA RemoveSound ==
    ASSUME NEW h, Sound(h), NEW n \in DOMAIN h.nodes,
           \A e \in LiveOf(h) : h.edges[e].to = n => h.edges[e].in \in DOMAIN h.nodes[n].ins
    PROVE  NodeRemoved(h, n, WithoutNode(h, n)) /\ Sound(WithoutNode(h, n))
<1>. DEFINE E == ToSet(h.nodes[n].ins) \cup h.nodes[n].outs
            d == Disconnect(h, E)
            N == [kind |-> "removed", ins |-> <<>>, outs |-> {}, tensors |-> <<>>]
            x == WithoutNode(h, n)
<1>1. h \in GraphRecs /\ Disconnected(h, E, d) /\ Sound(d)
  <2>. HIDE DEF E
  <2>1. h \in GraphRecs
    BY DEF Sound
  <2>2. Disconnected(h, E, d)
    BY <2>1, DisconnectIs
  <2>. HIDE DEF d
  <2>. QED
    BY <2>1, <2>2, DisconnectSound
<1>2. ASSUME NEW e \in LiveOf(h)
      PROVE  e \in E <=> h.edges[e].from = n \/ h.edges[e].to = n
  <2>1. EdgeSound(h, e) /\ NodeSound(h, n)
    BY DEF Sound
  <2>2. ASSUME e \in ToSet(h.nodes[n].ins) PROVE h.edges[e].to = n
    <3>1. PICK i \in DOMAIN h.nodes[n].ins : e = h.nodes[n].ins[i]
      BY <2>2 DEF ToSet
    <3>2. e # 0
      BY <1>1, GraphFacts DEF LiveOf
    <3>. QED
      BY <2>1, <3>1, <3>2 DEF NodeSound
  <2>3. e \in h.nodes[n].outs <=> h.edges[e].from = n
    BY <2>1 DEF NodeSound
  <2>4. ASSUME h.edges[e].to = n PROVE e \in ToSet(h.nodes[n].ins)
    <3>1. h.edges[e].in \in DOMAIN h.nodes[n].ins /\ h.nodes[n].ins[h.edges[e].in] = e
      BY <2>1, <2>4 DEF EdgeSound
    <3>. QED
      BY <3>1 DEF ToSet
  <2>. QED
    BY <2>2, <2>3, <2>4
<1>3. x = [d EXCEPT !.nodes[n] = N]
  BY DEF WithoutNode
<1>. HIDE DEF x, d, E
<1>4. /\ d \in GraphRecs /\ DOMAIN d.nodes = DOMAIN h.nodes /\ DOMAIN d.edges = DOMAIN h.edges
      /\ DOMAIN d.bound = DOMAIN h.bound /\ LiveOf(d) = LiveOf(h) \ E
      /\ \A e \in DOMAIN h.edges : SameEdge(h, d, e)
      /\ \A m \in DOMAIN h.nodes :
           /\ d.nodes[m].kind = h.nodes[m].kind /\ d.nodes[m].tensors = h.nodes[m].tensors
           /\ DOMAIN d.nodes[m].ins = DOMAIN h.nodes[m].ins
  BY <1>1, DisconnectedFacts
<1>5. /\ x = [nodes |-> [d.nodes EXCEPT ![n] = N], edges |-> d.edges, bound |-> d.bound]
      /\ x.nodes = [d.nodes EXCEPT ![n] = N] /\ x.edges = d.edges /\ x.bound = d.bound
  <2>1. d = [nodes |-> d.nodes, edges |-> d.edges, bound |-> d.bound]
    BY <1>4 DEF GraphRecs
  <2>. HIDE DEF N
  <2>2. x = [d EXCEPT !.nodes = [d.nodes EXCEPT ![n] = N]]
    BY <1>3
  <2>. DEFINE nodes == [d.nodes EXCEPT ![n] = N]
  <2>. HIDE DEF nodes
  <2>3. x = [d EXCEPT !.nodes = nodes]
    BY <2>2 DEF nodes
  <2>4. x = [nodes |-> nodes, edges |-> d.edges, bound |-> d.bound]
    BY <2>1, <2>3
  <2>5. x.nodes = nodes /\ x.edges = d.edges /\ x.bound = d.bound
    BY <2>4
  <2>. QED
    BY <2>4, <2>5 DEF nodes
<1>6. N \in NodeRecs /\ N.ins = <<>> /\ N.outs = {} /\ N.tensors = <<>>
  BY DEF NodeRecs, Kinds
<1>. HIDE DEF N
<1>7. x.nodes \in Seq(NodeRecs) /\ Len(x.nodes) = Len(d.nodes)
  <2>1. d.nodes \in Seq(NodeRecs) /\ n \in 1 .. Len(d.nodes)
    BY <1>4, GraphFacts
  <2>. QED
    BY <1>5, <1>6, <2>1, ExceptSeq
<1>8. DOMAIN x.nodes = DOMAIN h.nodes /\ x.nodes[n] = N
      /\ \A m \in DOMAIN h.nodes \ {n} : x.nodes[m] = d.nodes[m]
  BY <1>4, <1>5
<1>9. x \in GraphRecs
  <2>1. d.edges \in Seq(EdgeRecs) /\ d.bound \in Seq(SUBSET Nat)
    BY <1>4, GraphFacts
  <2>. QED
    BY <1>5, <1>7, <2>1 DEF GraphRecs
<1>10. LiveOf(x) = LiveOf(d)
  BY <1>5 DEF LiveOf
<1>11. LiveOf(x) = {e \in LiveOf(h) : h.edges[e].from # n /\ h.edges[e].to # n}
  BY <1>2, <1>4, <1>10
<1>12. ASSUME NEW m \in DOMAIN h.nodes \ {n}, NEW i \in DOMAIN h.nodes[m].ins
       PROVE  /\ h.nodes[m].ins[i] \in LiveOf(x) => x.nodes[m].ins[i] = h.nodes[m].ins[i]
              /\ x.nodes[m].ins[i] \in {0, h.nodes[m].ins[i]}
  <2>1. \/ /\ \E e \in LiveOf(h) \cap E : h.edges[e].to = m /\ h.edges[e].in = i
           /\ d.nodes[m].ins[i] = 0
        \/ d.nodes[m].ins[i] = h.nodes[m].ins[i]
    BY <1>1 DEF Disconnected
  <2>2. x.nodes[m].ins[i] = d.nodes[m].ins[i]
    BY <1>8
  <2>3. ASSUME NEW e \in LiveOf(h) \cap E, h.edges[e].to = m, h.edges[e].in = i
        PROVE  h.nodes[m].ins[i] \notin LiveOf(x)
    <3>1. h.nodes[m].ins[i] = e
      BY <2>3 DEF Sound, EdgeSound
    <3>. QED
      BY <1>4, <1>10, <3>1
  <2>. QED
    BY <2>1, <2>2, <2>3
<1>13. NodeRemoved(h, n, x)
  <2>1. Len(x.nodes) = Len(h.nodes) /\ Len(x.edges) = Len(h.edges) /\ Len(x.bound) = Len(h.bound)
    BY <1>1, <1>5, <1>7 DEF Disconnected
  <2>2. \A e \in DOMAIN h.edges : SameEdge(h, x, e)
    BY <1>4, <1>5 DEF SameEdge
  <2>3. \A m \in DOMAIN h.nodes \ {n} :
          /\ x.nodes[m].kind = h.nodes[m].kind /\ x.nodes[m].tensors = h.nodes[m].tensors
          /\ DOMAIN x.nodes[m].ins = DOMAIN h.nodes[m].ins
    BY <1>4, <1>8
  <2>4. x.nodes[n] = [kind |-> "removed", ins |-> <<>>, outs |-> {}, tensors |-> <<>>]
    BY <1>8 DEF N
  <2>. QED
    BY <1>9, <1>11, <1>12, <2>1, <2>2, <2>3, <2>4 DEF NodeRemoved
<1>14. ASSUME NEW e \in LiveOf(x) PROVE EdgeSound(x, e)
  <2>1. /\ EdgeSound(d, e) /\ e \in LiveOf(h) /\ SameEdge(h, d, e)
        /\ h.edges[e].from # n /\ h.edges[e].to # n
    BY <1>1, <1>4, <1>10, <1>11 DEF Sound, LiveOf
  <2>2. /\ d.edges[e].from \in DOMAIN h.nodes \ {n} /\ d.edges[e].to \in DOMAIN h.nodes \ {n}
        /\ x.edges[e] = d.edges[e]
    BY <1>4, <1>5, <2>1 DEF EdgeSound, SameEdge
  <2>3. /\ DOMAIN x.nodes = DOMAIN h.nodes
        /\ x.nodes[d.edges[e].from] = d.nodes[d.edges[e].from]
        /\ x.nodes[d.edges[e].to] = d.nodes[d.edges[e].to]
    BY <1>4, <1>8, <2>2
  <2>. QED
    BY <2>1, <2>2, <2>3 DEF EdgeSound
<1>15. ASSUME NEW m \in DOMAIN x.nodes PROVE NodeSound(x, m)
  <2>1. CASE m # n
    <3>1. NodeSound(d, m) /\ x.nodes[m] = d.nodes[m]
      BY <1>1, <1>4, <1>8, <2>1 DEF Sound
    <3>2. x.edges = d.edges /\ x.bound = d.bound
      BY <1>5
    <3>. QED
      BY <1>10, <3>1, <3>2 DEF NodeSound
  <2>2. CASE m = n
    <3>1. {e \in LiveOf(x) : x.edges[e].from = m} = {}
      <4>1. \A e \in LiveOf(h) : d.edges[e].from = h.edges[e].from
        BY <1>4 DEF SameEdge, LiveOf
      <4>. QED
        BY <1>5, <1>11, <2>2, <4>1
    <3>2. x.nodes[m].ins = <<>> /\ x.nodes[m].outs = {} /\ x.nodes[m].tensors = <<>>
      BY <1>6, <1>8, <2>2
    <3>. QED
      BY <3>1, <3>2 DEF NodeSound
  <2>. QED
    BY <2>1, <2>2
<1>16. \A t \in DOMAIN x.bound : x.bound[t] = {e \in LiveOf(x) : x.edges[e].tensor = t}
  BY <1>1, <1>5, <1>10 DEF Sound
<1>. QED
  BY <1>9, <1>13, <1>14, <1>15, <1>16 DEF Sound, x

--------------------------------------------------------------------------------
(* The shape of the nodes and edges *)

\* What the nodes of each kind have; only an NPU node may be led to past its inputs.
Shaped(h) ==
    /\ \A n \in DOMAIN h.nodes :
         /\ h.nodes[n].kind \in {"input", "const", "layer"} => Len(h.nodes[n].tensors) = 1
         /\ h.nodes[n].kind = "output" => Len(h.nodes[n].ins) = 1
    /\ \A e \in LiveOf(h) :
         /\ h.nodes[h.edges[e].to].kind \in {"layer", "output", "npu"}
         /\ h.nodes[h.edges[e].to].kind # "npu" =>
              h.edges[e].in \in DOMAIN h.nodes[h.edges[e].to].ins

LEMMA ExtendedShaped ==
    ASSUME NEW h, Sound(h), Shaped(h), NEW kind, NEW inputs \in Nat, NEW outputs \in Nat,
           NEW d, Extended(h, kind, inputs, outputs, d),
           kind \in {"input", "const", "layer"} => outputs = 1,
           kind = "output" => inputs = 1
    PROVE  Shaped(d)
<1>1. h \in GraphRecs
  BY DEF Sound
<1>2. /\ LiveOf(d) = LiveOf(h) /\ DOMAIN d.nodes = DOMAIN h.nodes \cup {Len(h.nodes) + 1}
  BY AddNodeSound
<1>3. /\ d.edges = h.edges
      /\ \A n \in DOMAIN h.nodes : d.nodes[n] = h.nodes[n]
      /\ d.nodes[Len(h.nodes) + 1].kind = kind
      /\ Len(d.nodes[Len(h.nodes) + 1].ins) = inputs
      /\ Len(d.nodes[Len(h.nodes) + 1].tensors) = outputs
  BY DEF Extended
<1>4. \A e \in LiveOf(h) : h.edges[e].to \in DOMAIN h.nodes
  BY DEF Sound, EdgeSound
<1>5. \A n \in DOMAIN d.nodes :
        /\ d.nodes[n].kind \in {"input", "const", "layer"} => Len(d.nodes[n].tensors) = 1
        /\ d.nodes[n].kind = "output" => Len(d.nodes[n].ins) = 1
  BY <1>2, <1>3 DEF Shaped
<1>6. \A e \in LiveOf(d) :
        /\ d.nodes[d.edges[e].to].kind \in {"layer", "output", "npu"}
        /\ d.nodes[d.edges[e].to].kind # "npu" =>
             d.edges[e].in \in DOMAIN d.nodes[d.edges[e].to].ins
  BY <1>2, <1>3, <1>4 DEF Shaped
<1> QED
  BY <1>5, <1>6 DEF Shaped

LEMMA DisconnectedShaped ==
    ASSUME NEW h, Sound(h), Shaped(h), NEW E, NEW d, Disconnected(h, E, d)
    PROVE  Shaped(d)
<1>1. h \in GraphRecs
  BY DEF Sound
<1>2. /\ DOMAIN d.nodes = DOMAIN h.nodes
      /\ LiveOf(d) = LiveOf(h) \ E /\ LiveOf(h) \subseteq DOMAIN h.edges
      /\ \A e \in DOMAIN h.edges : d.edges[e].to = h.edges[e].to /\ d.edges[e].in = h.edges[e].in
      /\ \A n \in DOMAIN h.nodes :
           /\ d.nodes[n].kind = h.nodes[n].kind /\ d.nodes[n].tensors = h.nodes[n].tensors
           /\ DOMAIN d.nodes[n].ins = DOMAIN h.nodes[n].ins
  BY <1>1, DisconnectedFacts DEF SameEdge, LiveOf
<1>3. \A n \in DOMAIN h.nodes : Len(d.nodes[n].ins) = Len(h.nodes[n].ins)
  <2> SUFFICES ASSUME NEW n \in DOMAIN h.nodes
               PROVE  Len(d.nodes[n].ins) = Len(h.nodes[n].ins)
    OBVIOUS
  <2>1. h.nodes[n].ins \in Seq(Nat) /\ d.nodes[n].ins \in Seq(Nat)
    BY <1>1, <1>2, GraphFacts DEF Disconnected
  <2> QED
    BY <2>1, <1>2
<1>4. \A e \in LiveOf(h) : h.edges[e].to \in DOMAIN h.nodes
  BY DEF Sound, EdgeSound
<1>5. \A n \in DOMAIN d.nodes :
        /\ d.nodes[n].kind \in {"input", "const", "layer"} => Len(d.nodes[n].tensors) = 1
        /\ d.nodes[n].kind = "output" => Len(d.nodes[n].ins) = 1
  BY <1>2, <1>3 DEF Shaped
<1>6. \A e \in LiveOf(d) :
        /\ d.nodes[d.edges[e].to].kind \in {"layer", "output", "npu"}
        /\ d.nodes[d.edges[e].to].kind # "npu" =>
             d.edges[e].in \in DOMAIN d.nodes[d.edges[e].to].ins
  BY <1>2, <1>4 DEF Shaped
<1> QED
  BY <1>5, <1>6 DEF Shaped

LEMMA ConnectedShaped ==
    ASSUME NEW h, Sound(h), Shaped(h), NEW a, NEW i, NEW b \in DOMAIN h.nodes, NEW j,
           h.nodes[b].kind \in {"layer", "output", "npu"},
           h.nodes[b].kind # "npu" => j \in DOMAIN h.nodes[b].ins,
           NEW c, Connected(h, a, i, b, j, c)
    PROVE  Shaped(c)
<1>1. h \in GraphRecs
  BY DEF Sound
<1>2. /\ DOMAIN c.nodes = DOMAIN h.nodes
      /\ LiveOf(c) = LiveOf(h) \cup {Len(h.edges) + 1} /\ LiveOf(h) \subseteq DOMAIN h.edges
      /\ \A e \in DOMAIN h.edges : c.edges[e] = h.edges[e]
      /\ c.edges[Len(h.edges) + 1].to = b /\ c.edges[Len(h.edges) + 1].in = j
      /\ \A n \in DOMAIN h.nodes :
           /\ c.nodes[n].kind = h.nodes[n].kind /\ c.nodes[n].tensors = h.nodes[n].tensors
           /\ DOMAIN c.nodes[n].ins = DOMAIN h.nodes[n].ins
  BY <1>1, ConnectedFacts DEF Connected, LiveOf
<1>3. \A n \in DOMAIN h.nodes : Len(c.nodes[n].ins) = Len(h.nodes[n].ins)
  <2> SUFFICES ASSUME NEW n \in DOMAIN h.nodes
               PROVE  Len(c.nodes[n].ins) = Len(h.nodes[n].ins)
    OBVIOUS
  <2>1. h.nodes[n].ins \in Seq(Nat) /\ c.nodes[n].ins \in Seq(Nat)
    BY <1>1, <1>2, GraphFacts DEF Connected
  <2> QED
    BY <2>1, <1>2
<1>4. \A e \in LiveOf(h) : h.edges[e].to \in DOMAIN h.nodes
  BY DEF Sound, EdgeSound
<1>5. \A n \in DOMAIN c.nodes :
        /\ c.nodes[n].kind \in {"input", "const", "layer"} => Len(c.nodes[n].tensors) = 1
        /\ c.nodes[n].kind = "output" => Len(c.nodes[n].ins) = 1
  BY <1>2, <1>3 DEF Shaped
<1>6. \A e \in LiveOf(c) :
        /\ c.nodes[c.edges[e].to].kind \in {"layer", "output", "npu"}
        /\ c.nodes[c.edges[e].to].kind # "npu" =>
             c.edges[e].in \in DOMAIN c.nodes[c.edges[e].to].ins
  <2> SUFFICES ASSUME NEW e \in LiveOf(c)
               PROVE  /\ c.nodes[c.edges[e].to].kind \in {"layer", "output", "npu"}
                      /\ c.nodes[c.edges[e].to].kind # "npu" =>
                           c.edges[e].in \in DOMAIN c.nodes[c.edges[e].to].ins
    OBVIOUS
  <2>1. CASE e \in LiveOf(h)
    BY <2>1, <1>2, <1>4 DEF Shaped
  <2>2. CASE e = Len(h.edges) + 1
    BY <2>2, <1>2
  <2> QED
    BY <1>2, <2>1, <2>2
<1> QED
  BY <1>5, <1>6 DEF Shaped

LEMMA RetensoredShaped ==
    ASSUME NEW h, Sound(h), Shaped(h), NEW n \in DOMAIN h.nodes, h.nodes[n].kind = "npu",
           NEW t \in DOMAIN h.bound, NEW d, Retensored(h, n, t, d)
    PROVE  Shaped(d)
<1>1. LiveOf(d) = LiveOf(h) /\ DOMAIN d.nodes = DOMAIN h.nodes
  BY RetensorSound
<1>2. /\ d.edges = h.edges
      /\ \A m \in DOMAIN h.nodes : d.nodes[m].kind = h.nodes[m].kind /\ d.nodes[m].ins = h.nodes[m].ins
      /\ \A m \in DOMAIN h.nodes : m # n => d.nodes[m].tensors = h.nodes[m].tensors
  BY DEF Retensored
<1>3. \A e \in LiveOf(h) : h.edges[e].to \in DOMAIN h.nodes
  BY DEF Sound, EdgeSound
<1> QED
  BY <1>1, <1>2, <1>3 DEF Shaped

LEMMA RemovedShaped ==
    ASSUME NEW h, Sound(h), Shaped(h), NEW n \in DOMAIN h.nodes, NEW x, NodeRemoved(h, n, x)
    PROVE  Shaped(x)
<1>1. h \in GraphRecs /\ x \in GraphRecs
  BY DEF Sound, NodeRemoved
<1>2. /\ DOMAIN x.nodes = DOMAIN h.nodes
      /\ LiveOf(x) = {e \in LiveOf(h) : h.edges[e].from # n /\ h.edges[e].to # n}
      /\ \A e \in LiveOf(h) : x.edges[e].to = h.edges[e].to /\ x.edges[e].in = h.edges[e].in
      /\ x.nodes[n].kind = "removed"
      /\ \A m \in DOMAIN h.nodes \ {n} :
           /\ x.nodes[m].kind = h.nodes[m].kind /\ x.nodes[m].tensors = h.nodes[m].tensors
           /\ DOMAIN x.nodes[m].ins = DOMAIN h.nodes[m].ins
  <2>1. /\ DOMAIN h.nodes = 1 .. Len(h.nodes) /\ DOMAIN x.nodes = 1 .. Len(x.nodes)
        /\ Len(x.nodes) = Len(h.nodes)
    BY <1>1, GraphFacts DEF NodeRemoved
  <2> QED
    BY <2>1 DEF NodeRemoved, SameEdge, LiveOf
<1>3. \A m \in DOMAIN h.nodes \ {n} : Len(x.nodes[m].ins) = Len(h.nodes[m].ins)
  <2> SUFFICES ASSUME NEW m \in DOMAIN h.nodes \ {n}
               PROVE  Len(x.nodes[m].ins) = Len(h.nodes[m].ins)
    OBVIOUS
  <2>1. h.nodes[m].ins \in Seq(Nat) /\ x.nodes[m].ins \in Seq(Nat)
    BY <1>1, <1>2, GraphFacts
  <2> QED
    BY <2>1, <1>2
<1>4. \A e \in LiveOf(h) : h.edges[e].to \in DOMAIN h.nodes
  BY DEF Sound, EdgeSound
<1>5. \A m \in DOMAIN x.nodes :
        /\ x.nodes[m].kind \in {"input", "const", "layer"} => Len(x.nodes[m].tensors) = 1
        /\ x.nodes[m].kind = "output" => Len(x.nodes[m].ins) = 1
  BY <1>2, <1>3 DEF Shaped
<1>6. \A e \in LiveOf(x) :
        /\ x.nodes[x.edges[e].to].kind \in {"layer", "output", "npu"}
        /\ x.nodes[x.edges[e].to].kind # "npu" =>
             x.edges[e].in \in DOMAIN x.nodes[x.edges[e].to].ins
  BY SMTT(30), <1>2, <1>4 DEF Shaped
<1> QED
  BY <1>5, <1>6 DEF Shaped

--------------------------------------------------------------------------------
(* The inductive invariant *)

\* While h is constructed and w is what its last node is still to be connected to, the
\* inputs that are not connected are the last ones of that node.
Unconnected(h, w) ==
    /\ \A n \in DOMAIN h.nodes : h.nodes[n].kind \notin {"npu", "removed"}
    /\ \A i \in DOMAIN w : /\ w[i] \in DOMAIN h.nodes /\ w[i] # Len(h.nodes)
                           /\ h.nodes[w[i]].kind \in {"input", "const", "layer"}
    /\ w # <<>> => /\ Len(h.nodes) \in DOMAIN h.nodes
                   /\ h.nodes[Len(h.nodes)].kind \in {"layer", "output"}
                   /\ Len(w) <= Len(h.nodes[Len(h.nodes)].ins)
    /\ \A n \in DOMAIN h.nodes : \A i \in DOMAIN h.nodes[n].ins :
         h.nodes[n].ins[i] = 0 <=> n = Len(h.nodes) /\ i > Len(h.nodes[n].ins) - Len(w)

\* The NPU node is the last.
NpuLast(h) ==
    /\ Len(h.nodes) \in DOMAIN h.nodes
    /\ \A n \in DOMAIN h.nodes : h.nodes[n].kind = "npu" <=> n = Len(h.nodes)

ReadsAsBuilt(h, n) == h.nodes[n].ins[1] # 0 /\ TensorRead(h, n) = TensorRead(built, n)
ReadsNpu(h, n) == h.edges[h.nodes[n].ins[1]].from = Len(h.nodes)

Listed(w, n) == \E i \in DOMAIN w : w[i] = n

\* Every output reads the tensor it read as constructed, and reads it from the NPU node
\* unless the loop over the outputs has yet to come to it.
Merging ==
    /\ NpuLast(g)
    /\ \A n \in Nodes : g.nodes[n].kind = "output" =>
         /\ ReadsAsBuilt(g, n)
         /\ ReadsNpu(g, n) \/ (phase = "outputs" /\ Listed(work, n))

OnlyKinds(h, w, kinds) == \A i \in DOMAIN w : w[i] \in DOMAIN h.nodes /\ h.nodes[w[i]].kind \in kinds

\* What the loops go over, and where slot has got to.
Loops ==
    /\ phase = "outputs" =>
         /\ OnlyKinds(g, work, {"output"})
         /\ slot = Len(g.nodes[Npu].tensors)
         /\ \A i \in DOMAIN g.nodes[Npu].ins : g.nodes[Npu].ins[i] = 0
    /\ phase = "inputs" =>
         /\ OnlyKinds(g, work, {"input"})
         /\ \A i \in DOMAIN g.nodes[Npu].ins : i > slot => g.nodes[Npu].ins[i] = 0
    /\ phase = "removing" => OnlyKinds(g, work, {"layer", "const", "removed"})

Remaining(h, s) == /\ s \in Seq(DOMAIN h.nodes)
                   /\ \A i \in DOMAIN s : h.nodes[s[i]].kind # "removed"

MergePhases == {"outputs", "inputs", "removing", "aborted"}

IInv ==
    /\ phase \in MergePhases \cup {"building", "sorting", "sorted"}
    /\ Sound(g) /\ Shaped(g)
    /\ work \in Seq(Nat) /\ slot \in 0 .. Len(g.edges)
    /\ phase = "building" => Unconnected(g, work)
    /\ phase \in MergePhases => Merging /\ Loops
    /\ phase \in {"sorting", "sorted"} => (Merged => Merging)
    /\ visited \subseteq Nodes /\ Remaining(g, stack) /\ Remaining(g, order)
    /\ phase \notin {"sorting", "sorted"} => visited = {} /\ stack = <<>> /\ order = <<>>

--------------------------------------------------------------------------------
(* Where the edges lead: what the sort will find. *)

\* Nothing reads an output or a removed node, and the NPU node reads inputs only.
Flow(h) ==
    \A e \in LiveOf(h) :
        /\ h.nodes[h.edges[e].from].kind \in {"input", "const", "layer", "npu"}
        /\ h.nodes[h.edges[e].to].kind = "npu" => h.nodes[h.edges[e].from].kind = "input"

\* The first input of layer n comes, or is to come, from an input or a layer.
FirstInput(h, w, n) ==
    /\ 1 \in DOMAIN h.nodes[n].ins
    /\ \/ /\ h.nodes[n].ins[1] # 0
          /\ h.nodes[h.edges[h.nodes[n].ins[1]].from].kind \in {"input", "layer"}
       \/ /\ n = Len(h.nodes) /\ Len(w) = Len(h.nodes[n].ins)
          /\ h.nodes[w[1]].kind \in {"input", "layer"}

\* While h is constructed, and its last node is still to be connected to those in w: edges
\* lead forward, and there is one from a node to another at most.
Forward(h, w) ==
    /\ \A e \in LiveOf(h) : h.edges[e].from < h.edges[e].to
    /\ \A e, f \in LiveOf(h) :
         h.edges[e].from = h.edges[f].from /\ h.edges[e].to = h.edges[f].to => e = f
    /\ \A i, j \in DOMAIN w : w[i] = w[j] => i = j
    /\ \A e \in LiveOf(h) : h.edges[e].to = Len(h.nodes) => ~Listed(w, h.edges[e].from)
    /\ \A n \in DOMAIN h.nodes : h.nodes[n].kind = "layer" => FirstInput(h, w, n)

\* Edges over which layers or the NPU node read inputs.
InputReads(h) ==
    {e \in LiveOf(h) : /\ h.nodes[h.edges[e].from].kind = "input"
                       /\ h.nodes[h.edges[e].to].kind # "output"}

OnlyToLast(h, n) == \A e \in LiveOf(h) : h.edges[e].from = n => h.edges[e].to = Len(h.nodes)

Sorting == phase \in {"sorting", "sorted"}

\* Layers that remain read something; once the inputs are moved, only the NPU node reads
\* inputs, and once nodes are removed, only inputs, outputs and the NPU node are left.
EdgeInv ==
    /\ Flow(g)
    /\ phase = "building" => Forward(g, work)
    /\ Sorting /\ ~Merged => Unconnected(g, <<>>) /\ Forward(g, <<>>)
    /\ phase \in MergePhases \/ (Sorting /\ Merged) => InputReads(g) # {}
    /\ phase = "inputs" =>
         \A n \in Nodes : g.nodes[n].kind = "input" => OnlyToLast(g, n) \/ Listed(work, n)
    /\ phase = "removing" \/ (Sorting /\ Merged) =>
         \A n \in Nodes : g.nodes[n].kind = "input" => OnlyToLast(g, n)
    /\ phase = "removing" =>
         \A n \in Nodes : g.nodes[n].kind \in {"layer", "const"} => Listed(work, n)
    /\ Sorting /\ Merged => \A n \in Nodes : g.nodes[n].kind \notin {"layer", "const"}

--------------------------------------------------------------------------------
(* How many edges leave the inputs. *)

AllLive(h) == LiveOf(h) = DOMAIN h.edges

\* Edges over which layers or the NPU node read input n.
ReadsOf(n) == {e \in LiveOf(g) : g.edges[e].from = n /\ g.nodes[g.edges[e].to].kind # "output"}

ToNpu == {e \in LiveOf(g) : g.nodes[g.edges[e].to].kind = "npu"}

\* As many edges leave each input as layers read it with, and those moved to the NPU node
\* are in its inputs up to their number.
Counted ==
    /\ Cardinality(InputReads(g)) = TotalUses
    /\ \A n \in OfKind({"input"}) : Cardinality(ReadsOf(n)) = Cardinality(Uses(n))
    /\ \A e \in ToNpu : g.edges[e].in \in 1 .. Cardinality(ToNpu)

CountInv ==
    /\ phase = "building" => AllLive(g)
    /\ phase \in MergePhases \/ (Sorting /\ Merged) => Counted
    /\ phase = "outputs" => ToNpu = {}
    /\ phase = "inputs" => slot = Cardinality(ToNpu)

--------------------------------------------------------------------------------
(* What the sort has done. *)

Source(n) == g.nodes[n].kind \in {"input", "const"}

InOrder(n) == \E p \in DOMAIN order : order[p] = n

\* The nodes that n reads.
Before(n) == {g.edges[e].from : e \in {x \in LiveOf(g) : g.edges[x].to = n}}

\* No node is lost: a source, and a node for which everything it reads is in the order, is
\* in the order or on the stack.
NoneLost ==
    /\ \A n \in Nodes : n \in visited <=> Source(n) \/ InOrder(n)
    /\ \A n \in Nodes :
         Source(n) \/ (Before(n) # {} /\ \A m \in Before(n) : InOrder(m))
           => InOrder(n) \/ Listed(stack, n)

\* What a node on the stack reads is in the order, sources apart.
StackReady == \A i \in DOMAIN stack : \A m \in Before(stack[i]) : Source(m) \/ InOrder(m)

\* What a node in the order reads comes before it, sources apart.
ReadsPrecede ==
    \A p \in DOMAIN order : \A m \in Before(order[p]) :
        Source(m) \/ \E q \in 1 .. p - 1 : order[q] = m

InOrderOnce == \A p, q \in DOMAIN order : order[p] = order[q] => p = q

\* No node is on the stack twice, or again, and the sources are below the other nodes.
StackOnce ==
    /\ \A i, j \in DOMAIN stack : stack[i] = stack[j] => i = j
    /\ \A i \in DOMAIN stack : ~InOrder(stack[i])
    /\ \A i, j \in DOMAIN stack : i < j /\ Source(stack[j]) => Source(stack[i])

SortInv ==
    /\ phase = "sorting" => /\ NoneLost /\ StackReady /\ ReadsPrecede
                            /\ ~Merged => InOrderOnce /\ StackOnce
    /\ phase = "sorted" => /\ ReadsPrecede /\ InOrderOnce
                           /\ \A n \in Nodes : g.nodes[n].kind # "removed" => InOrder(n)

--------------------------------------------------------------------------------
(* Lists *)

LEMMA TailIs ==
    ASSUME NEW S, NEW w \in Seq(S), w # <<>>
    PROVE  /\ Tail(w) \in Seq(S) /\ Len(w) \in Nat \ {0} /\ Len(Tail(w)) = Len(w) - 1
           /\ DOMAIN w = 1 .. Len(w) /\ DOMAIN Tail(w) = 1 .. Len(w) - 1
           /\ 1 \in DOMAIN w /\ Head(w) = w[1] /\ Head(w) \in S
           /\ \A i \in DOMAIN Tail(w) : i + 1 \in DOMAIN w /\ Tail(w)[i] = w[i + 1]
           /\ \A i \in DOMAIN w \ {1} : i - 1 \in DOMAIN Tail(w) /\ Tail(w)[i - 1] = w[i]
<1>1. /\ Tail(w) \in Seq(S) /\ Len(w) \in Nat \ {0} /\ Len(Tail(w)) = Len(w) - 1
      /\ DOMAIN w = 1 .. Len(w) /\ DOMAIN Tail(w) = 1 .. Len(w) - 1
      /\ Head(w) = w[1] /\ 1 \in DOMAIN w
  OBVIOUS
<1>2. \A i \in 1 .. Len(w) - 1 : Tail(w)[i] = w[i + 1]
  OBVIOUS
<1>3. \A i \in DOMAIN Tail(w) : i + 1 \in DOMAIN w /\ Tail(w)[i] = w[i + 1]
  BY <1>1, <1>2
<1>4. ASSUME NEW i \in DOMAIN w \ {1}
      PROVE  i - 1 \in DOMAIN Tail(w) /\ Tail(w)[i - 1] = w[i]
  <2> DEFINE k == i - 1
  <2>1. k \in 1 .. Len(w) - 1 /\ k + 1 = i
    BY <1>1, <1>4
  <2> HIDE DEF k
  <2>2. k \in DOMAIN Tail(w) /\ Tail(w)[k] = w[i]
    BY <2>1, <1>1, <1>2
  <2> QED
    BY <2>2 DEF k
<1> QED
  BY <1>1, <1>3, <1>4

\* The nodes of some kinds, in the order the loops take them.
LEMMA AscendingOver ==
    ASSUME NEW m \in Nat, NEW S \in SUBSET (1 .. m)
    PROVE  /\ Cardinality(S) \in Nat /\ Ascending(S) \in Seq(S) /\ Ascending(S) \in Seq(Nat)
           /\ DOMAIN Ascending(S) = 1 .. Cardinality(S) /\ Len(Ascending(S)) = Cardinality(S)
           /\ \A i \in DOMAIN Ascending(S) : Ascending(S)[i] \in S
           /\ \A x \in S : Listed(Ascending(S), x)
           /\ \A i, j \in DOMAIN Ascending(S) : i < j => Ascending(S)[i] < Ascending(S)[j]
<1>1. IsFiniteSet(S)
  <2>1. IsFiniteSet(1 .. m)
    BY FS_Interval
  <2> QED
    BY <2>1, FS_Subset
<1>2. S \in SUBSET Nat
  OBVIOUS
<1>3. /\ Ascending(S) \in [1 .. Cardinality(S) -> S] /\ Ascending(S) \in Seq(S)
      /\ Cardinality(S) \in Nat /\ Len(Ascending(S)) = Cardinality(S)
      /\ \A x \in S : \E i \in 1 .. Cardinality(S) : Ascending(S)[i] = x
      /\ \A i, j \in 1 .. Cardinality(S) : i < j => Ascending(S)[i] < Ascending(S)[j]
  BY <1>1, <1>2, AscendingIs
<1>4. Ascending(S) \in Seq(Nat)
  <2> DEFINE a == Ascending(S)
             k == Cardinality(S)
  <2>1. a \in [1 .. k -> S] /\ k \in Nat
    BY <1>3
  <2> HIDE DEF a, k
  <2>2. a \in [1 .. k -> Nat]
    BY <2>1, <1>2
  <2>3. a \in Seq(Nat)
    BY <2>1, <2>2
  <2> QED
    BY <2>3 DEF a
<1>5. DOMAIN Ascending(S) = 1 .. Cardinality(S)
  BY <1>3
<1> QED
  BY <1>3, <1>4, <1>5 DEF Listed

\* No member is listed twice.
LEMMA AscendingOnce ==
    ASSUME NEW m \in Nat, NEW S \in SUBSET (1 .. m)
    PROVE  \A i, j \in DOMAIN Ascending(S) : Ascending(S)[i] = Ascending(S)[j] => i = j
<1> DEFINE a == Ascending(S)
<1>1. /\ DOMAIN a = 1 .. Cardinality(S) /\ Cardinality(S) \in Nat
      /\ \A i, j \in DOMAIN a : i < j => a[i] < a[j]
  BY AscendingOver
<1>2. a \in Seq(Nat)
  BY AscendingOver
<1> HIDE DEF a
<1> SUFFICES ASSUME NEW i \in DOMAIN a, NEW j \in DOMAIN a, a[i] = a[j]
             PROVE  i = j
  BY DEF a
<1>3. i \in Nat /\ j \in Nat
  BY <1>1
<1>4. a[i] \in Nat
  BY <1>1, <1>2, ElementOfSeq
<1>5. ~(i < j) /\ ~(j < i)
  BY <1>1, <1>4
<1> QED
  BY <1>3, <1>5

\* The nodes of a graph, their inputs and their tensors are numbered from 1.
LEMMA NodeFacts ==
    ASSUME NEW h, Sound(h)
    PROVE  /\ h \in GraphRecs /\ Len(h.edges) \in Nat
           /\ DOMAIN h.nodes = 1 .. Len(h.nodes) /\ Len(h.nodes) \in Nat
           /\ \A n \in DOMAIN h.nodes :
                /\ n \in Nat /\ h.nodes[n].ins \in Seq(Nat)
                /\ DOMAIN h.nodes[n].ins = 1 .. Len(h.nodes[n].ins) /\ Len(h.nodes[n].ins) \in Nat
                /\ h.nodes[n].tensors \in Seq(Nat)
                /\ DOMAIN h.nodes[n].tensors = 1 .. Len(h.nodes[n].tensors)
                /\ Len(h.nodes[n].tensors) \in Nat
<1>1. h \in GraphRecs
  BY DEF Sound
<1>2. /\ Len(h.edges) \in Nat /\ DOMAIN h.nodes = 1 .. Len(h.nodes) /\ Len(h.nodes) \in Nat
      /\ \A n \in DOMAIN h.nodes : h.nodes[n].ins \in Seq(Nat) /\ h.nodes[n].tensors \in Seq(Nat)
  BY <1>1, GraphFacts
<1> QED
  BY <1>1, <1>2

\* An edge that is left connects nodes of the graph.
LEMMA EdgeEnds ==
    ASSUME NEW h, Sound(h)
    PROVE  \A e \in LiveOf(h) :
             /\ e \in DOMAIN h.edges /\ e \in 1 .. Len(h.edges)
             /\ h.edges[e].from \in DOMAIN h.nodes /\ h.edges[e].to \in DOMAIN h.nodes
<1>1. h \in GraphRecs
  BY DEF Sound
<1>2. DOMAIN h.edges = 1 .. Len(h.edges)
  BY <1>1, GraphFacts
<1> QED
  BY <1>2 DEF Sound, EdgeSound, LiveOf

\* A new node has no edges.
LEMMA ExtendedFlow ==
    ASSUME NEW h, Sound(h), Flow(h), NEW kind, NEW inputs \in Nat, NEW outputs \in Nat,
           NEW d, Extended(h, kind, inputs, outputs, d)
    PROVE  Flow(d) /\ (InputReads(h) # {} => InputReads(d) # {})
<1>1. LiveOf(d) = LiveOf(h)
  BY AddNodeSound
<1>2. d.edges = h.edges /\ \A n \in DOMAIN h.nodes : d.nodes[n] = h.nodes[n]
  BY DEF Extended
<1>3. \A e \in LiveOf(h) : h.edges[e].from \in DOMAIN h.nodes /\ h.edges[e].to \in DOMAIN h.nodes
  BY EdgeEnds
<1>4. Flow(d)
  BY <1>1, <1>2, <1>3 DEF Flow
<1>5. InputReads(h) \subseteq InputReads(d)
  BY <1>1, <1>2, <1>3 DEF InputReads
<1> QED
  BY <1>4, <1>5

\* With no input to be connected, the first input of every layer is connected.
LEMMA FirstConnected ==
    ASSUME NEW h, Sound(h), Forward(h, <<>>), NEW n \in DOMAIN h.nodes, h.nodes[n].kind = "layer"
    PROVE  /\ 1 \in DOMAIN h.nodes[n].ins /\ h.nodes[n].ins[1] # 0
           /\ h.nodes[h.edges[h.nodes[n].ins[1]].from].kind \in {"input", "layer"}
<1>1. FirstInput(h, <<>>, n)
  BY DEF Forward
<1>2. Len(<<>>) # Len(h.nodes[n].ins)
  <2>1. 1 \in DOMAIN h.nodes[n].ins
    BY <1>1 DEF FirstInput
  <2>2. DOMAIN h.nodes[n].ins = 1 .. Len(h.nodes[n].ins) /\ Len(h.nodes[n].ins) \in Nat
    BY NodeFacts
  <2>3. Len(<<>>) = 0
    OBVIOUS
  <2> QED
    BY <2>1, <2>2, <2>3
<1> QED
  BY <1>1, <1>2 DEF FirstInput

\* A new node has no edges yet; w is what it is to be connected to.
LEMMA ExtendedForward ==
    ASSUME NEW h, Sound(h), Forward(h, <<>>), NEW kind, NEW inputs \in Nat, NEW outputs \in Nat,
           NEW d, Extended(h, kind, inputs, outputs, d),
           NEW w \in Seq(Nat), Len(w) = inputs, \A i, j \in DOMAIN w : w[i] = w[j] => i = j,
           kind = "layer" => /\ inputs # 0 /\ w[1] \in DOMAIN h.nodes
                             /\ h.nodes[w[1]].kind \in {"input", "layer"}
    PROVE  Forward(d, w)
<1> DEFINE m == Len(h.nodes) + 1
<1>1. LiveOf(d) = LiveOf(h) /\ DOMAIN d.nodes = DOMAIN h.nodes \cup {m} /\ m \notin DOMAIN h.nodes /\ Sound(d)
  BY AddNodeSound
<1>2. /\ d.edges = h.edges /\ \A n \in DOMAIN h.nodes : d.nodes[n] = h.nodes[n]
      /\ Len(d.nodes) = m /\ Len(d.nodes[m].ins) = inputs /\ d.nodes[m].kind = kind
  BY DEF Extended
<1>3. \A e \in LiveOf(h) : h.edges[e].from \in DOMAIN h.nodes /\ h.edges[e].to \in DOMAIN h.nodes
  BY EdgeEnds
<1>4. /\ \A e \in LiveOf(d) : d.edges[e].from < d.edges[e].to
      /\ \A e, f \in LiveOf(d) :
           d.edges[e].from = d.edges[f].from /\ d.edges[e].to = d.edges[f].to => e = f
  BY <1>1, <1>2 DEF Forward
<1>5. \A e \in LiveOf(d) : d.edges[e].to # Len(d.nodes)
  BY <1>1, <1>2, <1>3
<1>6. ASSUME NEW n \in DOMAIN d.nodes, d.nodes[n].kind = "layer"
      PROVE  FirstInput(d, w, n)
  <2>1. CASE n = m
    <3>1. DOMAIN d.nodes[m].ins = 1 .. inputs
      BY <1>1, <1>2, NodeFacts
    <3>2. inputs # 0 /\ w[1] \in DOMAIN h.nodes /\ h.nodes[w[1]].kind \in {"input", "layer"}
      BY <2>1, <1>2, <1>6
    <3>3. 1 \in DOMAIN d.nodes[n].ins
      BY <2>1, <3>1, <3>2
    <3>4. n = Len(d.nodes) /\ Len(w) = Len(d.nodes[n].ins) /\ d.nodes[w[1]].kind \in {"input", "layer"}
      BY <2>1, <3>2, <1>2
    <3> QED
      BY <3>3, <3>4 DEF FirstInput
  <2>2. CASE n # m
    <3>1. n \in DOMAIN h.nodes /\ h.nodes[n].kind = "layer" /\ d.nodes[n] = h.nodes[n]
      BY <2>2, <1>1, <1>2, <1>6
    <3>2. /\ 1 \in DOMAIN h.nodes[n].ins /\ h.nodes[n].ins[1] # 0
          /\ h.nodes[h.edges[h.nodes[n].ins[1]].from].kind \in {"input", "layer"}
      BY <3>1, FirstConnected
    <3>3. h.edges[h.nodes[n].ins[1]].from \in DOMAIN h.nodes
      BY <3>1, <3>2, <1>3 DEF Sound, NodeSound
    <3> QED
      BY <3>1, <3>2, <3>3, <1>2 DEF FirstInput
  <2> QED
    BY <2>1, <2>2
<1> QED
  BY <1>4, <1>5, <1>6 DEF Forward

LEMMA SameReads ==
    ASSUME NEW h, Sound(h), Flow(h), NEW d, LiveOf(d) = LiveOf(h), d.edges = h.edges,
           \A n \in DOMAIN h.nodes : d.nodes[n].kind = h.nodes[n].kind
    PROVE  Flow(d) /\ InputReads(d) = InputReads(h)
<1>1. \A e \in LiveOf(h) : h.edges[e].from \in DOMAIN h.nodes /\ h.edges[e].to \in DOMAIN h.nodes
  BY EdgeEnds
<1>2. Flow(d)
  BY <1>1 DEF Flow
<1>3. InputReads(d) = InputReads(h)
  BY <1>1 DEF InputReads
<1> QED
  BY <1>2, <1>3

\* The first layer of a graph reads an input.
LEMMA SomeInputRead ==
    ASSUME NEW h, Sound(h), Forward(h, <<>>), NEW l \in DOMAIN h.nodes, h.nodes[l].kind = "layer"
    PROVE  InputReads(h) # {}
<1> DEFINE L == {n \in DOMAIN h.nodes : h.nodes[n].kind = "layer"}
<1>1. L \in SUBSET Nat /\ L # {}
  BY NodeFacts
<1>2. PICK n \in L : \A k \in L : n <= k
  BY <1>1, Least
<1>3. /\ 1 \in DOMAIN h.nodes[n].ins /\ h.nodes[n].ins[1] # 0
      /\ h.nodes[h.edges[h.nodes[n].ins[1]].from].kind \in {"input", "layer"}
  BY FirstConnected
<1> DEFINE e == h.nodes[n].ins[1]
<1>4. e \in LiveOf(h) /\ h.edges[e].to = n
  BY <1>3 DEF Sound, NodeSound
<1>5. h.edges[e].from \in DOMAIN h.nodes /\ h.edges[e].from < n
  BY <1>4, EdgeEnds DEF Forward
<1>6. h.nodes[h.edges[e].from].kind # "layer"
  <2> SUFFICES ASSUME h.edges[e].from \in L
               PROVE  FALSE
    BY <1>5
  <2>1. n <= h.edges[e].from /\ n \in Nat /\ h.edges[e].from \in Nat
    BY <1>1, <1>2
  <2> DEFINE a == h.edges[e].from
  <2>2. n <= a /\ a < n /\ n \in Nat /\ a \in Nat
    BY <2>1, <1>5
  <2> HIDE DEF a, L
  <2> QED
    BY <2>2
<1>7. e \in InputReads(h)
  BY <1>3, <1>4, <1>6 DEF InputReads
<1> QED
  BY <1>7

\* The same for a node that is no layer.
LEMMA OtherForward ==
    ASSUME NEW h, Sound(h), Forward(h, <<>>), NEW kind, NEW inputs \in Nat, NEW outputs \in Nat,
           NEW d, Extended(h, kind, inputs, outputs, d), kind # "layer",
           NEW w \in Seq(Nat), Len(w) = inputs, \A i, j \in DOMAIN w : w[i] = w[j] => i = j
    PROVE  Forward(d, w)
<1>1. kind = "layer" => /\ inputs # 0 /\ w[1] \in DOMAIN h.nodes
                        /\ h.nodes[w[1]].kind \in {"input", "layer"}
  OBVIOUS
<1> QED
  BY <1>1, ExtendedForward

\* The last node is connected to the next of those it reads.
LEMMA ConnectedForward ==
    ASSUME NEW h, Sound(h), NEW w \in Seq(Nat), w # <<>>, Unconnected(h, w), Flow(h), Forward(h, w),
           NEW m, m = Len(h.nodes), NEW j, j = Len(h.nodes[m].ins) - Len(w) + 1,
           NEW c, Connected(h, w[1], 1, m, j, c), Sound(c)
    PROVE  Flow(c) /\ Forward(c, Tail(w))
<1> DEFINE a == w[1]
           new == Len(h.edges) + 1
           v == Tail(w)
<1>1. /\ Len(w) \in Nat \ {0} /\ Len(v) = Len(w) - 1 /\ 1 \in DOMAIN w /\ DOMAIN w = 1 .. Len(w)
      /\ DOMAIN v = 1 .. Len(w) - 1
      /\ \A i \in DOMAIN v : i + 1 \in DOMAIN w /\ v[i] = w[i + 1]
  BY TailIs
<1>2. /\ a \in DOMAIN h.nodes /\ a # m /\ h.nodes[a].kind \in {"input", "const", "layer"}
      /\ m \in DOMAIN h.nodes /\ h.nodes[m].kind \in {"layer", "output"}
      /\ Len(w) <= Len(h.nodes[m].ins)
  BY <1>1 DEF Unconnected
<1>3. /\ DOMAIN h.nodes = 1 .. m /\ m \in Nat /\ Len(h.edges) \in Nat
      /\ \A n \in DOMAIN h.nodes : DOMAIN h.nodes[n].ins = 1 .. Len(h.nodes[n].ins)
                                   /\ Len(h.nodes[n].ins) \in Nat
  BY NodeFacts
<1>4. /\ Len(c.nodes) = m /\ DOMAIN c.nodes = DOMAIN h.nodes
      /\ \A e \in LiveOf(h) : c.edges[e] = h.edges[e] /\ e # new
      /\ LiveOf(c) = LiveOf(h) \cup {new}
      /\ c.edges[new].from = a /\ c.edges[new].to = m
      /\ \A n \in DOMAIN h.nodes :
           /\ c.nodes[n].kind = h.nodes[n].kind /\ DOMAIN c.nodes[n].ins = DOMAIN h.nodes[n].ins
           /\ \A k \in DOMAIN h.nodes[n].ins :
                c.nodes[n].ins[k] = IF n = m /\ k = j THEN new ELSE h.nodes[n].ins[k]
  <2>1. Len(c.nodes) = m /\ DOMAIN c.nodes = DOMAIN h.nodes
    <3>1. Len(c.nodes) = m
      BY DEF Connected
    <3> QED
      BY <3>1, <1>3, NodeFacts
  <2>2. \A e \in LiveOf(h) : c.edges[e] = h.edges[e] /\ e # new
    <3>1. \A e \in LiveOf(h) : e \in DOMAIN h.edges /\ e \in 1 .. Len(h.edges)
      BY EdgeEnds
    <3>2. \A e \in DOMAIN h.edges : c.edges[e] = h.edges[e]
      BY DEF Connected
    <3> QED
      BY <3>1, <3>2, <1>3
  <2> QED
    BY <2>1, <2>2 DEF Connected
<1>5. \A e \in LiveOf(h) : h.edges[e].from \in DOMAIN h.nodes /\ h.edges[e].to \in DOMAIN h.nodes
  BY EdgeEnds
<1> HIDE DEF a, new, v
<1>6. Flow(c)
  <2> SUFFICES ASSUME NEW e \in LiveOf(c)
               PROVE  /\ c.nodes[c.edges[e].from].kind \in {"input", "const", "layer", "npu"}
                      /\ c.nodes[c.edges[e].to].kind # "npu" \/ c.nodes[c.edges[e].from].kind = "input"
    BY DEF Flow
  <2>1. CASE e = new
    BY <2>1, <1>2, <1>4
  <2>2. CASE e \in LiveOf(h)
    <3>1. /\ h.nodes[h.edges[e].from].kind \in {"input", "const", "layer", "npu"}
          /\ h.nodes[h.edges[e].to].kind # "npu" \/ h.nodes[h.edges[e].from].kind = "input"
      BY <2>2 DEF Flow
    <3>2. /\ c.nodes[c.edges[e].from].kind = h.nodes[h.edges[e].from].kind
          /\ c.nodes[c.edges[e].to].kind = h.nodes[h.edges[e].to].kind
      <4>1. c.edges[e] = h.edges[e]
        BY <2>2, <1>4
      <4>2. h.edges[e].from \in DOMAIN h.nodes /\ h.edges[e].to \in DOMAIN h.nodes
        BY <2>2, <1>5
      <4> QED
        BY <4>1, <4>2, <1>4
    <3> QED
      BY <3>1, <3>2
  <2> QED
    BY <2>1, <2>2, <1>4
<1>7. \A e \in LiveOf(c) : c.edges[e].from < c.edges[e].to
  <2>1. \A e \in LiveOf(h) : h.edges[e].from < h.edges[e].to
    BY DEF Forward
  <2>2. a < m
    BY <1>2, <1>3
  <2> QED
    BY <2>1, <2>2, <1>4
<1>8. Listed(w, a)
  BY <1>1 DEF Listed, a
<1>9. \A e, f \in LiveOf(c) :
        c.edges[e].from = c.edges[f].from /\ c.edges[e].to = c.edges[f].to => e = f
  <2>1. \A e \in LiveOf(h) : ~(h.edges[e].from = a /\ h.edges[e].to = m)
    BY <1>8 DEF Forward
  <2>2. \A e, f \in LiveOf(h) :
          h.edges[e].from = h.edges[f].from /\ h.edges[e].to = h.edges[f].to => e = f
    BY DEF Forward
  <2> SUFFICES ASSUME NEW e \in LiveOf(c), NEW f \in LiveOf(c),
                      c.edges[e].from = c.edges[f].from, c.edges[e].to = c.edges[f].to
               PROVE  e = f
    OBVIOUS
  <2>3. CASE e = new
    <3>1. c.edges[f].from = a /\ c.edges[f].to = m
      BY <2>3, <1>4
    <3> QED
      BY <2>1, <2>3, <3>1, <1>4
  <2>4. CASE f = new
    <3>1. c.edges[e].from = a /\ c.edges[e].to = m
      BY <2>4, <1>4
    <3> QED
      BY <2>1, <2>4, <3>1, <1>4
  <2>5. CASE e \in LiveOf(h) /\ f \in LiveOf(h)
    <3>1. c.edges[e] = h.edges[e] /\ c.edges[f] = h.edges[f]
      BY <2>5, <1>4
    <3> QED
      BY <2>2, <2>5, <3>1
  <2> QED
    BY <2>3, <2>4, <2>5, <1>4
<1>10. \A i, k \in DOMAIN v : v[i] = v[k] => i = k
  <2> SUFFICES ASSUME NEW i \in DOMAIN v, NEW k \in DOMAIN v, v[i] = v[k]
               PROVE  i = k
    OBVIOUS
  <2>1. i + 1 \in DOMAIN w /\ k + 1 \in DOMAIN w /\ w[i + 1] = w[k + 1]
    BY <1>1
  <2>2. i + 1 = k + 1
    BY <2>1 DEF Forward
  <2> QED
    BY <2>2, <1>1
<1>11. ASSUME NEW e \in LiveOf(c), c.edges[e].to = Len(c.nodes)
       PROVE  ~Listed(v, c.edges[e].from)
  <2> SUFFICES ASSUME NEW i \in DOMAIN v, v[i] = c.edges[e].from
               PROVE  FALSE
    BY DEF Listed
  <2>1. i + 1 \in DOMAIN w /\ w[i + 1] = c.edges[e].from /\ i + 1 # 1
    BY <1>1
  <2>2. CASE e = new
    <3>1. w[i + 1] = w[1]
      BY <2>1, <2>2, <1>4 DEF a
    <3> QED
      BY <3>1, <2>1, <1>1 DEF Forward
  <2>3. CASE e \in LiveOf(h)
    <3>1. h.edges[e].to = m /\ Listed(w, h.edges[e].from)
      BY <2>1, <2>3, <1>4, <1>11 DEF Listed
    <3> QED
      BY <3>1, <2>3 DEF Forward
  <2> QED
    BY <2>2, <2>3, <1>4
<1>12. ASSUME NEW n \in DOMAIN c.nodes, c.nodes[n].kind = "layer"
       PROVE  FirstInput(c, v, n)
  <2>1. n \in DOMAIN h.nodes /\ FirstInput(h, w, n)
    BY <1>4, <1>12 DEF Forward
  <2>2. 1 \in DOMAIN h.nodes[n].ins /\ 1 \in DOMAIN c.nodes[n].ins
    BY <2>1, <1>4 DEF FirstInput
  <2>3. CASE /\ h.nodes[n].ins[1] # 0
             /\ h.nodes[h.edges[h.nodes[n].ins[1]].from].kind \in {"input", "layer"}
    <3> DEFINE e == h.nodes[n].ins[1]
    <3>1. e \in LiveOf(h)
      BY <2>1, <2>2, <2>3 DEF Sound, NodeSound
    <3>2. ~(n = m /\ 1 = j)
      <4>1. h.nodes[n].ins[1] = 0 <=> n = Len(h.nodes) /\ 1 > Len(h.nodes[n].ins) - Len(w)
        BY <2>1, <2>2 DEF Unconnected
      <4> SUFFICES ASSUME n = m, j = 1
                   PROVE  FALSE
        OBVIOUS
      <4>2. ~(1 > Len(h.nodes[m].ins) - Len(w))
        BY <4>1, <2>3
      <4>3. Len(h.nodes[m].ins) \in Nat /\ Len(w) \in Nat
        BY <1>1, <1>2, <1>3
      <4> QED
        BY <4>2, <4>3, <1>2
    <3>3. c.nodes[n].ins[1] = e
      BY <3>2, <2>1, <2>2, <1>4
    <3>4. c.nodes[n].ins[1] # 0 /\ c.nodes[c.edges[e].from].kind \in {"input", "layer"}
      BY <3>1, <3>3, <2>3, <1>4, <1>5
    <3> QED
      BY <3>3, <3>4, <2>2 DEF FirstInput
  <2>4. CASE /\ n = m /\ Len(w) = Len(h.nodes[n].ins)
             /\ h.nodes[w[1]].kind \in {"input", "layer"}
    <3>1. j = 1
      BY <2>4, <1>1
    <3>2. c.nodes[n].ins[1] = new
      BY <2>1, <2>2, <2>4, <3>1, <1>4
    <3>3. c.nodes[n].ins[1] # 0 /\ c.nodes[c.edges[new].from].kind \in {"input", "layer"}
      BY <3>2, <2>4, <1>2, <1>3, <1>4 DEF a, new
    <3> QED
      BY <3>2, <3>3, <2>2 DEF FirstInput
  <2> QED
    BY <2>1, <2>3, <2>4 DEF FirstInput
<1> QED
  BY <1>6, <1>7, <1>9, <1>10, <1>11, <1>12 DEF Forward, v

--------------------------------------------------------------------------------
(* The construction keeps the invariant. *)

\* The empty graph.
LEMMA Initially == Init => IInv /\ EdgeInv /\ SortInv
<1> SUFFICES ASSUME Init
             PROVE  IInv /\ EdgeInv /\ SortInv
  OBVIOUS
<1>1. g.nodes = <<>> /\ g.edges = <<>> /\ g.bound = <<>>
  BY DEF Init
<1>2. g \in GraphRecs
  BY DEF Init, GraphRecs
<1>3. LiveOf(g) = {}
  BY <1>1 DEF LiveOf
<1>4. Sound(g) /\ Shaped(g)
  BY <1>1, <1>2, <1>3 DEF Sound, Shaped
<1>5. Unconnected(g, work)
  BY <1>1 DEF Init, Unconnected
<1>6. visited \subseteq Nodes /\ Remaining(g, stack) /\ Remaining(g, order)
  BY <1>1 DEF Init, Remaining
<1>7. work \in Seq(Nat) /\ slot \in 0 .. Len(g.edges) /\ phase = "building"
  BY <1>1 DEF Init
<1>8. Flow(g) /\ Forward(g, work)
  <2>1. DOMAIN work = {}
    BY DEF Init
  <2> QED
    BY <2>1, <1>1, <1>3 DEF Flow, Forward
<1>9. IInv
  BY <1>4, <1>5, <1>6, <1>7 DEF IInv, MergePhases, Init
<1> QED
  BY <1>7, <1>8, <1>9 DEF EdgeInv, SortInv, Sorting, MergePhases

LEMMA StillForward ==
    ASSUME phase' = "building", Flow(g'), Forward(g', work')
    PROVE  EdgeInv'
BY DEF EdgeInv, Sorting, MergePhases

\* What a step of the construction has to keep.
LEMMA StillBuilding ==
    ASSUME IInv, phase = "building", UNCHANGED Locals, Sound(g'), Shaped(g'), work' \in Seq(Nat),
           Len(g'.edges) >= Len(g.edges), Unconnected(g', work')
    PROVE  IInv'
<1>1. phase' = "building" /\ slot' = slot /\ visited' = {} /\ stack' = <<>> /\ order' = <<>>
  BY DEF IInv, Locals
<1>2. Len(g.edges) \in Nat /\ Len(g'.edges) \in Nat
  BY GraphFacts DEF IInv, Sound
<1>3. slot' \in 0 .. Len(g'.edges)
  BY <1>1, <1>2 DEF IInv
<1>4. visited' \subseteq Nodes' /\ Remaining(g', stack') /\ Remaining(g', order')
  BY <1>1 DEF Remaining
<1> QED
  BY <1>1, <1>3, <1>4 DEF IInv, MergePhases

\* A new node with no input to connect.
LEMMA ExtendedUnconnected ==
    ASSUME NEW h, Sound(h), Unconnected(h, <<>>), NEW kind \in {"input", "const", "layer", "output"},
           NEW inputs \in Nat, NEW outputs \in Nat, NEW d, Extended(h, kind, inputs, outputs, d),
           NEW w \in Seq(Nat), Len(w) = inputs,
           inputs # 0 => kind \in {"layer", "output"},
           \A i \in DOMAIN w : /\ w[i] \in DOMAIN h.nodes
                               /\ h.nodes[w[i]].kind \in {"input", "const", "layer"}
    PROVE  Unconnected(d, w)
<1> DEFINE m == Len(h.nodes) + 1
<1>1. /\ Sound(d) /\ DOMAIN d.nodes = DOMAIN h.nodes \cup {m} /\ m \notin DOMAIN h.nodes
  BY AddNodeSound
<1>2. /\ DOMAIN h.nodes = 1 .. Len(h.nodes) /\ Len(h.nodes) \in Nat
      /\ \A n \in DOMAIN h.nodes : DOMAIN h.nodes[n].ins = 1 .. Len(h.nodes[n].ins)
                                    /\ Len(h.nodes[n].ins) \in Nat
      /\ \A n \in DOMAIN d.nodes : DOMAIN d.nodes[n].ins = 1 .. Len(d.nodes[n].ins)
  BY <1>1, NodeFacts
<1>3. /\ Len(d.nodes) = m
      /\ \A n \in DOMAIN h.nodes : d.nodes[n] = h.nodes[n]
      /\ d.nodes[m].kind = kind /\ Len(d.nodes[m].ins) = inputs
      /\ \A i \in 1 .. inputs : d.nodes[m].ins[i] = 0
  BY DEF Extended
<1> HIDE DEF m
<1>4. \A n \in DOMAIN d.nodes : d.nodes[n].kind \notin {"npu", "removed"}
  BY <1>1, <1>3 DEF Unconnected
<1>5. \A i \in DOMAIN w : /\ w[i] \in DOMAIN d.nodes /\ w[i] # Len(d.nodes)
                          /\ d.nodes[w[i]].kind \in {"input", "const", "layer"}
  BY <1>1, <1>3
<1>6. w # <<>> => /\ Len(d.nodes) \in DOMAIN d.nodes
                  /\ d.nodes[Len(d.nodes)].kind \in {"layer", "output"}
                  /\ Len(w) <= Len(d.nodes[Len(d.nodes)].ins)
  BY <1>1, <1>3
<1>7. ASSUME NEW n \in DOMAIN d.nodes, NEW i \in DOMAIN d.nodes[n].ins
      PROVE  d.nodes[n].ins[i] = 0 <=> n = Len(d.nodes) /\ i > Len(d.nodes[n].ins) - Len(w)
  <2>1. CASE n \in DOMAIN h.nodes
    <3>1. h.nodes[n].ins[i] # 0
      <4>1. i \in 1 .. Len(h.nodes[n].ins) /\ Len(h.nodes[n].ins) \in Nat
        BY <2>1, <1>2, <1>3
      <4>2. ~ (i > Len(h.nodes[n].ins) - Len(<<>>))
        BY <4>1
      <4> QED
        BY <4>2, <2>1, <1>3, <1>7 DEF Unconnected
    <3> QED
      BY <3>1, <2>1, <1>1, <1>3
  <2>2. CASE n = m
    <3>1. i \in 1 .. inputs
      BY <2>2, <1>1, <1>2, <1>3
    <3> QED
      BY <3>1, <2>2, <1>3
  <2> QED
    BY <1>1, <2>1, <2>2
<1> QED
  BY <1>4, <1>5, <1>6, <1>7 DEF Unconnected

LEMMA AddInputKeeps ==
    ASSUME IInv, AddInput
    PROVE  IInv' /\ (EdgeInv => EdgeInv')
<1>1. phase = "building" /\ work = <<>> /\ work' = <<>> /\ UNCHANGED Locals
  BY DEF AddInput, Building
<1>2. Sound(g) /\ Shaped(g) /\ Unconnected(g, <<>>) /\ g \in GraphRecs
  BY <1>1 DEF IInv, Sound
<1>3. Extended(g, "input", 0, 1, g')
  BY <1>2, AddNodeIs DEF AddInput, Kinds
<1>4. Sound(g')
  BY <1>2, <1>3, AddNodeSound
<1>5. Shaped(g')
  BY <1>2, <1>3, ExtendedShaped
<1>6. Unconnected(g', <<>>)
  <2>1. <<>> \in Seq(Nat) /\ Len(<<>>) = 0 /\ DOMAIN <<>> = {}
    OBVIOUS
  <2> QED
    BY <2>1, <1>2, <1>3, ExtendedUnconnected
<1>7. Len(g'.edges) >= Len(g.edges)
  BY <1>2, <1>3, GraphFacts DEF Extended
<1>8. IInv'
  BY <1>1, <1>2, <1>4, <1>5, <1>6, <1>7, StillBuilding
<1>9. ASSUME EdgeInv
      PROVE  EdgeInv'
  <2>1. Flow(g) /\ Forward(g, <<>>)
    BY <1>1, <1>9 DEF EdgeInv
  <2>2. <<>> \in Seq(Nat) /\ Len(<<>>) = 0 /\ DOMAIN <<>> = {}
    OBVIOUS
  <2>3. Flow(g') /\ Forward(g', <<>>)
    BY <2>1, <2>2, <1>2, <1>3, ExtendedFlow, OtherForward
  <2> QED
    BY <2>3, <1>1, StillForward DEF Locals
<1> QED
  BY <1>8, <1>9

LEMMA AddOutputKeeps ==
    ASSUME IInv, NEW n \in OfKind({"input", "layer"}), AddOutput(n)
    PROVE  IInv' /\ (EdgeInv => EdgeInv')
<1>1. phase = "building" /\ work = <<>> /\ work' = <<n>> /\ UNCHANGED Locals
  BY DEF AddOutput, Building
<1>2. Sound(g) /\ Shaped(g) /\ Unconnected(g, <<>>) /\ g \in GraphRecs
  BY <1>1 DEF IInv, Sound
<1>3. n \in DOMAIN g.nodes /\ g.nodes[n].kind \in {"input", "layer"} /\ n \in Nat
  BY <1>2, NodeFacts DEF OfKind, Nodes
<1>4. Extended(g, "output", 1, 0, g')
  BY <1>2, AddNodeIs DEF AddOutput, Kinds
<1>5. Sound(g')
  BY <1>2, <1>4, AddNodeSound
<1>6. Shaped(g')
  BY <1>2, <1>4, ExtendedShaped
<1>7. work' \in Seq(Nat) /\ Len(work') = 1 /\ \A i \in DOMAIN work' : work'[i] = n
  BY <1>1, <1>3
<1>8. Unconnected(g', work')
  <2>1. \A i \in DOMAIN work' : /\ work'[i] \in DOMAIN g.nodes
                                /\ g.nodes[work'[i]].kind \in {"input", "const", "layer"}
    BY <1>3, <1>7
  <2> QED
    BY <2>1, <1>2, <1>4, <1>7, ExtendedUnconnected
<1>9. Len(g'.edges) >= Len(g.edges)
  BY <1>2, <1>4, GraphFacts DEF Extended
<1>10. IInv'
  BY <1>1, <1>5, <1>6, <1>7, <1>8, <1>9, StillBuilding
<1>11. ASSUME EdgeInv
       PROVE  EdgeInv'
  <2>1. Flow(g) /\ Forward(g, <<>>)
    BY <1>1, <1>11 DEF EdgeInv
  <2>2. Flow(g')
    BY <2>1, <1>2, <1>4, ExtendedFlow
  <2>3. \A i, j \in DOMAIN work' : work'[i] = work'[j] => i = j
    BY <1>1
  <2>4. Forward(g', work')
    BY <2>1, <2>3, <1>2, <1>4, <1>7, OtherForward
  <2> QED
    BY <2>2, <2>4, <1>1, StillForward DEF Locals
<1> QED
  BY <1>10, <1>11

LEMMA AddLayerKeeps ==
    ASSUME IInv, NEW k \in 1 .. MaxJoin, NEW weights \in BOOLEAN,
           NEW inputs \in [1 .. k -> OfKind({"input", "layer"})], AddLayer(inputs, weights)
    PROVE  IInv' /\ (EdgeInv => EdgeInv')
<1> DEFINE m == Len(g.nodes) + 1
           h == AddNode(g, "const", 0, 1)
<1>1. phase = "building" /\ work = <<>> /\ UNCHANGED Locals
  BY DEF AddLayer, Building
<1>2. Sound(g) /\ Shaped(g) /\ Unconnected(g, <<>>) /\ g \in GraphRecs /\ Len(g.nodes) \in Nat
  BY <1>1, GraphFacts DEF IInv, Sound
<1>3. k \in Nat /\ k # 0 /\ inputs \in Seq(Nat) /\ Len(inputs) = k /\ DOMAIN inputs = 1 .. k
  <2>1. k \in Nat /\ k # 0
    BY BoundsAssumption
  <2>2. OfKind({"input", "layer"}) \subseteq Nat
    BY <1>2, NodeFacts DEF OfKind, Nodes
  <2>3. inputs \in [1 .. k -> Nat]
    BY <2>2
  <2> QED
    BY <2>1, <2>3
<1>4. \A i \in DOMAIN inputs : /\ inputs[i] \in DOMAIN g.nodes
                               /\ g.nodes[inputs[i]].kind \in {"input", "const", "layer"}
  BY <1>3 DEF OfKind, Nodes
<1> DEFINE first == /\ inputs[1] \in DOMAIN g.nodes /\ g.nodes[inputs[1]].kind \in {"input", "layer"}
                    /\ \A i, j \in DOMAIN inputs : inputs[i] = inputs[j] => i = j
<1>5. first
  <2>1. inputs[1] \in OfKind({"input", "layer"})
    BY <1>3
  <2>2. \A i, j \in DOMAIN inputs : inputs[i] = inputs[j] => i = j
    BY DEF AddLayer, IsInjective
  <2> QED
    BY <2>1, <2>2 DEF OfKind, Nodes
<1>6. ASSUME EdgeInv
      PROVE  Flow(g) /\ Forward(g, <<>>)
  BY <1>1, <1>6 DEF EdgeInv
<1>7. CASE ~weights
  <2>1. work' = inputs /\ g' = AddNode(g, "layer", k, 1)
    BY <1>7, <1>3 DEF AddLayer
  <2>2. Extended(g, "layer", k, 1, g')
    BY <2>1, <1>2, <1>3, AddNodeIs DEF Kinds
  <2>3. Sound(g')
    BY <2>2, <1>2, <1>3, AddNodeSound
  <2>4. Shaped(g')
    BY <2>2, <1>2, <1>3, ExtendedShaped
  <2>5. Unconnected(g', work')
    BY <2>1, <2>2, <1>2, <1>3, <1>4, ExtendedUnconnected
  <2>6. Len(g'.edges) >= Len(g.edges)
    BY <2>2, <1>2, GraphFacts DEF Extended
  <2>7. IInv'
    BY <2>1, <2>3, <2>4, <2>5, <2>6, <1>1, <1>3, StillBuilding
  <2>8. ASSUME EdgeInv
        PROVE  EdgeInv'
    <3>1. Flow(g')
      BY <2>2, <2>8, <1>2, <1>3, <1>6, ExtendedFlow
    <3>2. Forward(g', work')
      BY <2>1, <2>2, <2>8, <1>2, <1>3, <1>5, <1>6, ExtendedForward
    <3> QED
      BY <3>1, <3>2, <1>1, StillForward DEF Locals
  <2> QED
    BY <2>7, <2>8
<1>8. CASE weights
  <2>1. work' = Append(inputs, m) /\ g' = AddNode(h, "layer", Len(work'), 1)
    BY <1>8 DEF AddLayer
  <2>2. /\ work' \in Seq(Nat) /\ Len(work') = k + 1 /\ DOMAIN work' = 1 .. k + 1
        /\ \A i \in 1 .. k : work'[i] = inputs[i]
        /\ work'[k + 1] = m
    BY <2>1, <1>2, <1>3
  <2>3. Extended(g, "const", 0, 1, h)
    BY <1>2, AddNodeIs DEF Kinds
  <2> HIDE DEF h
  <2>4. Sound(h) /\ Shaped(h) /\ h \in GraphRecs
    <3>1. Sound(h)
      BY <2>3, <1>2, AddNodeSound
    <3>2. Shaped(h)
      BY <2>3, <1>2, ExtendedShaped
    <3> QED
      BY <3>1, <3>2 DEF Sound
  <2>5. Unconnected(h, <<>>)
    <3>1. <<>> \in Seq(Nat) /\ Len(<<>>) = 0 /\ DOMAIN <<>> = {}
      OBVIOUS
    <3> QED
      BY <3>1, <2>3, <1>2, ExtendedUnconnected
  <2>6. /\ DOMAIN h.nodes = DOMAIN g.nodes \cup {m}
        /\ \A n \in DOMAIN g.nodes : h.nodes[n] = g.nodes[n]
        /\ h.nodes[m].kind = "const"
    BY <2>3, <1>2, AddNodeSound DEF Extended
  <2>7. \A i \in DOMAIN work' : /\ work'[i] \in DOMAIN h.nodes
                                /\ h.nodes[work'[i]].kind \in {"input", "const", "layer"}
    <3> SUFFICES ASSUME NEW i \in 1 .. k + 1
                 PROVE  /\ work'[i] \in DOMAIN h.nodes
                        /\ h.nodes[work'[i]].kind \in {"input", "const", "layer"}
      BY <2>2
    <3>1. CASE i = k + 1
      BY <3>1, <2>2, <2>6
    <3>2. CASE i # k + 1
      <4>1. i \in 1 .. k
        BY <3>2, <1>3
      <4> QED
        BY <4>1, <2>2, <2>6, <1>3, <1>4
    <3> QED
      BY <3>1, <3>2
  <2>8. Extended(h, "layer", k + 1, 1, g')
    BY <2>1, <2>2, <2>4, <1>3, AddNodeIs DEF Kinds
  <2>9. Sound(g')
    <3>1. k + 1 \in Nat
      BY <1>3
    <3> QED
      BY <3>1, <2>8, <2>4, AddNodeSound
  <2>10. Shaped(g')
    BY <2>8, <2>4, <1>3, ExtendedShaped
  <2>11. Unconnected(g', work')
    <3>1. k + 1 \in Nat /\ k + 1 # 0
      BY <1>3
    <3> QED
      BY <3>1, <2>2, <2>4, <2>5, <2>7, <2>8, ExtendedUnconnected
  <2>12. Len(g'.edges) >= Len(g.edges)
    BY <2>3, <2>8, <1>2, GraphFacts DEF Extended
  <2>13. IInv'
    BY <2>2, <2>9, <2>10, <2>11, <2>12, <1>1, StillBuilding
  <2>14. ASSUME EdgeInv
         PROVE  EdgeInv'
    <3>1. <<>> \in Seq(Nat) /\ Len(<<>>) = 0 /\ DOMAIN <<>> = {}
      OBVIOUS
    <3>2. Flow(h) /\ Forward(h, <<>>)
      BY <3>1, <2>3, <2>14, <1>2, <1>6, ExtendedFlow, OtherForward
    <3>3. k + 1 \in Nat /\ k + 1 # 0
      BY <1>3
    <3>4. Flow(g')
      BY <3>2, <3>3, <2>4, <2>8, ExtendedFlow
    <3>5. \A i, j \in DOMAIN work' : work'[i] = work'[j] => i = j
      <4>1. \A i \in 1 .. k : work'[i] \in DOMAIN g.nodes
        BY <2>2, <1>3, <1>4
      <4>2. m \notin DOMAIN g.nodes
        BY <1>2, NodeFacts
      <4>3. \A i \in 1 .. k + 1 : i \in 1 .. k \/ i = k + 1
        BY <1>3
      <4> QED
        BY SMTT(20), <4>1, <4>2, <4>3, <2>2, <1>3, <1>5
    <3>6. work'[1] \in DOMAIN h.nodes /\ h.nodes[work'[1]].kind \in {"input", "layer"}
      BY <2>2, <2>6, <1>3, <1>5
    <3>7. Forward(g', work')
      BY <3>2, <3>3, <3>5, <3>6, <2>2, <2>4, <2>8, ExtendedForward
    <3> QED
      BY <3>4, <3>7, <1>1, StillForward DEF Locals
  <2> QED
    BY <2>13, <2>14
<1> QED
  BY <1>7, <1>8

LEMMA ConnectInputKeeps ==
    ASSUME IInv, ConnectInput
    PROVE  IInv' /\ (EdgeInv => EdgeInv')
<1> DEFINE m == Len(g.nodes)
           a == Head(work)
           j == Len(g.nodes[m].ins) - Len(work) + 1
<1>1. phase = "building" /\ work # <<>> /\ work' = Tail(work) /\ UNCHANGED Locals
  BY DEF ConnectInput
<1>2. Sound(g) /\ Shaped(g) /\ Unconnected(g, work) /\ g \in GraphRecs /\ work \in Seq(Nat)
  BY <1>1 DEF IInv, Sound
<1>3. /\ DOMAIN g.nodes = 1 .. m /\ m \in Nat /\ Len(g.edges) \in Nat
      /\ \A n \in DOMAIN g.nodes : DOMAIN g.nodes[n].tensors = 1 .. Len(g.nodes[n].tensors)
      /\ \A n \in DOMAIN g.nodes : DOMAIN g.nodes[n].ins = 1 .. Len(g.nodes[n].ins)
                                    /\ Len(g.nodes[n].ins) \in Nat
  BY <1>2, NodeFacts
<1>4. /\ work' \in Seq(Nat) /\ Len(work) \in Nat \ {0} /\ Len(work') = Len(work) - 1
      /\ 1 \in DOMAIN work /\ a = work[1]
      /\ \A i \in DOMAIN work' : i + 1 \in DOMAIN work /\ work'[i] = work[i + 1]
  BY <1>1, <1>2, TailIs
<1>5. /\ a \in DOMAIN g.nodes /\ a # m /\ g.nodes[a].kind \in {"input", "const", "layer"}
      /\ m \in DOMAIN g.nodes /\ g.nodes[m].kind \in {"layer", "output"}
      /\ Len(work) <= Len(g.nodes[m].ins)
  BY <1>1, <1>2, <1>4 DEF Unconnected
<1>6. 1 \in DOMAIN g.nodes[a].tensors /\ g.nodes[a].tensors[1] \in DOMAIN g.bound
  <2>1. Len(g.nodes[a].tensors) = 1
    BY <1>2, <1>5 DEF Shaped
  <2>2. 1 \in DOMAIN g.nodes[a].tensors
    BY <2>1, <1>3, <1>5
  <2> QED
    BY <2>2, <1>2, <1>5 DEF Sound, NodeSound
<1>7. /\ j \in Nat /\ j \in DOMAIN g.nodes[m].ins /\ j > Len(g.nodes[m].ins) - Len(work)
      /\ Len(g.nodes[m].ins) \in Nat /\ DOMAIN g.nodes[m].ins = 1 .. Len(g.nodes[m].ins)
  <2> DEFINE l == Len(g.nodes[m].ins)
             k == Len(work)
  <2>1. l \in Nat /\ DOMAIN g.nodes[m].ins = 1 .. l
    BY <1>3, <1>5
  <2>2. k \in Nat \ {0} /\ k <= l
    BY <1>4, <1>5
  <2> HIDE DEF l, k
  <2>3. l - k + 1 \in Nat /\ l - k + 1 \in 1 .. l /\ l - k + 1 > l - k
    BY <2>1, <2>2
  <2> QED
    BY <2>1, <2>3 DEF l, k
<1>8. g.nodes[m].ins[j] = 0
  BY <1>2, <1>5, <1>7 DEF Unconnected
<1>9. g' = Connect(g, a, 1, m, j)
  BY DEF ConnectInput
<1> HIDE DEF a, j
<1>10. Connected(g, a, 1, m, j, g')
  BY <1>2, <1>5, <1>6, <1>7, <1>9, ConnectIs
<1>11. Sound(g')
  BY <1>2, <1>5, <1>6, <1>7, <1>8, <1>10, ConnectSound
<1>12. Shaped(g')
  BY <1>2, <1>5, <1>7, <1>10, ConnectedShaped
<1>13. /\ DOMAIN g'.nodes = DOMAIN g.nodes /\ Len(g'.nodes) = m /\ Len(g'.edges) = Len(g.edges) + 1
       /\ Len(g.edges) + 1 # 0
       /\ \A n \in DOMAIN g.nodes :
            /\ g'.nodes[n].kind = g.nodes[n].kind /\ DOMAIN g'.nodes[n].ins = DOMAIN g.nodes[n].ins
            /\ \A i \in DOMAIN g.nodes[n].ins :
                 g'.nodes[n].ins[i] = IF n = m /\ i = j THEN Len(g.edges) + 1 ELSE g.nodes[n].ins[i]
  BY <1>2, <1>10, ConnectedFacts DEF Connected
<1>14. \A n \in DOMAIN g.nodes : Len(g'.nodes[n].ins) = Len(g.nodes[n].ins)
  <2> SUFFICES ASSUME NEW n \in DOMAIN g.nodes
               PROVE  Len(g'.nodes[n].ins) = Len(g.nodes[n].ins)
    OBVIOUS
  <2>1. DOMAIN g'.nodes[n].ins = 1 .. Len(g'.nodes[n].ins) /\ Len(g'.nodes[n].ins) \in Nat
    BY <1>11, <1>13, NodeFacts
  <2> QED
    BY <2>1, <1>3, <1>13
<1>15. Unconnected(g', work')
  <2>1. \A n \in DOMAIN g'.nodes : g'.nodes[n].kind \notin {"npu", "removed"}
    BY <1>2, <1>13 DEF Unconnected
  <2>2. \A i \in DOMAIN work' : /\ work'[i] \in DOMAIN g'.nodes /\ work'[i] # Len(g'.nodes)
                                /\ g'.nodes[work'[i]].kind \in {"input", "const", "layer"}
    <3> SUFFICES ASSUME NEW i \in DOMAIN work'
                 PROVE  /\ work'[i] \in DOMAIN g'.nodes /\ work'[i] # Len(g'.nodes)
                        /\ g'.nodes[work'[i]].kind \in {"input", "const", "layer"}
      OBVIOUS
    <3>1. i + 1 \in DOMAIN work /\ work'[i] = work[i + 1]
      BY <1>4
    <3>2. /\ work[i + 1] \in DOMAIN g.nodes /\ work[i + 1] # m
          /\ g.nodes[work[i + 1]].kind \in {"input", "const", "layer"}
      BY <3>1, <1>2 DEF Unconnected
    <3> QED
      BY <3>1, <3>2, <1>13
  <2>3. /\ Len(g'.nodes) \in DOMAIN g'.nodes
        /\ g'.nodes[Len(g'.nodes)].kind \in {"layer", "output"}
        /\ Len(work') <= Len(g'.nodes[Len(g'.nodes)].ins)
    <3>1. Len(g'.nodes[m].ins) = Len(g.nodes[m].ins)
      BY <1>5, <1>14
    <3>2. Len(work') <= Len(g.nodes[m].ins)
      BY <1>4, <1>5, <1>7
    <3>3. g'.nodes[m].kind = g.nodes[m].kind
      BY <1>5, <1>13
    <3> QED
      BY <3>1, <3>2, <3>3, <1>5, <1>13
  <2>4. ASSUME NEW n \in DOMAIN g.nodes, NEW i \in DOMAIN g.nodes[n].ins
        PROVE  g'.nodes[n].ins[i] = 0 <=> n = m /\ i > Len(g.nodes[n].ins) - Len(work')
    <3>1. CASE n # m
      BY <3>1, <2>4, <1>2, <1>13 DEF Unconnected
    <3>2. CASE n = m
      <4>1. g.nodes[m].ins[i] = 0 <=> i > Len(g.nodes[m].ins) - Len(work)
        BY <3>2, <2>4, <1>2 DEF Unconnected
      <4>2. /\ i \in Nat
            /\ i > Len(g.nodes[m].ins) - Len(work)
                 <=> i > Len(g.nodes[m].ins) - Len(work') \/ i = j
        <5> DEFINE l == Len(g.nodes[m].ins)
                   k == Len(work)
        <5>1. /\ l \in Nat /\ k \in Nat /\ Len(work') = k - 1 /\ j = l - k + 1
              /\ i \in Nat
          BY <3>2, <2>4, <1>4, <1>7 DEF j
        <5> HIDE DEF l, k
        <5>2. i > l - k <=> i > l - (k - 1) \/ i = j
          BY <5>1
        <5> QED
          BY <5>1, <5>2 DEF l, k
      <4>3. j = i => ~ (i > Len(g.nodes[m].ins) - Len(work'))
        BY <1>4, <1>7 DEF j
      <4> QED
        BY <4>1, <4>2, <4>3, <3>2, <2>4, <1>13
    <3> QED
      BY <3>1, <3>2
  <2>5. \A n \in DOMAIN g'.nodes : \A i \in DOMAIN g'.nodes[n].ins :
          g'.nodes[n].ins[i] = 0 <=> n = Len(g'.nodes) /\ i > Len(g'.nodes[n].ins) - Len(work')
    <3> SUFFICES ASSUME NEW n \in DOMAIN g.nodes, NEW i \in DOMAIN g.nodes[n].ins
                 PROVE  g'.nodes[n].ins[i] = 0
                          <=> n = Len(g'.nodes) /\ i > Len(g'.nodes[n].ins) - Len(work')
      BY <1>13
    <3>1. Len(g'.nodes[n].ins) = Len(g.nodes[n].ins)
      BY <1>14
    <3> QED
      BY <3>1, <2>4, <1>13
  <2> QED
    BY <2>1, <2>2, <2>3, <2>5 DEF Unconnected
<1>16. IInv'
  BY <1>1, <1>3, <1>4, <1>11, <1>12, <1>13, <1>15, StillBuilding
<1>17. ASSUME EdgeInv
       PROVE  EdgeInv'
  <2>1. Flow(g) /\ Forward(g, work)
    BY <1>1, <1>17 DEF EdgeInv
  <2>2. Connected(g, work[1], 1, m, j, g')
    BY <1>4, <1>10
  <2>3. Flow(g') /\ Forward(g', Tail(work))
    <3>1. j = Len(g.nodes[m].ins) - Len(work) + 1
      BY DEF j
    <3> HIDE DEF m
    <3>2. m = Len(g.nodes)
      BY DEF m
    <3> QED
      BY <3>1, <3>2, <2>1, <2>2, <1>1, <1>2, <1>11, ConnectedForward
  <2> QED
    BY <2>3, <1>1, StillForward DEF Locals
<1> QED
  BY <1>16, <1>17

--------------------------------------------------------------------------------
(* The merge keeps the invariant. *)

\* c is h with a new connection in place of edge e.
Reconnected(h, e, a, i, b, j, c) ==
    LET new == Len(h.edges) + 1 IN
    /\ Len(c.nodes) = Len(h.nodes) /\ Len(c.edges) = new /\ DOMAIN c.nodes = DOMAIN h.nodes
    /\ \A x \in DOMAIN h.edges : SameEdge(h, c, x)
    /\ LiveOf(c) = (LiveOf(h) \ {e}) \cup {new}
    /\ c.edges[new].from = a /\ c.edges[new].to = b /\ c.edges[new].in = j
    /\ c.edges[new].tensor = h.nodes[a].tensors[i]
    /\ \A n \in DOMAIN h.nodes :
         /\ c.nodes[n].kind = h.nodes[n].kind /\ c.nodes[n].tensors = h.nodes[n].tensors
         /\ DOMAIN c.nodes[n].ins = DOMAIN h.nodes[n].ins
         /\ \A k \in DOMAIN h.nodes[n].ins :
              c.nodes[n].ins[k] = IF n = b /\ k = j THEN new
                                  ELSE IF n = h.edges[e].to /\ k = h.edges[e].in THEN 0
                                  ELSE h.nodes[n].ins[k]

\* Edge e has given way to a new one, from node a to input j of node b.
EdgeMoved(e, a, b, j) ==
    LET new == Len(g.edges) + 1 IN
    /\ e \in LiveOf(g) /\ Len(g.edges) \in Nat
    /\ LiveOf(g') = (LiveOf(g) \ {e}) \cup {new}
    /\ \A f \in LiveOf(g) : /\ g'.edges[f].from = g.edges[f].from /\ g'.edges[f].to = g.edges[f].to
                            /\ g'.edges[f].in = g.edges[f].in
    /\ g'.edges[new].from = a /\ g'.edges[new].to = b /\ g'.edges[new].in = j
    /\ DOMAIN g'.nodes = DOMAIN g.nodes
    /\ \A n \in DOMAIN g.nodes : g'.nodes[n].kind = g.nodes[n].kind

\* Where the edges lead after one was connected anew.
LEMMA ReconnectedMoves ==
    ASSUME Sound(g), NEW h, h.edges = g.edges, DOMAIN h.nodes = DOMAIN g.nodes,
           \A n \in DOMAIN g.nodes : h.nodes[n].kind = g.nodes[n].kind,
           NEW e \in LiveOf(g), NEW a, NEW i, NEW b, NEW j, Reconnected(h, e, a, i, b, j, g')
    PROVE  EdgeMoved(e, a, b, j)
<1>1. LiveOf(h) = LiveOf(g) /\ Len(g.edges) \in Nat
  BY NodeFacts DEF LiveOf
<1>2. \A f \in LiveOf(g) : f \in DOMAIN g.edges
  BY EdgeEnds
<1> QED
  BY <1>1, <1>2 DEF Reconnected, EdgeMoved, SameEdge

LEMMA Reconnects ==
    ASSUME NEW h, Sound(h), Shaped(h), NEW e \in LiveOf(h),
           NEW a \in DOMAIN h.nodes, NEW i \in DOMAIN h.nodes[a].tensors,
           NEW b \in DOMAIN h.nodes, NEW j \in Nat,
           h.nodes[b].kind \in {"layer", "output", "npu"},
           h.nodes[b].kind # "npu" => j \in DOMAIN h.nodes[b].ins,
           j \in DOMAIN h.nodes[b].ins =>
             h.nodes[b].ins[j] = 0 \/ (h.edges[e].to = b /\ h.edges[e].in = j),
           NEW c, c = Connect(Disconnect(h, {e}), a, i, b, j)
    PROVE  Reconnected(h, e, a, i, b, j, c) /\ Sound(c) /\ Shaped(c)
<1> DEFINE d == Disconnect(h, {e})
           new == Len(h.edges) + 1
<1>1. h \in GraphRecs /\ e \in DOMAIN h.edges /\ LiveOf(h) \subseteq DOMAIN h.edges
  BY DEF Sound, LiveOf
<1>2. Disconnected(h, {e}, d)
  BY <1>1, DisconnectIs
<1>3. c = Connect(d, a, i, b, j)
  OBVIOUS
<1> HIDE DEF d
<1>4. Sound(d)
  BY <1>2, DisconnectSound
<1>5. Shaped(d)
  BY <1>2, DisconnectedShaped
<1>6. /\ d \in GraphRecs
      /\ DOMAIN d.nodes = DOMAIN h.nodes /\ DOMAIN d.edges = DOMAIN h.edges
      /\ DOMAIN d.bound = DOMAIN h.bound
      /\ LiveOf(d) = LiveOf(h) \ {e}
      /\ \A x \in DOMAIN h.edges : SameEdge(h, d, x)
      /\ \A n \in DOMAIN h.nodes :
           /\ d.nodes[n].kind = h.nodes[n].kind /\ d.nodes[n].tensors = h.nodes[n].tensors
           /\ DOMAIN d.nodes[n].ins = DOMAIN h.nodes[n].ins
  BY <1>1, <1>2, DisconnectedFacts
<1>7. ASSUME NEW n \in DOMAIN h.nodes, NEW k \in DOMAIN h.nodes[n].ins
      PROVE  d.nodes[n].ins[k] = IF n = h.edges[e].to /\ k = h.edges[e].in THEN 0
                                 ELSE h.nodes[n].ins[k]
  <2>1. LiveOf(h) \cap {e} = {e}
    OBVIOUS
  <2>2. \/ /\ h.edges[e].to = n /\ h.edges[e].in = k
           /\ d.nodes[n].ins[k] = 0
        \/ /\ ~(h.edges[e].to = n /\ h.edges[e].in = k)
           /\ d.nodes[n].ins[k] = h.nodes[n].ins[k]
    BY <2>1, <1>2 DEF Disconnected
  <2> QED
    BY <2>2
<1>8. Len(d.nodes) = Len(h.nodes) /\ Len(d.edges) = Len(h.edges)
  BY <1>2 DEF Disconnected
<1>9. d.nodes[a].tensors[i] \in DOMAIN d.bound /\ i \in DOMAIN d.nodes[a].tensors
  BY <1>6 DEF Sound, NodeSound
<1>10. Connected(d, a, i, b, j, c)
  BY <1>3, <1>6, <1>9, ConnectIs
<1>11. j \in DOMAIN d.nodes[b].ins => d.nodes[b].ins[j] = 0
  BY <1>6, <1>7
<1>12. Sound(c)
  BY <1>4, <1>6, <1>9, <1>10, <1>11, ConnectSound
<1>13. Shaped(c)
  BY <1>4, <1>5, <1>6, <1>10, ConnectedShaped
<1>14. DOMAIN c.nodes = DOMAIN d.nodes
  BY <1>6, <1>10, ConnectedFacts
<1>15. \A x \in DOMAIN h.edges : SameEdge(h, c, x)
  <2>1. \A x \in DOMAIN d.edges : c.edges[x] = d.edges[x]
    BY <1>10 DEF Connected
  <2> QED
    <3> SUFFICES ASSUME NEW x \in DOMAIN h.edges
                 PROVE  SameEdge(h, c, x)
      OBVIOUS
    <3>1. c.edges[x] = d.edges[x] /\ SameEdge(h, d, x)
      BY <2>1, <1>6
    <3> QED
      BY <3>1 DEF SameEdge
<1>16. /\ Len(c.nodes) = Len(h.nodes) /\ Len(c.edges) = new
       /\ LiveOf(c) = (LiveOf(h) \ {e}) \cup {new}
       /\ c.edges[new].from = a /\ c.edges[new].to = b /\ c.edges[new].in = j
       /\ c.edges[new].tensor = h.nodes[a].tensors[i]
  BY <1>6, <1>8, <1>10 DEF Connected
<1>17. ASSUME NEW n \in DOMAIN h.nodes
       PROVE  /\ c.nodes[n].kind = h.nodes[n].kind /\ c.nodes[n].tensors = h.nodes[n].tensors
              /\ DOMAIN c.nodes[n].ins = DOMAIN h.nodes[n].ins
              /\ \A k \in DOMAIN h.nodes[n].ins :
                   c.nodes[n].ins[k] = IF n = b /\ k = j THEN new
                                       ELSE IF n = h.edges[e].to /\ k = h.edges[e].in THEN 0
                                       ELSE h.nodes[n].ins[k]
  <2>1. /\ c.nodes[n].kind = d.nodes[n].kind /\ c.nodes[n].tensors = d.nodes[n].tensors
        /\ DOMAIN c.nodes[n].ins = DOMAIN d.nodes[n].ins
        /\ \A k \in DOMAIN d.nodes[n].ins :
             c.nodes[n].ins[k] = IF n = b /\ k = j THEN new ELSE d.nodes[n].ins[k]
    <3>1. \A x \in DOMAIN d.nodes :
            /\ c.nodes[x].kind = d.nodes[x].kind /\ c.nodes[x].tensors = d.nodes[x].tensors
            /\ DOMAIN c.nodes[x].ins = DOMAIN d.nodes[x].ins
            /\ \A k \in DOMAIN d.nodes[x].ins :
                 c.nodes[x].ins[k] = IF x = b /\ k = j THEN Len(d.edges) + 1 ELSE d.nodes[x].ins[k]
      BY <1>10 DEF Connected
    <3> QED
      BY <3>1, <1>6, <1>8
  <2> QED
    BY <2>1, <1>6, <1>7
<1>18. Reconnected(h, e, a, i, b, j, c)
  BY <1>6, <1>14, <1>15, <1>16, <1>17 DEF Reconnected
<1> QED
  BY <1>12, <1>13, <1>18

\* One edge is replaced by another.
LEMMA ReconnectedFlow ==
    ASSUME NEW h, Sound(h), Flow(h), NEW e \in LiveOf(h), NEW a \in DOMAIN h.nodes, NEW i,
           NEW b \in DOMAIN h.nodes, NEW j, NEW c, Reconnected(h, e, a, i, b, j, c),
           h.nodes[a].kind \in {"input", "npu"},
           h.nodes[b].kind = "npu" => h.nodes[a].kind = "input",
           \/ h.nodes[h.edges[e].to].kind = "output"
           \/ h.nodes[a].kind = "input" /\ h.nodes[b].kind # "output"
    PROVE  Flow(c) /\ (InputReads(h) # {} => InputReads(c) # {})
<1> DEFINE new == Len(h.edges) + 1
<1>1. /\ LiveOf(c) = (LiveOf(h) \ {e}) \cup {new}
      /\ c.edges[new].from = a /\ c.edges[new].to = b
      /\ \A n \in DOMAIN h.nodes : c.nodes[n].kind = h.nodes[n].kind
  BY DEF Reconnected
<1>2. \A x \in LiveOf(h) : /\ h.edges[x].from \in DOMAIN h.nodes /\ h.edges[x].to \in DOMAIN h.nodes
                           /\ c.edges[x].from = h.edges[x].from /\ c.edges[x].to = h.edges[x].to
  BY EdgeEnds DEF Reconnected, SameEdge
<1> HIDE DEF new
<1>3. Flow(c)
  <2> SUFFICES ASSUME NEW x \in LiveOf(c)
               PROVE  /\ c.nodes[c.edges[x].from].kind \in {"input", "const", "layer", "npu"}
                      /\ c.nodes[c.edges[x].to].kind # "npu" \/ c.nodes[c.edges[x].from].kind = "input"
    BY DEF Flow
  <2>1. CASE x = new
    BY <2>1, <1>1
  <2>2. CASE x \in LiveOf(h)
    <3>1. /\ h.nodes[h.edges[x].from].kind \in {"input", "const", "layer", "npu"}
          /\ h.nodes[h.edges[x].to].kind # "npu" \/ h.nodes[h.edges[x].from].kind = "input"
      BY <2>2 DEF Flow
    <3>2. /\ c.nodes[c.edges[x].from].kind = h.nodes[h.edges[x].from].kind
          /\ c.nodes[c.edges[x].to].kind = h.nodes[h.edges[x].to].kind
      <4>1. c.edges[x].from = h.edges[x].from /\ c.edges[x].to = h.edges[x].to
        BY <2>2, <1>2
      <4>2. h.edges[x].from \in DOMAIN h.nodes /\ h.edges[x].to \in DOMAIN h.nodes
        BY <2>2, <1>2
      <4> QED
        BY <4>1, <4>2, <1>1
    <3> QED
      BY <3>1, <3>2
  <2> QED
    BY <2>1, <2>2, <1>1
<1>4. ASSUME InputReads(h) # {}
      PROVE  InputReads(c) # {}
  <2>1. PICK x \in LiveOf(h) : /\ h.nodes[h.edges[x].from].kind = "input"
                               /\ h.nodes[h.edges[x].to].kind # "output"
    BY <1>4 DEF InputReads
  <2>2. CASE x # e
    <3>1. x \in InputReads(c)
      BY <2>1, <2>2, <1>1, <1>2 DEF InputReads
    <3> QED
      BY <3>1
  <2>3. CASE x = e
    <3>1. new \in InputReads(c)
      BY <2>1, <2>3, <1>1 DEF InputReads
    <3> QED
      BY <3>1
  <2> QED
    BY <2>2, <2>3
<1> QED
  BY <1>3, <1>4

\* What a step of the merge has to keep.
LEMMA StillMerging ==
    ASSUME IInv, phase \notin {"sorting", "sorted"}, phase' \in MergePhases,
           UNCHANGED <<stack, visited, order>>, Sound(g'), Shaped(g'), work' \in Seq(Nat),
           slot' \in 0 .. Len(g'.edges), Merging', Loops'
    PROVE  IInv'
<1>1. visited' = {} /\ stack' = <<>> /\ order' = <<>>
  BY DEF IInv
<1>2. visited' \subseteq Nodes' /\ Remaining(g', stack') /\ Remaining(g', order')
  BY <1>1 DEF Remaining
<1> QED
  BY <1>1, <1>2 DEF IInv, MergePhases

LEMMA StillFlowing ==
    ASSUME phase' \in MergePhases, Flow(g'), InputReads(g') # {},
           phase' = "inputs" =>
             \A n \in Nodes' : g'.nodes[n].kind = "input" => OnlyToLast(g', n) \/ Listed(work', n),
           phase' = "removing" =>
             \A n \in Nodes' : /\ g'.nodes[n].kind = "input" => OnlyToLast(g', n)
                               /\ g'.nodes[n].kind \in {"layer", "const"} => Listed(work', n)
    PROVE  EdgeInv'
BY DEF EdgeInv, Sorting, MergePhases

\* The kinds that work consists of are those of the nodes.
LEMMA WorkOf ==
    ASSUME Sound(g), NEW kinds
    PROVE  /\ Ascending(OfKind(kinds)) \in Seq(Nat)
           /\ OnlyKinds(g, Ascending(OfKind(kinds)), kinds)
           /\ \A n \in Nodes : g.nodes[n].kind \in kinds => Listed(Ascending(OfKind(kinds)), n)
           /\ Cardinality(OfKind(kinds)) \in Nat
<1> DEFINE S == OfKind(kinds)
<1>1. DOMAIN g.nodes = 1 .. Len(g.nodes) /\ Len(g.nodes) \in Nat
  BY NodeFacts
<1>2. S \in SUBSET (1 .. Len(g.nodes))
  BY <1>1 DEF OfKind, Nodes
<1>3. \A n \in S : n \in DOMAIN g.nodes /\ g.nodes[n].kind \in kinds
  BY DEF OfKind, Nodes
<1>4. \A n \in Nodes : g.nodes[n].kind \in kinds => n \in S
  BY DEF OfKind
<1> HIDE DEF S
<1>5. /\ Cardinality(S) \in Nat /\ Ascending(S) \in Seq(Nat)
      /\ \A i \in DOMAIN Ascending(S) : Ascending(S)[i] \in S
      /\ \A x \in S : Listed(Ascending(S), x)
  BY <1>1, <1>2, AscendingOver
<1>6. OnlyKinds(g, Ascending(S), kinds)
  BY <1>3, <1>5 DEF OnlyKinds
<1>7. \A n \in Nodes : g.nodes[n].kind \in kinds => Listed(Ascending(S), n)
  BY <1>4, <1>5
<1> QED
  BY <1>5, <1>6, <1>7 DEF S

LEMMA AddNpuNodeKeeps ==
    ASSUME IInv, AddNpuNode
    PROVE  IInv' /\ (EdgeInv => EdgeInv')
<1> DEFINE m == Len(g.nodes) + 1
           k == Cardinality(OfKind({"input"}))
<1>1. /\ phase = "building" /\ work = <<>> /\ built' = g /\ slot' = 0 /\ phase' = "outputs"
      /\ work' = Ascending(OfKind({"output"})) /\ UNCHANGED <<stack, visited, order>>
  BY DEF AddNpuNode, Constructed, Building
<1>2. Sound(g) /\ Shaped(g) /\ Unconnected(g, <<>>) /\ g \in GraphRecs
  BY <1>1 DEF IInv, Sound
<1>3. k \in Nat /\ g' = AddNode(g, "npu", k, 0)
  BY <1>2, WorkOf DEF AddNpuNode
<1> HIDE DEF k
<1>4. Extended(g, "npu", k, 0, g')
  BY <1>2, <1>3, AddNodeIs DEF Kinds
<1>5. Sound(g') /\ DOMAIN g'.nodes = DOMAIN g.nodes \cup {m} /\ m \notin DOMAIN g.nodes
  BY <1>2, <1>3, <1>4, AddNodeSound
<1>6. Shaped(g')
  BY <1>2, <1>3, <1>4, ExtendedShaped
<1>7. /\ Len(g'.nodes) = m /\ g'.edges = g.edges
      /\ \A n \in DOMAIN g.nodes : g'.nodes[n] = g.nodes[n]
      /\ g'.nodes[m].kind = "npu" /\ Len(g'.nodes[m].tensors) = 0
      /\ Len(g'.nodes[m].ins) = k /\ \A i \in 1 .. k : g'.nodes[m].ins[i] = 0
  BY <1>4 DEF Extended
<1>8. /\ work' \in Seq(Nat) /\ OnlyKinds(g, work', {"output"})
      /\ \A n \in Nodes : g.nodes[n].kind = "output" => Listed(work', n)
  BY <1>1, <1>2, WorkOf
<1>9. NpuLast(g')
  BY <1>2, <1>5, <1>7 DEF NpuLast, Unconnected
<1>10. ASSUME NEW n \in DOMAIN g'.nodes, g'.nodes[n].kind = "output"
       PROVE  ReadsAsBuilt(g, n)' /\ Listed(work', n)
  <2>1. n \in DOMAIN g.nodes /\ g'.nodes[n] = g.nodes[n] /\ g.nodes[n].kind = "output"
    BY <1>5, <1>7, <1>10
  <2>2. 1 \in DOMAIN g.nodes[n].ins /\ Len(g.nodes[n].ins) = 1
    BY <2>1, <1>2, NodeFacts DEF Shaped
  <2>3. g.nodes[n].ins[1] # 0
    <3>1. ~ (1 > Len(g.nodes[n].ins) - Len(<<>>))
      BY <2>2
    <3> QED
      BY <3>1, <2>1, <2>2, <1>2 DEF Unconnected
  <2> QED
    BY <2>1, <2>3, <1>1, <1>7, <1>8 DEF ReadsAsBuilt, TensorRead, Nodes
<1>11. Merging'
  BY <1>1, <1>9, <1>10 DEF Merging, Nodes
<1>12. Loops'
  <2>1. OnlyKinds(g', work', {"output"})
    BY <1>5, <1>7, <1>8 DEF OnlyKinds
  <2>2. \A i \in DOMAIN g'.nodes[m].ins : g'.nodes[m].ins[i] = 0
    BY <1>5, <1>7, NodeFacts
  <2> QED
    BY <2>1, <2>2, <1>1, <1>7 DEF Loops, Npu
<1>13. slot' \in 0 .. Len(g'.edges)
  BY <1>1, <1>5, NodeFacts
<1>14. IInv'
  BY <1>1, <1>5, <1>6, <1>8, <1>11, <1>12, <1>13, StillMerging DEF MergePhases
<1>15. ASSUME EdgeInv
       PROVE  EdgeInv'
  <2>1. Flow(g) /\ Forward(g, <<>>)
    BY <1>1, <1>15 DEF EdgeInv
  <2>2. PICK l \in DOMAIN g.nodes : g.nodes[l].kind = "layer"
    BY DEF AddNpuNode, Constructed, OfKind, Nodes
  <2>3. InputReads(g) # {}
    BY <2>1, <2>2, <1>2, SomeInputRead
  <2>4. Flow(g') /\ InputReads(g') # {}
    BY <2>1, <2>3, <1>2, <1>3, <1>4, ExtendedFlow
  <2> QED
    BY <2>4, <1>1, StillFlowing DEF MergePhases
<1> QED
  BY <1>14, <1>15
LEMMA TensorExists ==
    ASSUME NEW h, Sound(h), NEW e \in LiveOf(h)
    PROVE  h.edges[e].tensor \in DOMAIN h.bound /\ h.edges[e].tensor \in Nat
<1>1. /\ h.edges[e].from \in DOMAIN h.nodes
      /\ h.edges[e].out \in DOMAIN h.nodes[h.edges[e].from].tensors
      /\ h.edges[e].tensor = h.nodes[h.edges[e].from].tensors[h.edges[e].out]
  BY DEF Sound, EdgeSound
<1>2. h.edges[e].tensor \in DOMAIN h.bound
  <2>1. PICK n \in DOMAIN h.nodes : n = h.edges[e].from
    BY <1>1
  <2>2. \A i \in DOMAIN h.nodes[n].tensors : h.nodes[n].tensors[i] \in DOMAIN h.bound
    BY DEF Sound, NodeSound
  <2> QED
    BY <2>1, <2>2, <1>1
<1>3. h \in GraphRecs
  BY DEF Sound
<1>4. DOMAIN h.bound = 1 .. Len(h.bound) /\ Len(h.bound) \in Nat
  BY <1>3, GraphFacts
<1> QED
  BY <1>2, <1>4

LEMMA MoveOutputKeeps ==
    ASSUME IInv, MoveOutput, NEW n, n = work[1]
    PROVE  /\ IInv' /\ (EdgeInv => EdgeInv')
           /\ \E e, a : EdgeMoved(e, a, n, 1) /\ g.nodes[g.edges[e].to].kind = "output"
           /\ n \in DOMAIN g.nodes /\ g.nodes[n].kind = "output"
<1> DEFINE m == Len(g.nodes)
           e == g.nodes[n].ins[1]
           t == g.edges[e].tensor
           h == [g EXCEPT !.nodes[m].tensors = Append(@, t)]
           new == Len(g.edges) + 1
<1>1. /\ phase = "outputs" /\ phase' = "outputs" /\ work # <<>> /\ work' = Tail(work)
      /\ slot' = slot + 1 /\ built' = built /\ UNCHANGED <<stack, visited, order>>
  BY DEF MoveOutput
<1>2. Sound(g) /\ Shaped(g) /\ g \in GraphRecs /\ Merging /\ Loops /\ work \in Seq(Nat)
  BY <1>1 DEF IInv, Sound, MergePhases
<1>3. /\ work' \in Seq(Nat) /\ 1 \in DOMAIN work /\ Head(work) = work[1]
      /\ \A i \in DOMAIN work' : i + 1 \in DOMAIN work /\ work'[i] = work[i + 1]
      /\ \A i \in DOMAIN work \ {1} : i - 1 \in DOMAIN work' /\ work'[i - 1] = work[i]
  BY <1>1, <1>2, TailIs
<1>4. /\ OnlyKinds(g, work, {"output"}) /\ slot = Len(g.nodes[m].tensors)
      /\ \A i \in DOMAIN g.nodes[m].ins : g.nodes[m].ins[i] = 0
  BY <1>1, <1>2 DEF Loops, Npu
<1>5. n \in DOMAIN g.nodes /\ g.nodes[n].kind = "output"
  BY <1>3, <1>4 DEF OnlyKinds
<1>6. /\ m \in DOMAIN g.nodes /\ g.nodes[m].kind = "npu" /\ n # m
      /\ \A x \in DOMAIN g.nodes : g.nodes[x].kind = "npu" <=> x = m
  BY <1>2, <1>5 DEF Merging, NpuLast
<1>7. e # 0 /\ ReadsAsBuilt(g, n)
  BY <1>2, <1>5 DEF Merging, ReadsAsBuilt, Nodes
<1>8. \A x \in DOMAIN g.nodes : g.nodes[x].kind = "output" => 1 \in DOMAIN g.nodes[x].ins
  BY <1>2, NodeFacts DEF Shaped
<1>9. e \in LiveOf(g) /\ g.edges[e].to = n /\ g.edges[e].in = 1
  <2>1. NodeSound(g, n) /\ 1 \in DOMAIN g.nodes[n].ins
    BY <1>2, <1>5, <1>8 DEF Sound
  <2> QED
    BY <2>1, <1>7 DEF NodeSound
<1>10. t \in DOMAIN g.bound /\ t \in Nat
  BY <1>2, <1>9, TensorExists
<1>11. g' = Connect(Disconnect(h, {e}), m, slot + 1, n, 1)
  BY <1>3 DEF MoveOutput, Npu
<1>12. /\ DOMAIN g.nodes = 1 .. m /\ m \in Nat /\ slot \in Nat /\ Len(g.edges) \in Nat
       /\ g.nodes[m].tensors \in Seq(Nat)
  BY <1>2, <1>4, <1>6, NodeFacts
<1> HIDE DEF m, e, t
<1>13. Retensored(g, m, t, h)
  BY <1>2, <1>6, <1>10, RetensorIs
<1> HIDE DEF h
<1>14. Sound(h) /\ LiveOf(h) = LiveOf(g) /\ DOMAIN h.nodes = DOMAIN g.nodes
  BY <1>2, <1>6, <1>10, <1>13, RetensorSound
<1>15. Shaped(h)
  BY <1>2, <1>6, <1>10, <1>13, RetensoredShaped
<1>16. /\ h.edges = g.edges /\ Len(h.nodes) = m
       /\ \A x \in DOMAIN g.nodes : h.nodes[x].kind = g.nodes[x].kind /\ h.nodes[x].ins = g.nodes[x].ins
       /\ h.nodes[m].tensors = Append(g.nodes[m].tensors, t)
  BY <1>6, <1>13 DEF Retensored, m
<1>17. slot + 1 \in DOMAIN h.nodes[m].tensors /\ h.nodes[m].tensors[slot + 1] = t
       /\ Len(h.nodes[m].tensors) = slot + 1
  BY <1>4, <1>10, <1>12, <1>16
<1>18. Reconnected(h, e, m, slot + 1, n, 1, g') /\ Sound(g') /\ Shaped(g')
  <2>1. h.nodes[n].kind \in {"layer", "output", "npu"} /\ 1 \in DOMAIN h.nodes[n].ins
    BY <1>5, <1>8, <1>16
  <2>2. h.edges[e].to = n /\ h.edges[e].in = 1 /\ e \in LiveOf(h)
    BY <1>9, <1>14, <1>16
  <2>3. m \in DOMAIN h.nodes /\ n \in DOMAIN h.nodes /\ 1 \in Nat
    BY <1>5, <1>6, <1>14
  <2> QED
    BY <2>1, <2>2, <2>3, <1>11, <1>14, <1>15, <1>17, Reconnects
<1>19. /\ Len(g'.nodes) = m /\ Len(g'.edges) = new /\ DOMAIN g'.nodes = DOMAIN g.nodes
       /\ \A x \in DOMAIN g.edges : g'.edges[x].from = g.edges[x].from
                                    /\ g'.edges[x].tensor = g.edges[x].tensor
       /\ g'.edges[new].from = m /\ g'.edges[new].tensor = t
  BY <1>14, <1>16, <1>17, <1>18 DEF Reconnected, SameEdge
<1>20. \A x \in DOMAIN g.nodes :
         /\ g'.nodes[x].kind = g.nodes[x].kind /\ g'.nodes[x].tensors = h.nodes[x].tensors
         /\ DOMAIN g'.nodes[x].ins = DOMAIN g.nodes[x].ins
         /\ \A k \in DOMAIN g.nodes[x].ins :
              g'.nodes[x].ins[k] = IF x = n /\ k = 1 THEN new ELSE g.nodes[x].ins[k]
  <2>1. \A x \in DOMAIN h.nodes :
          /\ g'.nodes[x].kind = h.nodes[x].kind /\ g'.nodes[x].tensors = h.nodes[x].tensors
          /\ DOMAIN g'.nodes[x].ins = DOMAIN h.nodes[x].ins
          /\ \A k \in DOMAIN h.nodes[x].ins :
               g'.nodes[x].ins[k] = IF x = n /\ k = 1 THEN Len(h.edges) + 1
                                    ELSE IF x = h.edges[e].to /\ k = h.edges[e].in THEN 0
                                    ELSE h.nodes[x].ins[k]
    BY <1>18 DEF Reconnected
  <2> QED
    BY <2>1, <1>9, <1>14, <1>16
<1> HIDE DEF new
<1>21. NpuLast(g')
  BY <1>6, <1>19, <1>20 DEF NpuLast
<1>22. ASSUME NEW x \in DOMAIN g.nodes, g.nodes[x].kind = "output", x # n
       PROVE  ReadsAsBuilt(g, x)' /\ (ReadsNpu(g, x)' \/ Listed(work', x))
  <2>1. ReadsAsBuilt(g, x) /\ (ReadsNpu(g, x) \/ Listed(work, x))
    BY <1>22, <1>2 DEF Merging, Nodes
  <2>2. 1 \in DOMAIN g.nodes[x].ins /\ g'.nodes[x].ins[1] = g.nodes[x].ins[1]
    BY <1>22, <1>8, <1>20
  <2>3. g.nodes[x].ins[1] \in DOMAIN g.edges
    <3>1. NodeSound(g, x)
      BY <1>2 DEF Sound
    <3>2. g.nodes[x].ins[1] # 0
      BY <2>1 DEF ReadsAsBuilt
    <3>3. g.nodes[x].ins[1] \in LiveOf(g)
      BY <2>2, <3>1, <3>2 DEF NodeSound
    <3> QED
      BY <3>3 DEF LiveOf
  <2>4. ReadsAsBuilt(g, x)'
    BY <2>1, <2>2, <2>3, <1>1, <1>19 DEF ReadsAsBuilt, TensorRead
  <2>5. CASE ReadsNpu(g, x)
    BY <2>2, <2>3, <2>4, <2>5, <1>19 DEF ReadsNpu, m
  <2>6. CASE Listed(work, x)
    <3>1. PICK i \in DOMAIN work : work[i] = x
      BY <2>6 DEF Listed
    <3>2. i \in DOMAIN work \ {1}
      BY <3>1, <1>22
    <3>3. i - 1 \in DOMAIN work' /\ work'[i - 1] = x
      BY <3>1, <3>2, <1>3
    <3> QED
      BY <3>3, <2>4 DEF Listed
  <2> QED
    BY <2>1, <2>5, <2>6
<1>23. ReadsAsBuilt(g, n)' /\ ReadsNpu(g, n)'
  <2>1. g'.nodes[n].ins[1] = new
    BY <1>5, <1>8, <1>20
  <2>2. new # 0
    BY <1>12 DEF new
  <2>3. TensorRead(g, n)' = t
    BY <2>1, <1>19 DEF TensorRead
  <2>4. TensorRead(built, n) = t
    BY <1>7 DEF ReadsAsBuilt, TensorRead, t, e
  <2> QED
    BY <2>1, <2>2, <2>3, <2>4, <1>1, <1>19 DEF ReadsAsBuilt, ReadsNpu, TensorRead
<1>24. Merging'
  BY <1>1, <1>19, <1>20, <1>21, <1>22, <1>23 DEF Merging, Nodes
<1>25. Loops'
  <2>1. OnlyKinds(g', work', {"output"})
    BY SMTT(30), <1>3, <1>4, <1>19, <1>20 DEF OnlyKinds
  <2>2. slot' = Len(g'.nodes[m].tensors)
    BY <1>1, <1>6, <1>17, <1>20
  <2>3. \A i \in DOMAIN g'.nodes[m].ins : g'.nodes[m].ins[i] = 0
    BY <1>4, <1>6, <1>20
  <2> QED
    BY <2>1, <2>2, <2>3, <1>1, <1>19 DEF Loops, Npu
<1>26. slot' \in 0 .. Len(g'.edges)
  BY <1>1, <1>12, <1>19 DEF IInv, new
<1>27. IInv'
  BY <1>1, <1>3, <1>18, <1>24, <1>25, <1>26, StillMerging DEF MergePhases
<1>28. ASSUME EdgeInv
       PROVE  EdgeInv'
  <2>1. Flow(g) /\ InputReads(g) # {}
    BY <1>1, <1>28 DEF EdgeInv, MergePhases
  <2>2. Flow(h) /\ InputReads(h) # {}
    <3>1. \A x \in DOMAIN g.nodes : h.nodes[x].kind = g.nodes[x].kind
      BY <1>16
    <3> QED
      BY <2>1, <3>1, <1>2, <1>14, <1>16, SameReads
  <2>3. /\ e \in LiveOf(h) /\ m \in DOMAIN h.nodes /\ n \in DOMAIN h.nodes
        /\ h.nodes[m].kind = "npu" /\ h.nodes[n].kind = "output"
        /\ h.nodes[h.edges[e].to].kind = "output"
    BY <1>5, <1>6, <1>9, <1>14, <1>16
  <2>4. Flow(g') /\ InputReads(g') # {}
    BY <2>2, <2>3, <1>14, <1>18, ReconnectedFlow
  <2> QED
    BY <2>4, <1>1, StillFlowing DEF MergePhases
<1>29. EdgeMoved(e, m, n, 1)
  <2>1. h.edges = g.edges /\ \A x \in DOMAIN g.nodes : h.nodes[x].kind = g.nodes[x].kind
    BY <1>16
  <2> QED
    BY <2>1, <1>2, <1>9, <1>14, <1>18, ReconnectedMoves
<1> QED
  BY <1>5, <1>9, <1>27, <1>28, <1>29

\* When the graph stays as it is and every output reads from the NPU node, so it does next.
LEMMA StillRead ==
    ASSUME Merging, phase # "outputs", UNCHANGED <<g, built>>
    PROVE  Merging'
BY DEF Merging, NpuLast, ReadsAsBuilt, ReadsNpu, TensorRead, Nodes

LEMMA OutputsMovedKeeps ==
    ASSUME IInv, OutputsMoved
    PROVE  IInv' /\ (EdgeInv => EdgeInv')
<1>1. /\ phase = "outputs" /\ phase' = "inputs" /\ work = <<>> /\ slot' = 0
      /\ work' = Ascending(OfKind({"input"})) /\ UNCHANGED <<g, stack, visited, order, built>>
  BY DEF OutputsMoved
<1>2. Sound(g) /\ Shaped(g) /\ Merging /\ Loops
  BY <1>1 DEF IInv, MergePhases
<1>3. work' \in Seq(Nat) /\ OnlyKinds(g, work', {"input"})
  BY <1>1, <1>2, WorkOf
<1>4. Merging'
  <2>1. \A n : ~Listed(work, n)
    BY <1>1 DEF Listed
  <2> QED
    BY <2>1, <1>1, <1>2 DEF Merging, NpuLast, ReadsAsBuilt, ReadsNpu, TensorRead, Nodes
<1>5. Loops'
  <2>1. \A i \in DOMAIN g'.nodes[Len(g'.nodes)].ins :
          i > slot' => g'.nodes[Len(g'.nodes)].ins[i] = 0
    BY <1>1, <1>2 DEF Loops, Npu
  <2> QED
    BY <2>1, <1>1, <1>3 DEF Loops, Npu, OnlyKinds
<1>6. slot' \in 0 .. Len(g'.edges)
  BY <1>1, <1>2, NodeFacts
<1>7. IInv'
  BY <1>1, <1>2, <1>3, <1>4, <1>5, <1>6, StillMerging DEF MergePhases
<1>8. ASSUME EdgeInv
      PROVE  EdgeInv'
  <2>1. Flow(g) /\ InputReads(g) # {}
    BY <1>1, <1>8 DEF EdgeInv, MergePhases
  <2>2. \A n \in Nodes : g.nodes[n].kind = "input" => Listed(work', n)
    BY <1>1, <1>2, WorkOf
  <2> QED
    BY <2>1, <2>2, <1>1, StillFlowing DEF MergePhases, Nodes
<1> QED
  BY <1>7, <1>8
LEMMA MoveInputKeeps ==
    ASSUME IInv, MoveInput
    PROVE  /\ IInv' /\ (EdgeInv => EdgeInv')
           /\ \E e, n, m : /\ EdgeMoved(e, n, m, slot + 1) /\ g.edges[e].from = n
                           /\ n \in DOMAIN g.nodes /\ g.nodes[n].kind = "input"
                           /\ m \in DOMAIN g.nodes /\ g.nodes[m].kind = "npu" /\ g.edges[e].to # m
<1> DEFINE m == Len(g.nodes)
           n == work[1]
           S == ToMove(n)
           e == Ascending(S)[1]
           new == Len(g.edges) + 1
<1>1. /\ phase = "inputs" /\ phase' \in {"inputs", "aborted"} /\ work # <<>> /\ work' = work
      /\ slot' = slot + 1 /\ built' = built /\ UNCHANGED <<stack, visited, order>>
  BY DEF MoveInput
<1>2. Sound(g) /\ Shaped(g) /\ g \in GraphRecs /\ Merging /\ Loops /\ work \in Seq(Nat)
  BY <1>1 DEF IInv, Sound, MergePhases
<1>3. 1 \in DOMAIN work /\ Head(work) = n
  BY <1>1, <1>2, TailIs
<1>4. /\ OnlyKinds(g, work, {"input"})
      /\ \A i \in DOMAIN g.nodes[m].ins : i > slot => g.nodes[m].ins[i] = 0
  BY <1>1, <1>2 DEF Loops, Npu
<1>5. n \in DOMAIN g.nodes /\ g.nodes[n].kind = "input"
  BY <1>3, <1>4 DEF OnlyKinds
<1>6. /\ m \in DOMAIN g.nodes /\ g.nodes[m].kind = "npu" /\ n # m
      /\ \A x \in DOMAIN g.nodes : g.nodes[x].kind = "npu" <=> x = m
  BY <1>2, <1>5 DEF Merging, NpuLast
<1>7. S # {} /\ g' = Connect(Disconnect(g, {e}), n, 1, m, slot + 1)
  BY <1>3 DEF MoveInput, Npu
<1>8. /\ DOMAIN g.nodes = 1 .. m /\ m \in Nat /\ slot \in Nat /\ Len(g.edges) \in Nat
      /\ DOMAIN g.nodes[n].tensors = 1 .. Len(g.nodes[n].tensors)
      /\ slot <= Len(g.edges)
  BY <1>2, <1>5, NodeFacts DEF IInv
<1>9. \A x \in S : x \in LiveOf(g) /\ g.edges[x].from = n /\ g.edges[x].to # m
  BY <1>2, <1>5 DEF Sound, NodeSound, ToMove, Npu
<1>10. S \in SUBSET (1 .. Len(g.edges))
  BY <1>2, <1>9, GraphFacts DEF LiveOf
<1>11. 1 \in DOMAIN g.nodes[n].tensors
  <2>1. Len(g.nodes[n].tensors) = 1
    BY <1>2, <1>5 DEF Shaped
  <2> QED
    BY <2>1, <1>8
<1> HIDE DEF S
<1>12. e \in LiveOf(g) /\ g.edges[e].from = n /\ g.edges[e].to # m
  <2>1. PICK x \in S : TRUE
    BY <1>7
  <2>2. /\ Listed(Ascending(S), x) /\ Cardinality(S) \in Nat
        /\ DOMAIN Ascending(S) = 1 .. Cardinality(S)
        /\ \A i \in DOMAIN Ascending(S) : Ascending(S)[i] \in S
    BY <1>8, <1>10, <2>1, AscendingOver
  <2>3. 1 \in DOMAIN Ascending(S)
    BY <2>2 DEF Listed
  <2> QED
    BY <2>2, <2>3, <1>9
<1>13. \A x \in DOMAIN g.nodes : g.nodes[x].kind = "output" => 1 \in DOMAIN g.nodes[x].ins
  BY <1>2, NodeFacts DEF Shaped
<1> HIDE DEF m, n, e
<1>14. Reconnected(g, e, n, 1, m, slot + 1, g') /\ Sound(g') /\ Shaped(g')
  <2>1. slot + 1 \in DOMAIN g.nodes[m].ins => g.nodes[m].ins[slot + 1] = 0
    BY <1>4, <1>8
  <2>2. slot + 1 \in Nat
    BY <1>8
  <2> QED
    BY <2>1, <2>2, <1>2, <1>5, <1>6, <1>7, <1>11, <1>12, Reconnects
<1>15. /\ Len(g'.nodes) = m /\ Len(g'.edges) = new /\ DOMAIN g'.nodes = DOMAIN g.nodes
       /\ \A x \in DOMAIN g.edges : g'.edges[x].from = g.edges[x].from
                                    /\ g'.edges[x].tensor = g.edges[x].tensor
  BY <1>14 DEF Reconnected, SameEdge, m
<1>16. \A x \in DOMAIN g.nodes :
         /\ g'.nodes[x].kind = g.nodes[x].kind
         /\ DOMAIN g'.nodes[x].ins = DOMAIN g.nodes[x].ins
         /\ \A k \in DOMAIN g.nodes[x].ins :
              g'.nodes[x].ins[k] = IF x = m /\ k = slot + 1 THEN new
                                   ELSE IF x = g.edges[e].to /\ k = g.edges[e].in THEN 0
                                   ELSE g.nodes[x].ins[k]
  BY <1>14 DEF Reconnected
<1> HIDE DEF new
<1>17. NpuLast(g')
  BY <1>6, <1>15, <1>16 DEF NpuLast
<1>18. ASSUME NEW x \in DOMAIN g.nodes, g.nodes[x].kind = "output"
       PROVE  ReadsAsBuilt(g, x)' /\ ReadsNpu(g, x)'
  <2>1. ReadsAsBuilt(g, x) /\ ReadsNpu(g, x) /\ x # m
    BY <1>18, <1>1, <1>2, <1>6 DEF Merging, Nodes
  <2>2. 1 \in DOMAIN g.nodes[x].ins
    BY <1>18, <1>13
  <2>3. g.nodes[x].ins[1] # e
    BY <2>1, <1>6, <1>12 DEF ReadsNpu, m
  <2>4. ~(x = g.edges[e].to /\ 1 = g.edges[e].in)
    BY <2>2, <2>3, <1>2, <1>12 DEF Sound, EdgeSound
  <2>5. g'.nodes[x].ins[1] = g.nodes[x].ins[1]
    BY <2>1, <2>2, <2>4, <1>16
  <2>6. g.nodes[x].ins[1] \in DOMAIN g.edges
    BY <1>18, <2>1, <2>2, <1>2 DEF ReadsAsBuilt, Sound, NodeSound, LiveOf
  <2>7. ReadsAsBuilt(g, x)'
    BY <2>1, <2>5, <2>6, <1>1, <1>15 DEF ReadsAsBuilt, TensorRead
  <2>8. ReadsNpu(g, x)'
    BY <2>1, <2>5, <2>6, <1>15 DEF ReadsNpu, m
  <2> QED
    BY <2>7, <2>8
<1>19. Merging'
  BY <1>15, <1>16, <1>17, <1>18 DEF Merging, Nodes
<1>20. Loops'
  <2>1. OnlyKinds(g', work', {"input"})
    BY <1>1, <1>4, <1>15, <1>16 DEF OnlyKinds
  <2>2. ASSUME NEW i \in DOMAIN g.nodes[m].ins, i > slot + 1
        PROVE  g'.nodes[m].ins[i] = 0
    <3>1. i \in Nat
      BY <1>2, <1>6, NodeFacts
    <3>2. i > slot /\ i # slot + 1
      BY <3>1, <2>2, <1>8
    <3> QED
      BY <3>2, <1>4, <1>6, <1>16
  <2> QED
    BY <2>1, <2>2, <1>1, <1>6, <1>15, <1>16 DEF Loops, Npu
<1>21. slot' \in 0 .. Len(g'.edges)
  BY <1>1, <1>8, <1>15 DEF new
<1>22. IInv'
  BY <1>1, <1>2, <1>14, <1>19, <1>20, <1>21, StillMerging DEF MergePhases
<1>23. ASSUME EdgeInv
       PROVE  EdgeInv'
  <2>1. /\ Flow(g) /\ InputReads(g) # {}
        /\ \A x \in DOMAIN g.nodes : g.nodes[x].kind = "input" => OnlyToLast(g, x) \/ Listed(work, x)
    BY <1>1, <1>23 DEF EdgeInv, MergePhases, Nodes
  <2>2. Flow(g') /\ InputReads(g') # {}
    BY <2>1, <1>2, <1>5, <1>6, <1>12, <1>14, ReconnectedFlow
  <2>3. ASSUME NEW x \in DOMAIN g.nodes, OnlyToLast(g, x)
        PROVE  OnlyToLast(g', x)
    <3>1. /\ LiveOf(g') = (LiveOf(g) \ {e}) \cup {new} /\ g'.edges[new].to = m
          /\ \A f \in LiveOf(g) : g'.edges[f].from = g.edges[f].from /\ g'.edges[f].to = g.edges[f].to
      BY <1>14, EdgeEnds DEF Reconnected, SameEdge, new, LiveOf
    <3> QED
      BY <2>3, <3>1, <1>15 DEF OnlyToLast, m
  <2>4. \A x \in DOMAIN g'.nodes : g'.nodes[x].kind = "input" => OnlyToLast(g', x) \/ Listed(work', x)
    BY <2>1, <2>3, <1>1, <1>15, <1>16
  <2> QED
    BY <2>2, <2>4, <1>1, StillFlowing DEF MergePhases, Nodes
<1>24. EdgeMoved(e, n, m, slot + 1)
  BY <1>2, <1>12, <1>14, ReconnectedMoves
<1> QED
  BY <1>5, <1>6, <1>12, <1>22, <1>23, <1>24
LEMMA InputMovedKeeps ==
    ASSUME IInv, InputMoved
    PROVE  IInv' /\ (EdgeInv => EdgeInv')
<1>1. /\ phase = "inputs" /\ work # <<>> /\ work' = Tail(work)
      /\ UNCHANGED <<g, phase, slot, stack, visited, order, built>>
  BY DEF InputMoved
<1>2. Sound(g) /\ Shaped(g) /\ Merging /\ Loops /\ work \in Seq(Nat) /\ slot \in 0 .. Len(g.edges)
  BY <1>1 DEF IInv, MergePhases
<1>3. work' \in Seq(Nat) /\ \A i \in DOMAIN work' : i + 1 \in DOMAIN work /\ work'[i] = work[i + 1]
  BY <1>1, <1>2, TailIs
<1>4. Merging'
  BY <1>1, <1>2, StillRead
<1>5. Loops'
  <2>1. OnlyKinds(g, work', {"input"})
    BY <1>1, <1>2, <1>3 DEF Loops, OnlyKinds
  <2> QED
    BY <2>1, <1>1, <1>2 DEF Loops, Npu, OnlyKinds
<1>6. IInv'
  BY <1>1, <1>2, <1>3, <1>4, <1>5, StillMerging DEF MergePhases
<1>7. ASSUME EdgeInv
      PROVE  EdgeInv'
  <2>1. /\ Flow(g) /\ InputReads(g) # {}
        /\ \A x \in Nodes : g.nodes[x].kind = "input" => OnlyToLast(g, x) \/ Listed(work, x)
    BY <1>1, <1>7 DEF EdgeInv, MergePhases
  <2>2. /\ 1 \in DOMAIN work /\ Head(work) = work[1]
        /\ \A i \in DOMAIN work \ {1} : i - 1 \in DOMAIN work' /\ work'[i - 1] = work[i]
    BY <1>1, <1>2, TailIs
  <2>3. OnlyToLast(g, work[1])
    <3>1. work[1] \in DOMAIN g.nodes
      BY <2>2, <1>1, <1>2 DEF Loops, OnlyKinds
    <3>2. g.nodes[work[1]].outs = {e \in LiveOf(g) : g.edges[e].from = work[1]}
      BY <3>1, <1>2 DEF Sound, NodeSound
    <3>3. ToMove(work[1]) = {}
      BY <2>2 DEF InputMoved
    <3> QED
      BY <3>2, <3>3 DEF ToMove, OnlyToLast, Npu
  <2>4. ASSUME NEW x \in Nodes, g.nodes[x].kind = "input"
        PROVE  OnlyToLast(g, x) \/ Listed(work', x)
    BY <2>1, <2>2, <2>3, <2>4 DEF Listed
  <2> QED
    BY <2>1, <2>4, <1>1, StillFlowing DEF MergePhases, Nodes
<1> QED
  BY <1>6, <1>7
LEMMA InputsMovedKeeps ==
    ASSUME IInv, InputsMoved
    PROVE  IInv' /\ (EdgeInv => EdgeInv')
<1>1. /\ phase = "inputs" /\ phase' = "removing" /\ work' = Ascending(OfKind({"layer", "const"}))
      /\ UNCHANGED <<g, slot, stack, visited, order, built>>
  BY DEF InputsMoved
<1>2. Sound(g) /\ Shaped(g) /\ Merging /\ slot \in 0 .. Len(g.edges)
  BY <1>1 DEF IInv, MergePhases
<1>3. work' \in Seq(Nat) /\ OnlyKinds(g, work', {"layer", "const"})
  BY <1>1, <1>2, WorkOf
<1>4. Merging'
  BY <1>1, <1>2, StillRead
<1>5. Loops'
  BY <1>1, <1>3 DEF Loops, OnlyKinds
<1>6. IInv'
  BY <1>1, <1>2, <1>3, <1>4, <1>5, StillMerging DEF MergePhases
<1>7. ASSUME EdgeInv
      PROVE  EdgeInv'
  <2>1. /\ Flow(g) /\ InputReads(g) # {}
        /\ \A x \in Nodes : g.nodes[x].kind = "input" => OnlyToLast(g, x) \/ Listed(work, x)
    BY <1>1, <1>7 DEF EdgeInv, MergePhases
  <2>2. \A x : ~Listed(work, x)
    <3>1. work = <<>>
      BY DEF InputsMoved
    <3> QED
      BY <3>1 DEF Listed
  <2>3. \A x \in Nodes : g.nodes[x].kind \in {"layer", "const"} => Listed(work', x)
    BY <1>1, <1>2, WorkOf
  <2> QED
    BY <2>1, <2>2, <2>3, <1>1, StillFlowing DEF MergePhases, Nodes
<1> QED
  BY <1>6, <1>7
\* Node n has been removed, with its edges.
NodeGone(n) ==
    /\ n \in DOMAIN g.nodes /\ g.nodes[n].kind \notin {"input", "output", "npu"}
    /\ g'.nodes[n].kind = "removed" /\ DOMAIN g'.nodes = DOMAIN g.nodes
    /\ LiveOf(g') = {e \in LiveOf(g) : g.edges[e].from # n /\ g.edges[e].to # n}
    /\ \A f \in LiveOf(g) : /\ g'.edges[f].from = g.edges[f].from /\ g'.edges[f].to = g.edges[f].to
                            /\ g'.edges[f].in = g.edges[f].in
    /\ \A x \in DOMAIN g.nodes \ {n} : g'.nodes[x].kind = g.nodes[x].kind

LEMMA RemoveNodeKeeps ==
    ASSUME IInv, RemoveNode
    PROVE  IInv' /\ (EdgeInv => EdgeInv') /\ \E n : NodeGone(n)
<1> DEFINE m == Len(g.nodes)
           n == work[1]
<1>1. /\ phase = "removing" /\ work # <<>> /\ work' = Tail(work)
      /\ UNCHANGED <<phase, slot, stack, visited, order, built>>
  BY DEF RemoveNode
<1>2. Sound(g) /\ Shaped(g) /\ Merging /\ Loops /\ work \in Seq(Nat) /\ slot \in 0 .. Len(g.edges)
  BY <1>1 DEF IInv, MergePhases
<1>3. /\ work' \in Seq(Nat) /\ 1 \in DOMAIN work /\ Head(work) = n
      /\ \A i \in DOMAIN work' : i + 1 \in DOMAIN work /\ work'[i] = work[i + 1]
  BY <1>1, <1>2, TailIs
<1>4. OnlyKinds(g, work, {"layer", "const", "removed"})
  BY <1>1, <1>2 DEF Loops
<1>5. n \in DOMAIN g.nodes /\ g.nodes[n].kind \in {"layer", "const", "removed"}
  BY <1>3, <1>4 DEF OnlyKinds
<1>6. /\ m \in DOMAIN g.nodes /\ g.nodes[m].kind = "npu" /\ n # m
      /\ \A x \in DOMAIN g.nodes : g.nodes[x].kind = "npu" <=> x = m
  BY <1>2, <1>5 DEF Merging, NpuLast
<1>7. \A e \in LiveOf(g) : g.edges[e].to = n => g.edges[e].in \in DOMAIN g.nodes[n].ins
  BY <1>2, <1>5 DEF Shaped
<1>8. g' = WithoutNode(g, n)
  BY <1>3 DEF RemoveNode
<1> HIDE DEF m, n
<1>9. NodeRemoved(g, n, g') /\ Sound(g')
  BY <1>2, <1>5, <1>7, <1>8, RemoveSound
<1>10. Shaped(g')
  BY <1>2, <1>5, <1>9, RemovedShaped
<1>11. DOMAIN g'.nodes = DOMAIN g.nodes /\ Len(g'.nodes) = m /\ Len(g'.edges) = Len(g.edges)
  <2>1. Len(g'.nodes) = m /\ Len(g'.edges) = Len(g.edges)
    BY <1>9 DEF NodeRemoved, m
  <2> QED
    BY <2>1, <1>2, <1>9, NodeFacts DEF m
<1>12. /\ LiveOf(g') = {e \in LiveOf(g) : g.edges[e].from # n /\ g.edges[e].to # n}
       /\ \A e \in DOMAIN g.edges : g'.edges[e].from = g.edges[e].from
                                    /\ g'.edges[e].tensor = g.edges[e].tensor
       /\ g'.nodes[n].kind = "removed"
       /\ \A x \in DOMAIN g.nodes \ {n} :
            /\ g'.nodes[x].kind = g.nodes[x].kind
            /\ \A i \in DOMAIN g.nodes[x].ins :
                 g.nodes[x].ins[i] \in LiveOf(g') => g'.nodes[x].ins[i] = g.nodes[x].ins[i]
  <2>1. LiveOf(g) \subseteq DOMAIN g.edges
    BY DEF LiveOf
  <2>2. /\ LiveOf(g') = {e \in LiveOf(g) : g.edges[e].from # n /\ g.edges[e].to # n}
        /\ g'.nodes[n] = [kind |-> "removed", ins |-> <<>>, outs |-> {}, tensors |-> <<>>]
        /\ \A e \in DOMAIN g.edges : SameEdge(g, g', e)
    BY <1>9 DEF NodeRemoved
  <2>3. \A x \in DOMAIN g.nodes \ {n} :
          /\ g'.nodes[x].kind = g.nodes[x].kind
          /\ \A i \in DOMAIN g.nodes[x].ins :
               g.nodes[x].ins[i] \in LiveOf(g') => g'.nodes[x].ins[i] = g.nodes[x].ins[i]
    BY <1>9 DEF NodeRemoved
  <2> QED
    BY <2>1, <2>2, <2>3 DEF SameEdge
<1>13. NpuLast(g')
  BY <1>6, <1>11, <1>12 DEF NpuLast
<1>14. ASSUME NEW x \in DOMAIN g.nodes, g'.nodes[x].kind = "output"
       PROVE  ReadsAsBuilt(g, x)' /\ ReadsNpu(g, x)'
  <2>1. x # n /\ g.nodes[x].kind = "output"
    BY <1>14, <1>12
  <2>2. ReadsAsBuilt(g, x) /\ ReadsNpu(g, x) /\ 1 \in DOMAIN g.nodes[x].ins
    BY <2>1, <1>1, <1>2, NodeFacts DEF Merging, Nodes, Shaped
  <2> DEFINE e == g.nodes[x].ins[1]
  <2>3. e \in LiveOf(g) /\ g.edges[e].to = x /\ g.edges[e].from = m
    BY <2>2, <1>2 DEF ReadsAsBuilt, ReadsNpu, Sound, NodeSound, m
  <2>4. e \in LiveOf(g') /\ e \in DOMAIN g.edges
    BY <2>1, <2>3, <1>6, <1>12 DEF LiveOf
  <2>5. g'.nodes[x].ins[1] = e
    BY <2>1, <2>2, <2>4, <1>12
  <2>6. e # 0 /\ TensorRead(g, x) = TensorRead(built, x)
    BY <2>2 DEF ReadsAsBuilt
  <2> QED
    BY <2>3, <2>4, <2>5, <2>6, <1>1, <1>11, <1>12 DEF ReadsAsBuilt, ReadsNpu, TensorRead
<1>15. Merging'
  BY <1>11, <1>13, <1>14 DEF Merging, Nodes
<1>16. Loops'
  <2>1. OnlyKinds(g', work', {"layer", "const", "removed"})
    <3> SUFFICES ASSUME NEW i \in DOMAIN work'
                 PROVE  /\ work'[i] \in DOMAIN g'.nodes
                        /\ g'.nodes[work'[i]].kind \in {"layer", "const", "removed"}
      BY DEF OnlyKinds
    <3>1. i + 1 \in DOMAIN work /\ work'[i] = work[i + 1]
      BY <1>3
    <3>2. /\ work'[i] \in DOMAIN g.nodes
          /\ g.nodes[work'[i]].kind \in {"layer", "const", "removed"}
      BY <3>1, <1>4 DEF OnlyKinds
    <3>3. CASE work'[i] = n
      BY <3>2, <3>3, <1>11, <1>12
    <3>4. CASE work'[i] # n
      BY <3>2, <3>4, <1>11, <1>12
    <3> QED
      BY <3>3, <3>4
  <2> QED
    BY <2>1, <1>1 DEF Loops
<1>17. IInv'
  BY <1>1, <1>2, <1>3, <1>9, <1>10, <1>11, <1>15, <1>16, StillMerging DEF MergePhases
<1>18. ASSUME EdgeInv
       PROVE  EdgeInv'
  <2>1. /\ Flow(g) /\ InputReads(g) # {}
        /\ \A x \in DOMAIN g.nodes : /\ g.nodes[x].kind = "input" => OnlyToLast(g, x)
                                     /\ g.nodes[x].kind \in {"layer", "const"} => Listed(work, x)
    BY <1>1, <1>18 DEF EdgeInv, MergePhases, Nodes
  <2>2. \A e \in LiveOf(g) : /\ g.edges[e].from \in DOMAIN g.nodes /\ g.edges[e].to \in DOMAIN g.nodes
                             /\ g'.edges[e].from = g.edges[e].from /\ g'.edges[e].to = g.edges[e].to
    BY <1>2, <1>9, EdgeEnds DEF NodeRemoved, SameEdge
  <2>3. Flow(g')
    <3> SUFFICES ASSUME NEW e \in LiveOf(g')
                 PROVE  /\ g'.nodes[g'.edges[e].from].kind \in {"input", "const", "layer", "npu"}
                        /\ \/ g'.nodes[g'.edges[e].to].kind # "npu"
                           \/ g'.nodes[g'.edges[e].from].kind = "input"
      BY DEF Flow
    <3>1. /\ e \in LiveOf(g) /\ g.edges[e].from # n /\ g.edges[e].to # n
      BY <1>12
    <3>2. /\ g.nodes[g.edges[e].from].kind \in {"input", "const", "layer", "npu"}
          /\ g.nodes[g.edges[e].to].kind # "npu" \/ g.nodes[g.edges[e].from].kind = "input"
      BY <2>1, <3>1 DEF Flow
    <3>3. /\ g'.nodes[g'.edges[e].from].kind = g.nodes[g.edges[e].from].kind
          /\ g'.nodes[g'.edges[e].to].kind = g.nodes[g.edges[e].to].kind
      <4>1. g'.edges[e].from = g.edges[e].from /\ g'.edges[e].to = g.edges[e].to
        BY <2>2, <3>1
      <4>2. g.edges[e].from \in DOMAIN g.nodes /\ g.edges[e].to \in DOMAIN g.nodes
        BY <2>2, <3>1
      <4> QED
        BY <4>1, <4>2, <3>1, <1>12
    <3> QED
      BY <3>2, <3>3
  <2>4. InputReads(g') # {}
    <3>1. PICK e \in LiveOf(g) : /\ g.nodes[g.edges[e].from].kind = "input"
                                 /\ g.nodes[g.edges[e].to].kind # "output"
      BY <2>1 DEF InputReads
    <3>2. g.edges[e].to = m
      BY <2>1, <2>2, <3>1 DEF OnlyToLast, m
    <3>3. g.edges[e].from # n /\ g.edges[e].to # n
      BY <3>1, <3>2, <1>5, <1>6
    <3>4. e \in InputReads(g')
      BY <2>2, <3>1, <3>3, <1>12 DEF InputReads
    <3> QED
      BY <3>4
  <2>5. ASSUME NEW x \in DOMAIN g'.nodes, g'.nodes[x].kind = "input"
        PROVE  OnlyToLast(g', x)
    <3>1. g.nodes[x].kind = "input" /\ OnlyToLast(g, x)
      BY <2>1, <2>5, <1>11, <1>12
    <3> QED
      BY <2>2, <3>1, <1>11, <1>12 DEF OnlyToLast, m
  <2>6. ASSUME NEW x \in DOMAIN g'.nodes, g'.nodes[x].kind \in {"layer", "const"}
        PROVE  Listed(work', x)
    <3>1. Listed(work, x) /\ x # n
      BY <2>1, <2>6, <1>11, <1>12
    <3>2. \A i \in DOMAIN work \ {1} : i - 1 \in DOMAIN work' /\ work'[i - 1] = work[i]
      BY <1>1, <1>2, TailIs
    <3> QED
      BY <3>1, <3>2 DEF Listed, n
  <2> QED
    BY <2>3, <2>4, <2>5, <2>6, <1>1, StillFlowing DEF MergePhases, Nodes
<1>19. NodeGone(n)
  <2>1. \A f \in LiveOf(g) : SameEdge(g, g', f)
    BY <1>9 DEF NodeRemoved, LiveOf
  <2> QED
    BY <2>1, <1>5, <1>11, <1>12 DEF NodeGone, SameEdge
<1> QED
  BY <1>17, <1>18, <1>19

--------------------------------------------------------------------------------
(* The sort keeps the invariant. *)

LEMMA JoinIs ==
    ASSUME NEW S, NEW a \in Seq(S), NEW b \in Seq(S)
    PROVE  /\ a \o b \in Seq(S)
           /\ \A i \in DOMAIN (a \o b) : \/ i \in DOMAIN a /\ (a \o b)[i] = a[i]
                                         \/ i - Len(a) \in DOMAIN b /\ (a \o b)[i] = b[i - Len(a)]
<1>1. /\ a \o b \in Seq(S) /\ Len(a) \in Nat /\ Len(b) \in Nat
      /\ DOMAIN a = 1 .. Len(a) /\ DOMAIN b = 1 .. Len(b)
      /\ DOMAIN (a \o b) = 1 .. Len(a) + Len(b)
      /\ \A i \in 1 .. Len(a) + Len(b) :
           (a \o b)[i] = IF i <= Len(a) THEN a[i] ELSE b[i - Len(a)]
  OBVIOUS
<1>2. ASSUME NEW i \in DOMAIN (a \o b)
      PROVE  \/ i \in DOMAIN a /\ (a \o b)[i] = a[i]
             \/ i - Len(a) \in DOMAIN b /\ (a \o b)[i] = b[i - Len(a)]
  <2>1. CASE i <= Len(a)
    BY <2>1, <1>1
  <2>2. CASE ~(i <= Len(a))
    <3>1. i - Len(a) \in DOMAIN b
      BY <2>2, <1>1
    <3> QED
      BY <3>1, <2>2, <1>1
  <2> QED
    BY <2>1, <2>2
<1> QED
  BY <1>1, <1>2

LEMMA RemainingJoin ==
    ASSUME NEW h, NEW a, NEW b, Remaining(h, a), Remaining(h, b)
    PROVE  Remaining(h, a \o b)
<1>1. a \in Seq(DOMAIN h.nodes) /\ b \in Seq(DOMAIN h.nodes)
  BY DEF Remaining
<1>2. /\ a \o b \in Seq(DOMAIN h.nodes)
      /\ \A i \in DOMAIN (a \o b) : \/ i \in DOMAIN a /\ (a \o b)[i] = a[i]
                                    \/ i - Len(a) \in DOMAIN b /\ (a \o b)[i] = b[i - Len(a)]
  BY <1>1, JoinIs
<1> QED
  BY <1>2 DEF Remaining

LEMMA RemainingOf ==
    ASSUME Sound(g), NEW S, \A n \in S : n \in Nodes /\ g.nodes[n].kind # "removed"
    PROVE  Remaining(g, Ascending(S))
<1>1. DOMAIN g.nodes = 1 .. Len(g.nodes) /\ Len(g.nodes) \in Nat
  BY NodeFacts
<1>2. S \in SUBSET (1 .. Len(g.nodes))
  BY <1>1 DEF Nodes
<1>3. /\ Ascending(S) \in Seq(S) /\ DOMAIN Ascending(S) = 1 .. Cardinality(S)
      /\ Len(Ascending(S)) = Cardinality(S) /\ Cardinality(S) \in Nat
      /\ \A i \in DOMAIN Ascending(S) : Ascending(S)[i] \in S
  BY <1>1, <1>2, AscendingOver
<1> DEFINE a == Ascending(S)
           k == Cardinality(S)
<1> HIDE DEF a, k
<1>4. a = [i \in 1 .. k |-> a[i]] /\ k \in Nat
  BY <1>3 DEF a, k
<1>5. \A i \in 1 .. k : a[i] \in DOMAIN g.nodes
  BY <1>3 DEF a, k, Nodes
<1>6. a \in Seq(DOMAIN g.nodes)
  BY <1>4, <1>5, ListOf
<1> QED
  BY <1>3, <1>6 DEF Remaining, a

LEMMA StartSortKeeps ==
    ASSUME IInv, StartSort
    PROVE  IInv' /\ (EdgeInv => EdgeInv')
<1>1. /\ \/ phase = "removing" /\ work = <<>> /\ UNCHANGED built
         \/ phase = "building" /\ work = <<>> /\ built' = g
      /\ visited' = ToSet(stack') /\ order' = <<>> /\ phase' = "sorting"
      /\ UNCHANGED <<g, work, slot>>
  BY DEF StartSort, Constructed, Building
<1>2. Sound(g) /\ Shaped(g) /\ work \in Seq(Nat) /\ slot \in 0 .. Len(g.edges)
  BY DEF IInv
<1>3. PICK receivers \in SUBSET OfKind({"input"}) : stack' = Sources(receivers)
  BY DEF StartSort
<1>4. Remaining(g, stack')
  <2>1. Remaining(g, Ascending(OfKind({"input"}) \ receivers))
    BY <1>2, RemainingOf DEF OfKind
  <2>2. Remaining(g, Ascending(receivers))
    BY <1>2, <1>3, RemainingOf DEF OfKind
  <2>3. Remaining(g, Ascending(OfKind({"const"})))
    BY <1>2, RemainingOf DEF OfKind
  <2>4. Remaining(g, Ascending(OfKind({"input"}) \ receivers) \o Ascending(receivers))
    BY <2>1, <2>2, RemainingJoin
  <2>5. Remaining(g, (Ascending(OfKind({"input"}) \ receivers) \o Ascending(receivers))
                       \o Ascending(OfKind({"const"})))
    BY <2>3, <2>4, RemainingJoin
  <2> QED
    BY <2>5, <1>3 DEF Sources
<1>5. visited' \subseteq Nodes'
  <2>1. \A i \in DOMAIN stack' : stack'[i] \in DOMAIN g.nodes
    BY <1>4 DEF Remaining
  <2> QED
    BY <2>1, <1>1 DEF ToSet, Nodes
<1>6. Remaining(g', order')
  BY <1>1 DEF Remaining
<1>7. Merged' => Merging'
  <2>1. CASE phase = "removing"
    BY <2>1, <1>1, StillRead DEF IInv, MergePhases
  <2>2. CASE phase = "building"
    <3>1. Unconnected(g, work)
      BY <2>2 DEF IInv
    <3> QED
      BY <3>1, <1>1 DEF Merged, OfKind, Nodes, Unconnected
  <2> QED
    BY <2>1, <2>2, <1>1
<1>8. IInv'
  BY <1>1, <1>2, <1>4, <1>5, <1>6, <1>7 DEF IInv, MergePhases
<1>9. ASSUME EdgeInv
      PROVE  EdgeInv'
  <2>1. Flow(g') /\ g' = g /\ phase' = "sorting"
    BY <1>1, <1>9 DEF EdgeInv
  <2>2. CASE phase = "removing"
    <3>1. InputReads(g) # {} /\ \A x : ~Listed(work, x)
      BY <2>2, <1>1, <1>9 DEF EdgeInv, MergePhases, Listed
    <3>2. \A x \in Nodes : /\ g.nodes[x].kind = "input" => OnlyToLast(g, x)
                           /\ g.nodes[x].kind \notin {"layer", "const"}
      BY <2>2, <3>1, <1>9 DEF EdgeInv
    <3>3. Merged'
      BY <2>1, <2>2 DEF IInv, MergePhases, Merging, NpuLast, Merged, OfKind, Nodes
    <3> QED
      BY <2>1, <3>1, <3>2, <3>3 DEF EdgeInv, MergePhases, Nodes
  <2>3. CASE phase = "building"
    <3>1. Unconnected(g, <<>>) /\ Forward(g, <<>>)
      BY <2>3, <1>1, <1>9 DEF EdgeInv, IInv
    <3>2. ~Merged'
      BY <2>1, <3>1 DEF Unconnected, Merged, OfKind, Nodes
    <3> QED
      BY <2>1, <3>1, <3>2 DEF EdgeInv, MergePhases
  <2> QED
    BY <2>2, <2>3, <1>1
<1> QED
  BY <1>8, <1>9

\* The edges of a node in the order in which they make nodes ready.
LEMMA ReversedEdges ==
    ASSUME NEW h, Sound(h), NEW ready \in SUBSET LiveOf(h)
    PROVE  LET edges == Reverse(Ascending(ready)) IN
           /\ DOMAIN edges = 1 .. Cardinality(ready) /\ Cardinality(ready) \in Nat
           /\ \A i \in DOMAIN edges : edges[i] \in ready
           /\ \A e \in ready : \E i \in DOMAIN edges : edges[i] = e
           /\ \A i, j \in DOMAIN edges : edges[i] = edges[j] => i = j
<1> DEFINE a == Ascending(ready)
           edges == Reverse(a)
           k == Cardinality(ready)
<1>1. h \in GraphRecs
  BY DEF Sound
<1>2. Len(h.edges) \in Nat /\ ready \in SUBSET (1 .. Len(h.edges))
  BY <1>1, GraphFacts DEF LiveOf
<1>3. /\ k \in Nat /\ DOMAIN a = 1 .. k /\ Len(a) = k
      /\ \A i \in DOMAIN a : a[i] \in ready
      /\ \A e \in ready : \E i \in DOMAIN a : a[i] = e
      /\ \A i, j \in DOMAIN a : a[i] = a[j] => i = j
  <2>1. \A i, j \in DOMAIN a : a[i] = a[j] => i = j
    BY <1>2, AscendingOnce
  <2> QED
    BY <2>1, <1>2, AscendingOver DEF Listed
<1>4. edges = [i \in 1 .. Len(a) |-> a[Len(a) - i + 1]]
  BY DEF Reverse
<1> HIDE DEF a, edges, k
<1>5. DOMAIN edges = 1 .. k
  BY <1>3, <1>4
<1>6. ASSUME NEW i \in 1 .. k
      PROVE  edges[i] \in ready
  <2>1. k - i + 1 \in 1 .. k
    BY <1>3
  <2> QED
    BY <2>1, <1>3, <1>4
<1>7. ASSUME NEW e \in ready
      PROVE  \E i \in 1 .. k : edges[i] = e
  <2>1. PICK j \in 1 .. k : a[j] = e
    BY <1>3
  <2> DEFINE i == k - j + 1
  <2>2. i \in 1 .. k /\ k - i + 1 = j
    BY <1>3
  <2> HIDE DEF i
  <2>3. edges[i] = e
    BY <2>1, <2>2, <1>3, <1>4
  <2> QED
    BY <2>2, <2>3
<1>8. ASSUME NEW i \in 1 .. k, NEW j \in 1 .. k, edges[i] = edges[j]
      PROVE  i = j
  <2>1. /\ k - i + 1 \in 1 .. k /\ k - j + 1 \in 1 .. k
        /\ a[k - i + 1] = a[k - j + 1]
    BY <1>3, <1>4, <1>8
  <2>2. k - i + 1 = k - j + 1
    BY <2>1, <1>3
  <2> QED
    BY <2>2, <1>3
<1> QED
  BY <1>3, <1>5, <1>6, <1>7, <1>8 DEF edges, a, k

\* What a visit leaves on the stack: what was below the node, then what became ready.
Ready(n) ==
    {e \in g.nodes[n].outs : g.edges[e].to \notin visited \cup {n}
                             /\ InputsVisited(g.edges[e].to, visited \cup {n})}

LEMMA VisitIs ==
    ASSUME Sound(g), stack \in Seq(Nodes), VisitNode
    PROVE  \E n, below, above :
             /\ n \in Nodes /\ below \in Seq(Nodes) /\ above \in Seq(Nodes)
             /\ stack = Append(below, n) /\ stack' = below \o above
             /\ visited' = visited \cup {n} /\ order' = Append(order, n)
             /\ \A i \in DOMAIN above : \E e \in Ready(n) : above[i] = g.edges[e].to
             /\ \A e \in Ready(n) : \E i \in DOMAIN above : above[i] = g.edges[e].to
             /\ DOMAIN above = 1 .. Cardinality(Ready(n))
             /\ Ready(n) \subseteq LiveOf(g)
             /\ (\A e, f \in Ready(n) : g.edges[e].to = g.edges[f].to => e = f)
                  => \A i, j \in DOMAIN above : above[i] = above[j] => i = j
<1> DEFINE n == Last(stack)
           below == Front(stack)
           ready == Ready(n)
           edges == Reverse(Ascending(ready))
           above == [i \in DOMAIN edges |-> g.edges[edges[i]].to]
<1>1. stack # <<>> /\ stack' = below \o above
  BY DEF VisitNode, Ready
<1>2. visited' = visited \cup {n} /\ order' = Append(order, n)
  BY DEF VisitNode
<1>3. /\ n \in Nodes /\ below \in Seq(Nodes) /\ stack = Append(below, n)
  <2>1. n = stack[Len(stack)] /\ below = SubSeq(stack, 1, Len(stack) - 1)
    BY DEF Last, Front
  <2>2. Len(stack) \in Nat \ {0}
    BY <1>1
  <2> HIDE DEF n, below
  <2>3. n \in Nodes /\ below \in Seq(Nodes)
    BY <2>1, <2>2
  <2>4. /\ Len(below) = Len(stack) - 1
        /\ \A i \in 1 .. Len(stack) - 1 : below[i] = stack[i]
    <3> DEFINE k == Len(stack) - 1
    <3>1. k \in Nat /\ k <= Len(stack) /\ below = SubSeq(stack, 1, k)
      BY <2>1, <2>2
    <3> HIDE DEF k
    <3>2. Len(below) = k /\ \A i \in 1 .. k : below[i] = stack[i]
      BY <3>1
    <3> QED
      BY <3>2 DEF k
  <2>5. Append(below, n) \in Seq(Nodes) /\ Len(Append(below, n)) = Len(stack)
    BY <2>2, <2>3, <2>4
  <2>6. \A i \in 1 .. Len(stack) : Append(below, n)[i] = stack[i]
    BY <2>1, <2>2, <2>3, <2>4
  <2>7. Append(below, n) = stack
    BY <2>5, <2>6
  <2> QED
    BY <2>3, <2>7
<1>4. ready \subseteq LiveOf(g)
  BY <1>3 DEF Ready, Sound, NodeSound, Nodes
<1>5. \A e \in LiveOf(g) : g.edges[e].to \in Nodes
  BY DEF Sound, EdgeSound, Nodes
<1> HIDE DEF n, below, ready
<1>6. /\ DOMAIN edges = 1 .. Cardinality(ready) /\ Cardinality(ready) \in Nat
      /\ \A i \in DOMAIN edges : edges[i] \in ready
      /\ \A e \in ready : \E i \in DOMAIN edges : edges[i] = e
      /\ \A i, j \in DOMAIN edges : edges[i] = edges[j] => i = j
  BY <1>4, ReversedEdges
<1> HIDE DEF edges
<1>7. above \in Seq(Nodes) /\ DOMAIN above = 1 .. Cardinality(ready)
  <2>1. above \in [1 .. Cardinality(ready) -> Nodes]
    BY <1>4, <1>5, <1>6
  <2> QED
    BY <2>1, <1>6
<1>8. \A i \in DOMAIN above : above[i] = g.edges[edges[i]].to
  BY <1>6
<1> HIDE DEF above
<1>9. \A i \in DOMAIN above : \E e \in ready : above[i] = g.edges[e].to
  BY <1>6, <1>7, <1>8
<1>10. \A e \in ready : \E i \in DOMAIN above : above[i] = g.edges[e].to
  BY <1>6, <1>7, <1>8
<1>11. (\A e, f \in ready : g.edges[e].to = g.edges[f].to => e = f)
          => \A i, j \in DOMAIN above : above[i] = above[j] => i = j
  BY <1>6, <1>7, <1>8
<1> QED
  BY <1>1, <1>2, <1>3, <1>4, <1>7, <1>9, <1>10, <1>11 DEF ready

LEMMA VisitNodeKeeps ==
    ASSUME IInv, VisitNode
    PROVE  IInv' /\ (EdgeInv => EdgeInv')
<1>1. phase = "sorting" /\ UNCHANGED <<g, phase, work, slot, built>>
  BY DEF VisitNode
<1>2. /\ Sound(g) /\ Shaped(g) /\ (Merged => Merging) /\ visited \subseteq Nodes
      /\ Remaining(g, stack) /\ Remaining(g, order)
      /\ work \in Seq(Nat) /\ slot \in 0 .. Len(g.edges)
  BY <1>1 DEF IInv
<1>3. stack \in Seq(Nodes)
  BY <1>2 DEF Remaining, Nodes
<1>4. PICK n, below, above :
        /\ n \in Nodes /\ below \in Seq(Nodes) /\ above \in Seq(Nodes)
        /\ stack = Append(below, n) /\ stack' = below \o above
        /\ visited' = visited \cup {n} /\ order' = Append(order, n)
        /\ \A i \in DOMAIN above : \E e \in Ready(n) : above[i] = g.edges[e].to
        /\ \A e \in Ready(n) : \E i \in DOMAIN above : above[i] = g.edges[e].to
        /\ DOMAIN above = 1 .. Cardinality(Ready(n))
        /\ Ready(n) \subseteq LiveOf(g)
  BY <1>2, <1>3, VisitIs
<1>5. /\ Len(below) \in Nat /\ DOMAIN stack = 1 .. Len(below) + 1
      /\ DOMAIN below = 1 .. Len(below)
      /\ \A i \in 1 .. Len(below) : stack[i] = below[i]
      /\ stack[Len(below) + 1] = n
  BY <1>4
<1>6. g.nodes[n].kind # "removed"
  BY <1>2, <1>5 DEF Remaining
<1>7. Remaining(g, below)
  BY <1>2, <1>4, <1>5 DEF Remaining, Nodes
<1>8. Remaining(g, above)
  <2>1. \A e \in LiveOf(g) : g.nodes[g.edges[e].to].kind # "removed"
    BY <1>2 DEF Shaped
  <2> QED
    BY <2>1, <1>4 DEF Remaining, Nodes
<1>9. Remaining(g, stack')
  BY <1>4, <1>7, <1>8, RemainingJoin
<1>10. Remaining(g, order')
  <2>1. Remaining(g, <<n>>)
    <3>1. <<n>> \in Seq(Nodes) /\ DOMAIN <<n>> = {1} /\ <<n>>[1] = n
      BY <1>4
    <3> QED
      BY <3>1, <1>6 DEF Remaining, Nodes
  <2>2. order' = order \o <<n>>
    BY <1>2, <1>4 DEF Remaining
  <2> QED
    BY <2>1, <2>2, <1>2, RemainingJoin
<1>11. Merged' => Merging'
  <2>1. Merged' = Merged
    BY <1>1 DEF Merged, OfKind, Nodes
  <2> QED
    BY <2>1, <1>1, <1>2, StillRead
<1>12. IInv'
  BY <1>1, <1>2, <1>4, <1>9, <1>10, <1>11 DEF IInv, MergePhases, Nodes
<1>13. ASSUME EdgeInv
       PROVE  EdgeInv'
  <2>1. Sorting /\ Sorting' /\ Merged' = Merged
    BY <1>1 DEF Sorting, Merged, OfKind, Nodes
  <2> QED
    BY <2>1, <1>1, <1>13 DEF EdgeInv, Sorting, MergePhases, Nodes
<1> QED
  BY <1>12, <1>13
LEMMA FinishSortKeeps ==
    ASSUME IInv, FinishSort
    PROVE  IInv' /\ (EdgeInv => EdgeInv')
<1>1. /\ phase = "sorting" /\ phase' = "sorted" /\ order' = Sorted(order)
      /\ UNCHANGED <<g, work, slot, stack, visited, built>>
  BY DEF FinishSort
<1>2. /\ Sound(g) /\ Shaped(g) /\ (Merged => Merging) /\ visited \subseteq Nodes
      /\ Remaining(g, stack) /\ Remaining(g, order)
      /\ work \in Seq(Nat) /\ slot \in 0 .. Len(g.edges)
  BY <1>1 DEF IInv
<1>3. Remaining(g, order')
  <2>1. CASE ~Merged
    BY <2>1, <1>1, <1>2 DEF Sorted
  <2>2. CASE Merged
    <3> DEFINE S == {i \in DOMAIN order : \A k \in 1 .. i - 1 : order[k] # order[i]}
               first == Ascending(S)
               c == Cardinality(S)
    <3>1. order \in Seq(Nodes) /\ Len(order) \in Nat /\ DOMAIN order = 1 .. Len(order)
      BY <1>2 DEF Remaining, Nodes
    <3>2. S \in SUBSET (1 .. Len(order)) /\ S \subseteq DOMAIN order
      BY <3>1
    <3>3. order' = [i \in DOMAIN first |-> order[first[i]]]
      BY <2>2, <1>1 DEF Sorted
    <3> HIDE DEF S
    <3>4. c \in Nat /\ DOMAIN first = 1 .. c /\ \A i \in DOMAIN first : first[i] \in S
      BY <3>1, <3>2, AscendingOver
    <3> HIDE DEF first, c
    <3>5. \A i \in 1 .. c : order'[i] \in Nodes /\ g.nodes[order'[i]].kind # "removed"
      <4> SUFFICES ASSUME NEW i \in 1 .. c
                   PROVE  order'[i] \in Nodes /\ g.nodes[order'[i]].kind # "removed"
        OBVIOUS
      <4>1. first[i] \in DOMAIN order /\ order'[i] = order[first[i]]
        BY <3>2, <3>3, <3>4
      <4>2. \A j \in DOMAIN order : order[j] \in Nodes /\ g.nodes[order[j]].kind # "removed"
        BY <3>1, <1>2 DEF Remaining
      <4> QED
        BY <4>1, <4>2
    <3>6. order' \in Seq(Nodes) /\ DOMAIN order' = 1 .. c
      BY <3>3, <3>4, <3>5
    <3> QED
      BY <3>5, <3>6 DEF Remaining, Nodes
  <2> QED
    BY <2>1, <2>2
<1>4. Merged' => Merging'
  <2>1. Merged' = Merged
    BY <1>1 DEF Merged, OfKind, Nodes
  <2> QED
    BY <2>1, <1>1, <1>2, StillRead
<1>5. IInv'
  BY <1>1, <1>2, <1>3, <1>4 DEF IInv, MergePhases, Nodes
<1>6. ASSUME EdgeInv
      PROVE  EdgeInv'
  <2>1. Sorting /\ Sorting' /\ Merged' = Merged
    BY <1>1 DEF Sorting, Merged, OfKind, Nodes
  <2> QED
    BY <2>1, <1>1, <1>6 DEF EdgeInv, Sorting, MergePhases, Nodes
<1> QED
  BY <1>5, <1>6

--------------------------------------------------------------------------------
(* The sort: nothing is lost, nothing comes too early. *)

LEMMA ListedJoin ==
    ASSUME NEW S, NEW a \in Seq(S), NEW b \in Seq(S), NEW x
    PROVE  Listed(a \o b, x) <=> Listed(a, x) \/ Listed(b, x)
<1>1. /\ Len(a) \in Nat /\ Len(b) \in Nat /\ DOMAIN (a \o b) = 1 .. Len(a) + Len(b)
      /\ DOMAIN a = 1 .. Len(a) /\ DOMAIN b = 1 .. Len(b)
      /\ \A i \in DOMAIN a : (a \o b)[i] = a[i]
  OBVIOUS
<1>2. ASSUME NEW i \in DOMAIN b
      PROVE  i + Len(a) \in DOMAIN (a \o b) /\ (a \o b)[i + Len(a)] = b[i]
  <2>1. i + Len(a) \in 1 .. Len(a) + Len(b) /\ i + Len(a) > Len(a) /\ i + Len(a) - Len(a) = i
    BY <1>1
  <2> QED
    BY <2>1, <1>1
<1>3. \A i \in DOMAIN (a \o b) : \/ i \in DOMAIN a /\ (a \o b)[i] = a[i]
                                 \/ i - Len(a) \in DOMAIN b /\ (a \o b)[i] = b[i - Len(a)]
  BY JoinIs
<1>4. ASSUME NEW i \in DOMAIN a
      PROVE  i \in DOMAIN (a \o b)
  BY <1>1
<1> QED
  BY <1>1, <1>2, <1>3, <1>4 DEF Listed

LEMMA InjectiveJoin ==
    ASSUME NEW S, NEW a \in Seq(S), NEW b \in Seq(S),
           \A i, j \in DOMAIN a : a[i] = a[j] => i = j,
           \A i, j \in DOMAIN b : b[i] = b[j] => i = j,
           \A i \in DOMAIN b : ~Listed(a, b[i])
    PROVE  \A i, j \in DOMAIN (a \o b) : (a \o b)[i] = (a \o b)[j] => i = j
<1> DEFINE c == a \o b
           k == Len(a)
<1>1. \A i \in DOMAIN c : \/ i \in DOMAIN a /\ c[i] = a[i]
                          \/ i - k \in DOMAIN b /\ c[i] = b[i - k]
  BY JoinIs
<1>2. \A i \in DOMAIN c : i \in Nat /\ k \in Nat
  OBVIOUS
<1> HIDE DEF c, k
<1> SUFFICES ASSUME NEW i \in DOMAIN c, NEW j \in DOMAIN c, c[i] = c[j]
             PROVE  i = j
  BY DEF c
<1>3. CASE i \in DOMAIN a /\ c[i] = a[i] /\ j \in DOMAIN a /\ c[j] = a[j]
  BY <1>3
<1>4. CASE i - k \in DOMAIN b /\ c[i] = b[i - k] /\ j - k \in DOMAIN b /\ c[j] = b[j - k]
  <2>1. i - k = j - k
    BY <1>4
  <2> QED
    BY <2>1, <1>2
<1>5. CASE i \in DOMAIN a /\ c[i] = a[i] /\ j - k \in DOMAIN b /\ c[j] = b[j - k]
  BY <1>5 DEF Listed
<1>6. CASE i - k \in DOMAIN b /\ c[i] = b[i - k] /\ j \in DOMAIN a /\ c[j] = a[j]
  BY <1>6 DEF Listed
<1> QED
  BY <1>1, <1>3, <1>4, <1>5, <1>6

\* The sources are on the stack, each once; nothing else is.
LEMMA SourcesAre ==
    ASSUME Sound(g), NEW receivers \in SUBSET OfKind({"input"})
    PROVE  /\ \A n : Listed(Sources(receivers), n) <=> n \in Nodes /\ Source(n)
           /\ \A i, j \in DOMAIN Sources(receivers) :
                Sources(receivers)[i] = Sources(receivers)[j] => i = j
<1> DEFINE A == OfKind({"input"}) \ receivers
           B == receivers
           C == OfKind({"const"})
           a == Ascending(A)
           b == Ascending(B)
           c == Ascending(C)
           m == Len(g.nodes)
<1>1. Nodes = 1 .. m /\ m \in Nat
  BY NodeFacts DEF Nodes
<1>2. A \in SUBSET (1 .. m) /\ B \in SUBSET (1 .. m) /\ C \in SUBSET (1 .. m)
  BY <1>1 DEF OfKind
<1>3. /\ A \cap B = {} /\ A \cap C = {} /\ B \cap C = {}
      /\ \A n : n \in A \cup B \cup C <=> n \in Nodes /\ Source(n)
  BY DEF OfKind, Source
<1> HIDE DEF A, B, C, m
<1>4. ASSUME NEW S \in SUBSET (1 .. m)
      PROVE  /\ Ascending(S) \in Seq(Nat)
             /\ \A n : Listed(Ascending(S), n) <=> n \in S
             /\ \A i, j \in DOMAIN Ascending(S) : Ascending(S)[i] = Ascending(S)[j] => i = j
  <2>1. /\ Ascending(S) \in Seq(Nat) /\ \A x \in S : Listed(Ascending(S), x)
        /\ \A i \in DOMAIN Ascending(S) : Ascending(S)[i] \in S
    BY <1>1, AscendingOver
  <2>2. \A i, j \in DOMAIN Ascending(S) : Ascending(S)[i] = Ascending(S)[j] => i = j
    BY <1>1, AscendingOnce
  <2>3. \A n : Listed(Ascending(S), n) => n \in S
    BY <2>1 DEF Listed
  <2> QED
    BY <2>1, <2>2, <2>3
<1>5. /\ a \in Seq(Nat) /\ b \in Seq(Nat) /\ c \in Seq(Nat)
      /\ \A n : Listed(a, n) <=> n \in A
      /\ \A n : Listed(b, n) <=> n \in B
      /\ \A n : Listed(c, n) <=> n \in C
      /\ \A i, j \in DOMAIN a : a[i] = a[j] => i = j
      /\ \A i, j \in DOMAIN b : b[i] = b[j] => i = j
      /\ \A i, j \in DOMAIN c : c[i] = c[j] => i = j
  BY <1>2, <1>4
<1>6. Sources(receivers) = (a \o b) \o c
  BY DEF Sources, A, B, C
<1> HIDE DEF a, b, c
<1>7. \A i \in DOMAIN b : b[i] \in B
  BY <1>5 DEF Listed
<1>8. \A i \in DOMAIN c : c[i] \in C
  BY <1>5 DEF Listed
<1>9. /\ a \o b \in Seq(Nat) /\ \A n : Listed(a \o b, n) <=> n \in A \cup B
      /\ \A i, j \in DOMAIN (a \o b) : (a \o b)[i] = (a \o b)[j] => i = j
  <2>1. \A i \in DOMAIN b : ~Listed(a, b[i])
    BY <1>3, <1>5, <1>7
  <2>2. \A i, j \in DOMAIN (a \o b) : (a \o b)[i] = (a \o b)[j] => i = j
    BY <2>1, <1>5, InjectiveJoin
  <2>3. \A n : Listed(a \o b, n) <=> Listed(a, n) \/ Listed(b, n)
    BY <1>5, ListedJoin
  <2> QED
    BY <2>2, <2>3, <1>5
<1> DEFINE d == a \o b
<1> HIDE DEF d
<1>10. /\ \A n : Listed(d \o c, n) <=> n \in A \cup B \cup C
       /\ \A i, j \in DOMAIN (d \o c) : (d \o c)[i] = (d \o c)[j] => i = j
  <2>1. d \in Seq(Nat) /\ (\A n : Listed(d, n) <=> n \in A \cup B)
        /\ \A i, j \in DOMAIN d : d[i] = d[j] => i = j
    BY <1>9 DEF d
  <2>2. \A i \in DOMAIN c : ~Listed(d, c[i])
    BY <2>1, <1>3, <1>8
  <2>3. \A i, j \in DOMAIN (d \o c) : (d \o c)[i] = (d \o c)[j] => i = j
    BY <2>1, <2>2, <1>5, InjectiveJoin
  <2>4. \A n : Listed(d \o c, n) <=> Listed(d, n) \/ Listed(c, n)
    BY <2>1, <1>5, ListedJoin
  <2> QED
    BY <2>1, <2>3, <2>4, <1>5
<1> QED
  BY <1>3, <1>6, <1>10 DEF d

\* A source reads nothing.
LEMMA SourcesRead ==
    ASSUME Sound(g), Shaped(g)
    PROVE  /\ \A n \in Nodes : Source(n) => Before(n) = {}
           /\ \A n : Before(n) \subseteq Nodes
<1>1. \A e \in LiveOf(g) : g.edges[e].from \in Nodes /\ g.edges[e].to \in Nodes
  BY EdgeEnds DEF Nodes
<1>2. \A e \in LiveOf(g) : g.nodes[g.edges[e].to].kind \in {"layer", "output", "npu"}
  BY DEF Shaped
<1> QED
  BY <1>1, <1>2 DEF Source, Before

\* The stack dfs starts with holds the sources, each once.
LEMMA StartSortSorts ==
    ASSUME IInv, StartSort
    PROVE  SortInv'
<1>1. /\ visited' = ToSet(stack') /\ order' = <<>> /\ phase' = "sorting" /\ UNCHANGED g
  BY DEF StartSort
<1>2. Sound(g) /\ Shaped(g)
  BY DEF IInv
<1>3. PICK receivers \in SUBSET OfKind({"input"}) : stack' = Sources(receivers)
  BY DEF StartSort
<1>4. /\ \A n : Listed(stack', n) <=> n \in Nodes /\ Source(n)
      /\ \A i, j \in DOMAIN stack' : stack'[i] = stack'[j] => i = j
  BY <1>2, <1>3, SourcesAre
<1>5. \A n : n \in visited' <=> n \in Nodes /\ Source(n)
  BY <1>1, <1>4 DEF ToSet, Listed
<1>6. \A i \in DOMAIN stack' : stack'[i] \in Nodes /\ Source(stack'[i]) /\ Before(stack'[i]) = {}
  BY <1>2, <1>4, SourcesRead DEF Listed
<1>7. /\ Nodes' = Nodes /\ \A n : Source(n)' = Source(n) /\ Before(n)' = Before(n)
      /\ \A n : ~InOrder(n)'
  BY <1>1 DEF Nodes, Source, Before, InOrder
<1>8. NoneLost'
  BY <1>4, <1>5, <1>7 DEF NoneLost
<1>9. StackReady'
  BY <1>6, <1>7 DEF StackReady
<1>10. ReadsPrecede' /\ InOrderOnce'
  BY <1>1 DEF ReadsPrecede, InOrderOnce
<1>11. StackOnce'
  BY <1>4, <1>6, <1>7 DEF StackOnce
<1> QED
  BY <1>1, <1>8, <1>9, <1>10, <1>11 DEF SortInv

\* An input of node w from m, other than of the NPU node, is in w's list of inputs.
LEMMA InputFrom ==
    ASSUME Sound(g), Shaped(g), NEW f \in LiveOf(g), NEW seen,
           g.nodes[g.edges[f].to].kind # "npu", InputsVisited(g.edges[f].to, seen)
    PROVE  g.edges[f].from \in seen
<1> DEFINE w == g.edges[f].to
           i == g.edges[f].in
<1>1. i \in DOMAIN g.nodes[w].ins /\ g.nodes[w].ins[i] = f
  BY DEF Shaped, Sound, EdgeSound
<1>2. f # 0
  <2>1. f \in 1 .. Len(g.edges)
    BY EdgeEnds
  <2> QED
    BY <2>1
<1> QED
  BY <1>1, <1>2 DEF InputsVisited

\* The nodes on the stack when n, which was on top, has been visited.
Visits(n, below, above) ==
    /\ n \in Nodes /\ below \in Seq(Nodes) /\ above \in Seq(Nodes)
    /\ stack = Append(below, n) /\ stack' = below \o above
    /\ visited' = visited \cup {n} /\ order' = Append(order, n)
    /\ \A i \in DOMAIN above : \E e \in Ready(n) : above[i] = g.edges[e].to
    /\ \A e \in Ready(n) : \E i \in DOMAIN above : above[i] = g.edges[e].to
    /\ Ready(n) \subseteq LiveOf(g)
    /\ (\A e, f \in Ready(n) : g.edges[e].to = g.edges[f].to => e = f)
         => \A i, j \in DOMAIN above : above[i] = above[j] => i = j

\* What is on the stack and in the order after a visit.
LEMMA VisitLists ==
    ASSUME Remaining(g, order), NEW n, NEW below, NEW above, Visits(n, below, above), UNCHANGED g
    PROVE  /\ Len(below) \in Nat /\ DOMAIN stack = 1 .. Len(below) + 1
           /\ DOMAIN below = 1 .. Len(below)
           /\ \A i \in DOMAIN below : i \in DOMAIN stack /\ stack[i] = below[i]
           /\ stack[Len(below) + 1] = n /\ Len(below) + 1 \in DOMAIN stack
           /\ \A x : Listed(stack, x) <=> Listed(below, x) \/ x = n
           /\ \A x : Listed(stack', x) <=> Listed(below, x) \/ Listed(above, x)
           /\ \A x : InOrder(x)' <=> InOrder(x) \/ x = n
           /\ Len(order) \in Nat /\ DOMAIN order = 1 .. Len(order)
           /\ DOMAIN order' = 1 .. Len(order) + 1
           /\ \A p \in DOMAIN order : order'[p] = order[p]
           /\ order'[Len(order) + 1] = n
<1>1. /\ Len(below) \in Nat /\ DOMAIN stack = 1 .. Len(below) + 1
      /\ DOMAIN below = 1 .. Len(below)
      /\ \A i \in DOMAIN below : i \in DOMAIN stack /\ stack[i] = below[i]
      /\ stack[Len(below) + 1] = n /\ Len(below) + 1 \in DOMAIN stack
  BY DEF Visits
<1>2. order \in Seq(Nodes)
  BY DEF Remaining, Nodes
<1>3. /\ Len(order) \in Nat /\ DOMAIN order = 1 .. Len(order)
      /\ DOMAIN order' = 1 .. Len(order) + 1
      /\ \A p \in DOMAIN order : order'[p] = order[p]
      /\ order'[Len(order) + 1] = n
  BY <1>2 DEF Visits
<1>4. \A i \in 1 .. Len(below) + 1 : i \in 1 .. Len(below) \/ i = Len(below) + 1
  BY <1>1
<1>5. \A x : Listed(stack, x) <=> Listed(below, x) \/ x = n
  BY <1>1, <1>4 DEF Listed
<1>6. \A x : Listed(stack', x) <=> Listed(below, x) \/ Listed(above, x)
  <2>1. below \in Seq(Nodes) /\ above \in Seq(Nodes) /\ stack' = below \o above
    BY DEF Visits
  <2> QED
    BY <2>1, ListedJoin
<1>7. \A p \in 1 .. Len(order) + 1 : p \in 1 .. Len(order) \/ p = Len(order) + 1
  BY <1>3
<1>8. \A p \in 1 .. Len(order) : p \in 1 .. Len(order) + 1
  BY <1>3
<1>9. Len(order) + 1 \in 1 .. Len(order) + 1
  BY <1>3
<1>10. \A x : InOrder(x)' <=> InOrder(x) \/ x = n
  BY <1>3, <1>7, <1>8, <1>9 DEF InOrder
<1> QED
  BY <1>1, <1>3, <1>5, <1>6, <1>10

\* Every node above is made ready by n, and was not visited.
LEMMA VisitAbove ==
    ASSUME Sound(g), NEW n, NEW below, NEW above, Visits(n, below, above), NEW i \in DOMAIN above
    PROVE  /\ above[i] \in Nodes /\ above[i] \notin visited /\ above[i] # n /\ n \in Before(above[i])
           /\ InputsVisited(above[i], visited \cup {n})
<1>1. PICK e \in Ready(n) : above[i] = g.edges[e].to
  BY DEF Visits
<1>2. e \in LiveOf(g) /\ e \in g.nodes[n].outs /\ n \in DOMAIN g.nodes
  BY DEF Visits, Ready, Nodes
<1>3. g.edges[e].from = n
  BY <1>2 DEF Sound, NodeSound
<1>4. n \in Before(above[i])
  BY <1>1, <1>2, <1>3 DEF Before
<1>5. above[i] \in Nodes
  BY <1>1, <1>2, EdgeEnds DEF Nodes
<1> QED
  BY <1>1, <1>4, <1>5 DEF Ready

\* A node whose last input is n is put on the stack when n is visited, if it was not visited.
LEMMA VisitLosesNone ==
    ASSUME Sound(g), Shaped(g), Remaining(g, order), UNCHANGED g, NoneLost,
           NEW n, NEW below, NEW above, Visits(n, below, above)
    PROVE  NoneLost'
<1>1. /\ \A x : Listed(stack, x) <=> Listed(below, x) \/ x = n
      /\ \A x : Listed(stack', x) <=> Listed(below, x) \/ Listed(above, x)
      /\ \A x : InOrder(x)' <=> InOrder(x) \/ x = n
  BY VisitLists
<1>2. Nodes' = Nodes /\ \A x : Source(x)' = Source(x) /\ Before(x)' = Before(x)
  BY DEF Nodes, Source, Before
<1>3. visited' = visited \cup {n} /\ n \in Nodes
  BY DEF Visits
<1>4. \A x \in Nodes : x \in visited' <=> Source(x) \/ InOrder(x)'
  BY <1>1, <1>3 DEF NoneLost
<1>5. ASSUME NEW x \in Nodes, Before(x) # {}, \A m \in Before(x) : InOrder(m)'
      PROVE  InOrder(x)' \/ Listed(stack', x)
  <2>1. CASE \A m \in Before(x) : InOrder(m)
    <3>1. InOrder(x) \/ Listed(stack, x)
      BY <2>1, <1>5 DEF NoneLost
    <3> QED
      BY <3>1, <1>1
  <2>2. CASE n \in Before(x)
    <3>1. PICK e \in LiveOf(g) : g.edges[e].to = x /\ g.edges[e].from = n
      BY <2>2 DEF Before
    <3>2. e \in g.nodes[n].outs
      BY <3>1, <1>3 DEF Sound, NodeSound, Nodes
    <3>3. ~Source(x)
      BY <3>1 DEF Shaped, Source
    <3>4. CASE x \in visited'
      BY <3>3, <3>4, <1>4
    <3>5. CASE x \notin visited'
      <4>1. InputsVisited(x, visited')
        <5> SUFFICES ASSUME NEW i \in DOMAIN g.nodes[x].ins, g.nodes[x].ins[i] # 0
                     PROVE  g.edges[g.nodes[x].ins[i]].from \in visited'
          BY DEF InputsVisited
        <5> DEFINE f == g.nodes[x].ins[i]
        <5>1. f \in LiveOf(g) /\ g.edges[f].to = x
          BY DEF Sound, NodeSound, Nodes
        <5>2. g.edges[f].from \in Before(x) /\ g.edges[f].from \in Nodes
          BY <5>1, EdgeEnds DEF Before, Nodes
        <5> QED
          BY <5>2, <1>4, <1>5
      <4>2. e \in Ready(n)
        BY <3>1, <3>2, <3>5, <4>1, <1>3 DEF Ready
      <4>3. Listed(above, x)
        BY <3>1, <4>2 DEF Visits, Listed
      <4> QED
        BY <4>3, <1>1
    <3> QED
      BY <3>4, <3>5
  <2> QED
    BY <2>1, <2>2, <1>1, <1>5
<1>6. ASSUME NEW x \in Nodes, Source(x)
      PROVE  InOrder(x)' \/ Listed(stack', x)
  <2>1. InOrder(x) \/ Listed(stack, x)
    BY <1>6 DEF NoneLost
  <2> QED
    BY <2>1, <1>1
<1> QED
  BY <1>2, <1>4, <1>5, <1>6 DEF NoneLost

\* A node is put on the stack only when what it reads is in the order, and stays there until it
\* is visited itself.
LEMMA VisitInTurn ==
    ASSUME Sound(g), Shaped(g), Flow(g), Remaining(g, order), UNCHANGED g,
           NoneLost, StackReady, ReadsPrecede,
           NEW n, NEW below, NEW above, Visits(n, below, above)
    PROVE  StackReady' /\ ReadsPrecede'
<1> DEFINE k == Len(order)
<1>1. /\ \A i \in DOMAIN below : i \in DOMAIN stack /\ stack[i] = below[i]
      /\ stack[Len(below) + 1] = n /\ Len(below) + 1 \in DOMAIN stack
      /\ \A x : InOrder(x)' <=> InOrder(x) \/ x = n
      /\ k \in Nat /\ DOMAIN order = 1 .. k /\ DOMAIN order' = 1 .. k + 1
      /\ \A p \in DOMAIN order : order'[p] = order[p]
      /\ order'[k + 1] = n
  BY VisitLists
<1>2. \A x : Source(x)' = Source(x) /\ Before(x)' = Before(x)
  BY DEF Source, Before
<1>3. below \in Seq(Nodes) /\ above \in Seq(Nodes) /\ stack' = below \o above
  BY DEF Visits
<1> HIDE DEF k
<1>4. ASSUME NEW i \in DOMAIN above, NEW m \in Before(above[i])
      PROVE  Source(m) \/ InOrder(m)'
  <2>1. InputsVisited(above[i], visited \cup {n})
    BY VisitAbove
  <2>2. PICK f \in LiveOf(g) : g.edges[f].to = above[i] /\ g.edges[f].from = m
    BY DEF Before
  <2>3. m \in Nodes
    BY <2>2, EdgeEnds DEF Nodes
  <2>4. CASE g.nodes[above[i]].kind = "npu"
    BY <2>2, <2>4 DEF Flow, Source
  <2>5. CASE g.nodes[above[i]].kind # "npu"
    <3>1. m \in visited \cup {n}
      BY <2>1, <2>2, <2>5, InputFrom
    <3> QED
      BY <2>3, <3>1, <1>1 DEF NoneLost
  <2> QED
    BY <2>4, <2>5
<1>5. StackReady'
  <2> SUFFICES ASSUME NEW i \in DOMAIN stack', NEW m \in Before(stack'[i])
               PROVE  Source(m) \/ InOrder(m)'
    BY <1>2 DEF StackReady
  <2>1. \/ i \in DOMAIN below /\ stack'[i] = below[i]
        \/ i - Len(below) \in DOMAIN above /\ stack'[i] = above[i - Len(below)]
    BY <1>3, JoinIs
  <2>2. CASE i \in DOMAIN below /\ stack'[i] = below[i]
    BY <2>2, <1>1 DEF StackReady
  <2>3. CASE i - Len(below) \in DOMAIN above /\ stack'[i] = above[i - Len(below)]
    BY <2>3, <1>4
  <2> QED
    BY <2>1, <2>2, <2>3
<1>6. ReadsPrecede'
  <2> SUFFICES ASSUME NEW p \in 1 .. k + 1, NEW m \in Before(order'[p]), ~Source(m)
               PROVE  \E q \in 1 .. p - 1 : order'[q] = m
    BY <1>1, <1>2 DEF ReadsPrecede
  <2>1. CASE p = k + 1
    <3>1. m \in Before(stack[Len(below) + 1])
      BY <2>1, <1>1
    <3>2. InOrder(m)
      BY <3>1, <1>1 DEF StackReady
    <3>3. PICK q \in DOMAIN order : order[q] = m
      BY <3>2 DEF InOrder
    <3>4. q \in 1 .. p - 1
      BY <2>1, <1>1
    <3> QED
      BY <3>3, <3>4, <1>1
  <2>2. CASE p # k + 1
    <3>1. p \in DOMAIN order /\ order'[p] = order[p]
      BY <2>2, <1>1
    <3>2. PICK q \in 1 .. p - 1 : order[q] = m
      BY <3>1 DEF ReadsPrecede
    <3>3. q \in DOMAIN order
      BY <3>1, <1>1
    <3> QED
      BY <3>2, <3>3, <1>1
  <2> QED
    BY <2>1, <2>2
<1> QED
  BY <1>5, <1>6

\* In a graph that was not merged n makes a node ready over one edge only, and no other node
\* did before n: so the node was not on the stack.
LEMMA VisitOnce ==
    ASSUME Sound(g), Forward(g, <<>>), Remaining(g, order), UNCHANGED g,
           NoneLost, StackReady, InOrderOnce, StackOnce,
           NEW n, NEW below, NEW above, Visits(n, below, above)
    PROVE  InOrderOnce' /\ StackOnce'
<1> DEFINE k == Len(order)
           l == Len(below)
<1>1. /\ l \in Nat /\ DOMAIN below = 1 .. l
      /\ \A i \in DOMAIN below : i \in DOMAIN stack /\ stack[i] = below[i]
      /\ stack[l + 1] = n /\ l + 1 \in DOMAIN stack
      /\ \A x : InOrder(x)' <=> InOrder(x) \/ x = n
      /\ k \in Nat /\ DOMAIN order = 1 .. k /\ DOMAIN order' = 1 .. k + 1
      /\ \A p \in DOMAIN order : order'[p] = order[p]
      /\ order'[k + 1] = n
  BY VisitLists
<1>2. \A x : Source(x)' = Source(x) /\ Before(x)' = Before(x)
  BY DEF Source, Before
<1>3. below \in Seq(Nodes) /\ above \in Seq(Nodes) /\ stack' = below \o above /\ n \in Nodes
  BY DEF Visits
<1>4. ~InOrder(n)
  BY <1>1 DEF StackOnce
<1> HIDE DEF k
<1>5. InOrderOnce'
  <2>1. \A p \in 1 .. k : order[p] # n
    BY <1>1, <1>4 DEF InOrder
  <2>2. \A p \in 1 .. k + 1 : p \in 1 .. k \/ p = k + 1
    BY <1>1
  <2>3. \A p, q \in 1 .. k : order[p] = order[q] => p = q
    BY <1>1 DEF InOrderOnce
  <2> QED
    BY <2>1, <2>2, <2>3, <1>1 DEF InOrderOnce
<1>6. \A i \in DOMAIN above : /\ above[i] \in Nodes /\ above[i] \notin visited /\ above[i] # n
                              /\ n \in Before(above[i])
  BY VisitAbove
<1>7. \A i \in DOMAIN above : ~Source(above[i]) /\ ~InOrder(above[i])'
  BY <1>1, <1>6 DEF NoneLost
<1>8. \A i \in DOMAIN below : /\ ~InOrder(below[i])'
                              /\ Source(n) => Source(below[i])
  <2> SUFFICES ASSUME NEW i \in DOMAIN below
               PROVE  ~InOrder(below[i])' /\ (Source(n) => Source(below[i]))
    OBVIOUS
  <2>1. i \in DOMAIN stack /\ stack[i] = below[i] /\ i < l + 1
    BY <1>1
  <2>2. ~InOrder(below[i]) /\ below[i] # n
    BY <2>1, <1>1 DEF StackOnce
  <2>3. Source(n) => Source(below[i])
    BY <2>1, <1>1 DEF StackOnce
  <2> QED
    BY <2>2, <2>3, <1>1
<1>9. \A i \in DOMAIN above : ~Listed(below, above[i])
  <2> SUFFICES ASSUME NEW i \in DOMAIN above, NEW j \in DOMAIN below, below[j] = above[i]
               PROVE  FALSE
    BY DEF Listed
  <2>1. ~Source(n)
    BY <1>7, <1>8
  <2>2. j \in DOMAIN stack /\ n \in Before(stack[j])
    BY <1>1, <1>6
  <2> QED
    BY <2>1, <2>2, <1>4 DEF StackReady
<1>10. \A i, j \in DOMAIN above : above[i] = above[j] => i = j
  <2>1. \A e \in Ready(n) : e \in LiveOf(g) /\ g.edges[e].from = n
    <3>1. \A e \in Ready(n) : e \in g.nodes[n].outs /\ n \in DOMAIN g.nodes
      BY <1>3 DEF Ready, Nodes
    <3> QED
      BY <3>1 DEF Sound, NodeSound
  <2>2. \A e, f \in Ready(n) : g.edges[e].to = g.edges[f].to => e = f
    BY <2>1 DEF Forward
  <2> QED
    BY <2>2 DEF Visits
<1>11. \A i, j \in DOMAIN below : below[i] = below[j] => i = j
  BY <1>1 DEF StackOnce
<1>12. \A i, j \in DOMAIN stack' : stack'[i] = stack'[j] => i = j
  BY SMTT(20), <1>3, <1>9, <1>10, <1>11, InjectiveJoin
<1>13. \A i \in DOMAIN stack' : \/ i \in DOMAIN below /\ stack'[i] = below[i]
                                \/ i - l \in DOMAIN above /\ stack'[i] = above[i - l]
  BY <1>3, JoinIs
<1>14. (\A i \in DOMAIN stack : ~InOrder(stack[i]))'
  <2>1. /\ \A i \in DOMAIN above : \A p \in DOMAIN order' : order'[p] # above[i]
        /\ \A i \in DOMAIN below : \A p \in DOMAIN order' : order'[p] # below[i]
    BY <1>7, <1>8 DEF InOrder
  <2>2. \A i \in DOMAIN stack' : \A p \in DOMAIN order' : order'[p] # stack'[i]
    BY <2>1, <1>13
  <2> QED
    BY <2>2 DEF InOrder
<1>15. (\A i, j \in DOMAIN stack : i < j /\ Source(stack[j]) => Source(stack[i]))'
  <2>1. \A i \in DOMAIN above : g.nodes[above[i]].kind \notin {"input", "const"}
    BY <1>7 DEF Source
  <2>2. \A i, j \in DOMAIN below : i < j /\ g.nodes[below[j]].kind \in {"input", "const"}
                                    => g.nodes[below[i]].kind \in {"input", "const"}
    BY <1>1 DEF StackOnce, Source
  <2>3. \A i, j \in DOMAIN stack' : i < j /\ j \in DOMAIN below => i \in DOMAIN below
    BY <1>1, <1>3
  <2>4. \A i \in DOMAIN below : stack'[i] = below[i]
    BY <1>3
  <2>5. ASSUME NEW i \in DOMAIN stack', NEW j \in DOMAIN stack', i < j,
               g.nodes[stack'[j]].kind \in {"input", "const"}
        PROVE  g.nodes[stack'[i]].kind \in {"input", "const"}
    <3>1. j \in DOMAIN below /\ stack'[j] = below[j]
      BY <2>1, <2>5, <1>13
    <3>2. i \in DOMAIN below
      BY <2>3, <2>5, <3>1
    <3> QED
      BY <2>2, <2>4, <2>5, <3>1, <3>2
  <2> QED
    BY <2>5 DEF Source
<1> QED
  BY <1>5, <1>12, <1>14, <1>15 DEF StackOnce

\* A visit keeps what holds of the sort.
LEMMA VisitNodeSorts ==
    ASSUME IInv, EdgeInv, SortInv, VisitNode
    PROVE  SortInv'
<1>1. phase = "sorting" /\ UNCHANGED <<g, phase>>
  BY DEF VisitNode
<1>2. Sound(g) /\ Shaped(g) /\ Flow(g) /\ Remaining(g, order) /\ stack \in Seq(Nodes)
  BY DEF IInv, EdgeInv, Remaining, Nodes
<1>3. PICK n, below, above : Visits(n, below, above)
  BY <1>2, VisitIs DEF Visits
<1>4. NoneLost /\ StackReady /\ ReadsPrecede
  BY <1>1 DEF SortInv
<1>5. NoneLost'
  BY <1>1, <1>2, <1>3, <1>4, VisitLosesNone
<1>6. StackReady' /\ ReadsPrecede'
  BY <1>1, <1>2, <1>3, <1>4, VisitInTurn
<1>7. ASSUME ~Merged'
      PROVE  InOrderOnce' /\ StackOnce'
  <2>1. ~Merged
    BY <1>1, <1>7 DEF Merged, OfKind, Nodes
  <2>2. Forward(g, <<>>) /\ InOrderOnce /\ StackOnce
    BY <2>1, <1>1 DEF SortInv, EdgeInv, Sorting
  <2> QED
    BY <2>2, <1>1, <1>2, <1>3, <1>4, VisitOnce
<1> QED
  BY <1>1, <1>5, <1>6, <1>7 DEF SortInv

\* When the stack is empty, every node that is left is in the order: of a CPU's or a GPU's
\* graph by the first that was not, of an NPU's since that has two levels above its inputs.
LEMMA AllInOrder ==
    ASSUME IInv, EdgeInv, SortInv, phase = "sorting", stack = <<>>
    PROVE  \A n \in Nodes : g.nodes[n].kind # "removed" => InOrder(n)
<1>1. Sound(g) /\ Shaped(g) /\ Flow(g) /\ (Merged => Merging)
  BY DEF IInv, EdgeInv
<1>2. \A n : ~Listed(stack, n)
  BY DEF Listed
<1>3. \A n \in Nodes : Source(n) \/ (Before(n) # {} /\ \A m \in Before(n) : InOrder(m)) => InOrder(n)
  BY <1>2 DEF SortInv, NoneLost
<1>4. CASE ~Merged
  <2>1. Unconnected(g, <<>>) /\ Forward(g, <<>>)
    BY <1>4 DEF EdgeInv, Sorting
  <2> DEFINE Left == {n \in Nodes : ~InOrder(n)}
  <2> SUFFICES ASSUME Left # {}
               PROVE  FALSE
    OBVIOUS
  <2>2. Left \in SUBSET Nat
    BY <1>1, NodeFacts DEF Nodes
  <2>3. PICK n \in Left : \A x \in Left : n <= x
    BY <2>2, Least
  <2>4. n \in Nodes /\ ~InOrder(n) /\ ~Source(n) /\ n \in Nat
    BY <2>2, <2>3, <1>3
  <2>5. 1 \in DOMAIN g.nodes[n].ins /\ g.nodes[n].ins[1] # 0
    <3>1. g.nodes[n].kind \in {"layer", "output"}
      <4>1. g.nodes[n].kind \in Kinds
        BY <2>4, <1>1, GraphFacts DEF Sound, Nodes
      <4> QED
        BY <2>1, <2>4, <4>1 DEF Unconnected, Source, Nodes, Kinds
    <3>2. CASE g.nodes[n].kind = "layer"
      BY <2>1, <2>4, <3>2, <1>1, FirstConnected DEF Nodes
    <3>3. CASE g.nodes[n].kind = "output"
      <4>1. Len(g.nodes[n].ins) = 1
        BY <2>4, <3>3, <1>1 DEF Shaped, Nodes
      <4>2. 1 \in DOMAIN g.nodes[n].ins
        BY <2>4, <4>1, <1>1, NodeFacts DEF Nodes
      <4>3. ~(1 > Len(g.nodes[n].ins) - Len(<<>>))
        BY <4>1
      <4> QED
        BY <2>1, <2>4, <4>2, <4>3 DEF Unconnected, Nodes
    <3> QED
      BY <3>1, <3>2, <3>3
  <2>6. Before(n) # {}
    <3>1. /\ g.nodes[n].ins[1] \in LiveOf(g)
          /\ g.edges[g.nodes[n].ins[1]].to = n
      BY <2>4, <2>5, <1>1 DEF Sound, NodeSound, Nodes
    <3> QED
      BY <3>1 DEF Before
  <2>7. ASSUME NEW m \in Before(n)
        PROVE  InOrder(m)
    <3>1. PICK e \in LiveOf(g) : g.edges[e].to = n /\ g.edges[e].from = m
      BY DEF Before
    <3>2. m \in Nodes /\ m < n
      BY <2>1, <3>1, <1>1, EdgeEnds DEF Forward, Nodes
    <3>3. m \notin Left
      <4>1. m \in Left => n <= m /\ m \in Nat
        BY <2>2, <2>3
      <4> QED
        BY <2>4, <3>2, <4>1
    <3> QED
      BY <3>2, <3>3
  <2> QED
    BY <2>4, <2>6, <2>7, <1>3
<1>5. CASE Merged
  <2> DEFINE m == Len(g.nodes)
  <2>1. /\ InputReads(g) # {}
        /\ \A n \in Nodes : /\ g.nodes[n].kind = "input" => OnlyToLast(g, n)
                            /\ g.nodes[n].kind \notin {"layer", "const"}
    BY <1>5 DEF EdgeInv, Sorting
  <2>2. /\ m \in Nodes /\ \A n \in Nodes : g.nodes[n].kind = "npu" <=> n = m
        /\ \A n \in Nodes : g.nodes[n].kind = "output" => ReadsAsBuilt(g, n) /\ ReadsNpu(g, n)
    BY <1>1, <1>5 DEF Merging, NpuLast, Nodes
  <2>3. \A e \in LiveOf(g) : g.edges[e].from \in Nodes /\ g.edges[e].to \in Nodes
    BY <1>1, EdgeEnds DEF Nodes
  <2>4. Before(m) # {}
    <3>1. PICK e \in LiveOf(g) : g.nodes[g.edges[e].from].kind = "input"
      BY <2>1 DEF InputReads
    <3>2. g.edges[e].to = m
      BY <2>1, <2>3, <3>1 DEF OnlyToLast
    <3> QED
      BY <3>2 DEF Before
  <2>5. \A x \in Before(m) : InOrder(x)
    <3> SUFFICES ASSUME NEW e \in LiveOf(g), g.edges[e].to = m
                 PROVE  InOrder(g.edges[e].from)
      BY DEF Before
    <3>1. g.nodes[g.edges[e].from].kind = "input"
      BY <2>2, <1>1 DEF Flow
    <3> QED
      BY <2>3, <3>1, <1>3 DEF Source
  <2>6. InOrder(m)
    BY <2>2, <2>4, <2>5, <1>3
  <2>7. ASSUME NEW n \in Nodes, g.nodes[n].kind = "output"
        PROVE  InOrder(n)
    <3>1. 1 \in DOMAIN g.nodes[n].ins /\ Len(g.nodes[n].ins) = 1
      BY <2>7, <1>1, NodeFacts DEF Shaped, Nodes
    <3> DEFINE f == g.nodes[n].ins[1]
    <3>2. f \in LiveOf(g) /\ g.edges[f].to = n /\ g.edges[f].from = m
      BY <2>2, <2>7, <3>1, <1>1 DEF ReadsAsBuilt, ReadsNpu, Sound, NodeSound, Nodes
    <3>3. Before(n) # {}
      BY <3>2 DEF Before
    <3>4. \A x \in Before(n) : x = m
      <4> SUFFICES ASSUME NEW e \in LiveOf(g), g.edges[e].to = n
                   PROVE  g.edges[e].from = m
        BY DEF Before
      <4>1. g.edges[e].in \in DOMAIN g.nodes[n].ins /\ g.nodes[n].ins[g.edges[e].in] = e
        BY <2>7, <1>1 DEF Shaped, Sound, EdgeSound
      <4>2. DOMAIN g.nodes[n].ins = 1 .. 1
        BY <3>1, <1>1, NodeFacts DEF Nodes
      <4>3. g.edges[e].in = 1
        BY <4>1, <4>2
      <4> QED
        BY <3>2, <4>1, <4>3
    <3> QED
      BY <2>6, <3>3, <3>4, <1>3
  <2>8. \A n \in Nodes : g.nodes[n].kind \in Kinds
    BY <1>1, GraphFacts DEF Sound, Nodes
  <2> QED
    BY <2>1, <2>2, <2>6, <2>7, <2>8, <1>3 DEF Source, Kinds
<1> QED
  BY <1>4, <1>5

\* Without its repetitions a list has the same members, each once, and before each of them
\* what came before one of its places in the list.
LEMMA SortedIs ==
    ASSUME Merged, NEW R, NEW s \in Seq(R), NEW t, t = Sorted(s)
    PROVE  /\ \A p, q \in DOMAIN t : t[p] = t[q] => p = q
           /\ \A x : Listed(s, x) => Listed(t, x)
           /\ \A p \in DOMAIN t : \E i \in DOMAIN s :
                /\ t[p] = s[i]
                /\ \A j \in 1 .. i - 1 : \E q \in 1 .. p - 1 : t[q] = s[j]
<1> DEFINE S == {i \in DOMAIN s : \A k \in 1 .. i - 1 : s[k] # s[i]}
           first == Ascending(S)
           c == Cardinality(S)
<1>1. Len(s) \in Nat /\ DOMAIN s = 1 .. Len(s)
  OBVIOUS
<1>2. S \in SUBSET (1 .. Len(s)) /\ S \in SUBSET Nat /\ IsFiniteSet(S)
  <2>1. S \in SUBSET (1 .. Len(s)) /\ IsFiniteSet(1 .. Len(s))
    BY <1>1, FS_Interval
  <2> HIDE DEF S
  <2>2. IsFiniteSet(S)
    BY <2>1, FS_Subset
  <2>3. \A i \in 1 .. Len(s) : i \in Nat
    OBVIOUS
  <2> QED
    BY <2>1, <2>2, <2>3
<1>3. t = [p \in DOMAIN first |-> s[first[p]]]
  BY DEF Sorted
<1>4. ASSUME NEW j \in 1 .. Len(s)
      PROVE  \E i \in S : i <= j /\ s[i] = s[j]
  <2> DEFINE Same == {k \in 1 .. j : s[k] = s[j]}
  <2>1. Same \in SUBSET Nat /\ Same # {}
    <3>1. j \in Same
      OBVIOUS
    <3> QED
      BY <3>1
  <2>2. PICK i \in Same : \A k \in Same : i <= k
    <3> HIDE DEF Same
    <3> QED
      BY <2>1, Least
  <2>3. i \in 1 .. Len(s) /\ i <= j /\ s[i] = s[j]
    BY <2>2, <1>1
  <2>4. ASSUME NEW k \in 1 .. i - 1
        PROVE  s[k] # s[i]
    <3>1. k \in 1 .. j /\ ~(i <= k)
      BY <2>3
    <3> QED
      BY <3>1, <2>2, <2>3
  <2> QED
    BY <2>3, <2>4, <1>1
<1>5. \A i, k \in S : s[i] = s[k] => i = k
  <2> SUFFICES ASSUME NEW i \in S, NEW k \in S, s[i] = s[k], i < k
               PROVE  FALSE
    BY <1>2
  <2>1. i \in 1 .. k - 1
    BY <1>2
  <2> QED
    BY <2>1
<1> HIDE DEF S
<1>6. /\ c \in Nat /\ DOMAIN first = 1 .. c
      /\ \A p \in 1 .. c : first[p] \in S
      /\ \A p, q \in 1 .. c : p < q => first[p] < first[q]
      /\ \A i \in S : \E p \in 1 .. c : first[p] = i
  BY <1>2, AscendingIs
<1> HIDE DEF first, c
<1>7. DOMAIN t = 1 .. c /\ \A p \in 1 .. c : t[p] = s[first[p]]
  BY <1>3, <1>6
<1>8. \A p, q \in 1 .. c : first[p] = first[q] => p = q
  <2> SUFFICES ASSUME NEW p \in 1 .. c, NEW q \in 1 .. c, first[p] = first[q], p < q
               PROVE  FALSE
    BY <1>6
  <2>1. first[p] < first[q] /\ first[p] \in Nat
    BY <1>2, <1>6
  <2> QED
    BY <2>1
<1>9. \A p, q \in 1 .. c : t[p] = t[q] => p = q
  BY <1>5, <1>6, <1>7, <1>8
<1>10. \A x : Listed(s, x) => Listed(t, x)
  <2> SUFFICES ASSUME NEW j \in 1 .. Len(s)
               PROVE  \E p \in 1 .. c : t[p] = s[j]
    BY <1>1, <1>7 DEF Listed
  <2>1. PICK i \in S : s[i] = s[j]
    BY <1>4
  <2> QED
    BY <2>1, <1>6, <1>7
<1>11. ASSUME NEW p \in 1 .. c, NEW j \in 1 .. first[p] - 1
       PROVE  \E q \in 1 .. p - 1 : t[q] = s[j]
  <2>1. first[p] \in 1 .. Len(s)
    BY <1>2, <1>6
  <2>2. j \in 1 .. Len(s) /\ j < first[p]
    BY <2>1, <1>1
  <2>3. PICK i \in S : i <= j /\ s[i] = s[j]
    BY <2>2, <1>4
  <2>4. PICK q \in 1 .. c : first[q] = i
    BY <2>3, <1>6
  <2>5. i < first[p] /\ i \in Nat
    BY <2>1, <2>2, <2>3, <1>2
  <2>6. q < p
    <3>1. ~(p < q) /\ p # q
      <4>1. p < q => first[p] < first[q]
        BY <1>6
      <4> QED
        BY <4>1, <2>1, <2>4, <2>5
    <3> QED
      BY <3>1, <1>6
  <2>7. q \in 1 .. p - 1
    BY <2>6, <1>6
  <2> QED
    BY <2>3, <2>4, <2>7, <1>7
<1>12. ASSUME NEW p \in 1 .. c
       PROVE  \E i \in DOMAIN s : /\ t[p] = s[i]
                                  /\ \A j \in 1 .. i - 1 : \E q \in 1 .. p - 1 : t[q] = s[j]
  <2>1. first[p] \in DOMAIN s /\ t[p] = s[first[p]]
    BY <1>1, <1>2, <1>6, <1>7
  <2> QED
    BY <2>1, <1>11
<1> QED
  BY <1>7, <1>9, <1>10, <1>12

\* finalize_graph keeps what dfs arrived at: it drops repetitions only.
LEMMA FinishSortSorts ==
    ASSUME IInv, EdgeInv, SortInv, FinishSort
    PROVE  SortInv'
<1>1. /\ phase = "sorting" /\ stack = <<>> /\ phase' = "sorted"
      /\ order' = Sorted(order) /\ UNCHANGED g
  BY DEF FinishSort
<1>2. /\ Nodes' = Nodes /\ \A n : Source(n)' = Source(n) /\ Before(n)' = Before(n)
  BY <1>1 DEF Nodes, Source, Before
<1>3. \A n \in Nodes : g.nodes[n].kind # "removed" => InOrder(n)
  BY <1>1, AllInOrder
<1>4. ReadsPrecede /\ (~Merged => InOrderOnce) /\ order \in Seq(Nodes)
  BY <1>1 DEF SortInv, IInv, Remaining, Nodes
<1>5. /\ ReadsPrecede' /\ InOrderOnce'
      /\ \A n \in Nodes : g.nodes[n].kind # "removed" => InOrder(n)'
  <2>1. CASE ~Merged
    <3>1. order' = order
      BY <2>1, <1>1 DEF Sorted
    <3> QED
      BY <2>1, <3>1, <1>2, <1>3, <1>4 DEF ReadsPrecede, InOrderOnce, InOrder
  <2>2. CASE Merged
    <3>1. /\ \A p, q \in DOMAIN order' : order'[p] = order'[q] => p = q
          /\ \A x : Listed(order, x) => Listed(order', x)
          /\ \A p \in DOMAIN order' : \E i \in DOMAIN order :
               /\ order'[p] = order[i]
               /\ \A j \in 1 .. i - 1 : \E q \in 1 .. p - 1 : order'[q] = order[j]
      BY <2>2, <1>1, <1>4, SortedIs
    <3>2. InOrderOnce'
      BY <3>1 DEF InOrderOnce
    <3>3. \A n \in Nodes : g.nodes[n].kind # "removed" => InOrder(n)'
      <4>1. \A x : InOrder(x) <=> Listed(order, x)
        BY DEF InOrder, Listed
      <4>2. \A x : InOrder(x)' <=> Listed(order', x)
        BY DEF InOrder, Listed
      <4> QED
        BY <4>1, <4>2, <3>1, <1>3
    <3>4. ReadsPrecede'
      <4> SUFFICES ASSUME NEW p \in DOMAIN order', NEW m \in Before(order'[p]), ~Source(m)
                   PROVE  \E q \in 1 .. p - 1 : order'[q] = m
        BY <1>2 DEF ReadsPrecede
      <4>1. PICK i \in DOMAIN order :
              /\ order'[p] = order[i]
              /\ \A j \in 1 .. i - 1 : \E q \in 1 .. p - 1 : order'[q] = order[j]
        BY <3>1
      <4>2. PICK j \in 1 .. i - 1 : order[j] = m
        BY <4>1, <1>4 DEF ReadsPrecede
      <4> QED
        BY <4>1, <4>2
    <3> QED
      BY <3>2, <3>3, <3>4
  <2> QED
    BY <2>1, <2>2
<1> QED
  BY <1>1, <1>2, <1>5 DEF SortInv

--------------------------------------------------------------------------------
(* The merge moves edges, and loses none from an input to a layer. *)

\* The edges are finitely many.
LEMMA LiveFinite ==
    ASSUME NEW h, Sound(h)
    PROVE  IsFiniteSet(LiveOf(h))
<1>1. LiveOf(h) \subseteq 1 .. Len(h.edges) /\ Len(h.edges) \in Nat
  BY EdgeEnds, NodeFacts
<1>2. IsFiniteSet(1 .. Len(h.edges))
  BY <1>1, FS_Interval
<1> QED
  BY <1>1, <1>2, FS_Subset

\* With one member in place of another a set is as large as before.
LEMMA SwapKeepsSize ==
    ASSUME NEW S, IsFiniteSet(S), NEW e \in S, NEW x, x \notin S
    PROVE  Cardinality((S \ {e}) \cup {x}) = Cardinality(S)
<1>1. /\ IsFiniteSet(S \ {e}) /\ Cardinality(S \ {e}) = Cardinality(S) - 1
      /\ Cardinality(S) \in Nat
  BY FS_RemoveElement, FS_CardinalityType
<1>2. Cardinality((S \ {e}) \cup {x}) = Cardinality(S \ {e}) + 1
  BY <1>1, FS_AddElement
<1> QED
  BY <1>1, <1>2

\* The uses of inputs are those of the graph as constructed.
LEMMA SameUses ==
    ASSUME UNCHANGED built, OfKind({"input"})' = OfKind({"input"})
    PROVE  TotalUses' = TotalUses /\ \A n : Uses(n)' = Uses(n)
<1>1. \A n : Uses(n)' = Uses(n)
  BY DEF Uses
<1> QED
  BY <1>1 DEF TotalUses

\* When neither the graph nor the one constructed changes, the counts stay.
LEMMA SameCounts ==
    ASSUME UNCHANGED <<g, built>>
    PROVE  Counted' = Counted /\ ToNpu' = ToNpu /\ Merged' = Merged
<1>1. OfKind({"input"})' = OfKind({"input"}) /\ Merged' = Merged
  BY DEF OfKind, Nodes, Merged
<1>2. TotalUses' = TotalUses /\ \A n : Uses(n)' = Uses(n)
  BY <1>1, SameUses
<1>3. ToNpu' = ToNpu /\ InputReads(g') = InputReads(g) /\ \A n : ReadsOf(n)' = ReadsOf(n)
  BY DEF ToNpu, ReadsOf
<1> QED
  BY <1>1, <1>2, <1>3 DEF Counted

\* The kinds of nodes at the ends of edges when one of them is moved.
LEMMA MovedEnds ==
    ASSUME Sound(g), NEW e, NEW a, NEW b, NEW j, EdgeMoved(e, a, b, j)
    PROVE  /\ OfKind({"input"})' = OfKind({"input"}) /\ Len(g.edges) + 1 \notin LiveOf(g)
           /\ \A f \in LiveOf(g) :
                /\ g'.nodes[g'.edges[f].from].kind = g.nodes[g.edges[f].from].kind
                /\ g'.nodes[g'.edges[f].to].kind = g.nodes[g.edges[f].to].kind
<1>1. DOMAIN g'.nodes = DOMAIN g.nodes /\ \A n \in DOMAIN g.nodes : g'.nodes[n].kind = g.nodes[n].kind
  BY DEF EdgeMoved
<1>2. OfKind({"input"})' = OfKind({"input"})
  BY <1>1 DEF OfKind, Nodes
<1>3. Len(g.edges) + 1 \notin LiveOf(g)
  <2>1. Len(g.edges) \in Nat /\ LiveOf(g) \subseteq 1 .. Len(g.edges)
    BY EdgeEnds, NodeFacts
  <2> QED
    BY <2>1
<1>4. ASSUME NEW f \in LiveOf(g)
      PROVE  /\ g'.nodes[g'.edges[f].from].kind = g.nodes[g.edges[f].from].kind
             /\ g'.nodes[g'.edges[f].to].kind = g.nodes[g.edges[f].to].kind
  <2>1. g'.edges[f].from = g.edges[f].from /\ g'.edges[f].to = g.edges[f].to
    BY DEF EdgeMoved
  <2>2. g.edges[f].from \in DOMAIN g.nodes /\ g.edges[f].to \in DOMAIN g.nodes
    BY EdgeEnds
  <2> QED
    BY <2>1, <2>2, <1>1
<1> QED
  BY <1>2, <1>3, <1>4

\* An edge to an output gives way to one to an output: layers read what they read.
LEMMA MoveOutputCounts ==
    ASSUME IInv, EdgeInv, CountInv, MoveOutput
    PROVE  CountInv'
<1>1. phase = "outputs" /\ phase' = "outputs" /\ UNCHANGED built
  BY DEF MoveOutput
<1>2. Sound(g) /\ Counted /\ ToNpu = {}
  BY <1>1 DEF IInv, CountInv, MergePhases
<1>3. PICK n : n = work[1]
  OBVIOUS
<1>4. /\ \E e, a : EdgeMoved(e, a, n, 1) /\ g.nodes[g.edges[e].to].kind = "output"
      /\ n \in DOMAIN g.nodes /\ g.nodes[n].kind = "output"
  BY <1>3, MoveOutputKeeps
<1>5. PICK e, a : EdgeMoved(e, a, n, 1) /\ g.nodes[g.edges[e].to].kind = "output"
  BY <1>4
<1> DEFINE new == Len(g.edges) + 1
<1>6. /\ OfKind({"input"})' = OfKind({"input"}) /\ new \notin LiveOf(g)
      /\ \A f \in LiveOf(g) :
           /\ g'.nodes[g'.edges[f].from].kind = g.nodes[g.edges[f].from].kind
           /\ g'.nodes[g'.edges[f].to].kind = g.nodes[g.edges[f].to].kind
           /\ g'.edges[f].from = g.edges[f].from
  BY <1>2, <1>5, MovedEnds DEF EdgeMoved
<1>7. LiveOf(g') = (LiveOf(g) \ {e}) \cup {new} /\ g'.nodes[g'.edges[new].to].kind = "output"
  BY <1>4, <1>5 DEF EdgeMoved
<1> HIDE DEF new
<1>8. InputReads(g') = InputReads(g)
  BY <1>5, <1>6, <1>7 DEF InputReads
<1>9. \A x : ReadsOf(x)' = ReadsOf(x)
  BY <1>5, <1>6, <1>7 DEF ReadsOf
<1>10. ToNpu' = {}
  BY <1>2, <1>6, <1>7 DEF ToNpu
<1>11. Counted'
  BY <1>1, <1>2, <1>6, <1>8, <1>9, <1>10, SameUses DEF Counted
<1> QED
  BY <1>1, <1>10, <1>11 DEF CountInv

\* Once the outputs are moved no edge leads from an input to an output.
LEMMA NoneToOutputs ==
    ASSUME Sound(g), Shaped(g), Merging, phase # "outputs", NEW e \in LiveOf(g),
           g.nodes[g.edges[e].from].kind = "input"
    PROVE  g.nodes[g.edges[e].to].kind # "output"
<1> DEFINE x == g.edges[e].to
<1> SUFFICES ASSUME g.nodes[x].kind = "output"
             PROVE  FALSE
  OBVIOUS
<1>1. x \in DOMAIN g.nodes /\ g.edges[e].from \in DOMAIN g.nodes
  BY EdgeEnds
<1>2. g.edges[e].in \in DOMAIN g.nodes[x].ins /\ g.nodes[x].ins[g.edges[e].in] = e
  BY DEF Shaped, Sound, EdgeSound
<1>3. DOMAIN g.nodes[x].ins = 1 .. 1
  BY <1>1, NodeFacts DEF Shaped
<1>4. g.nodes[x].ins[1] = e
  BY <1>2, <1>3
<1>5. g.edges[e].from = Len(g.nodes)
  BY <1>1, <1>4 DEF Merging, ReadsNpu, Nodes
<1> QED
  BY <1>1, <1>5 DEF Merging, NpuLast

\* An edge from an input to a layer gives way to one from the same input to the NPU node, in
\* the next slot.
LEMMA MoveInputCounts ==
    ASSUME IInv, EdgeInv, CountInv, MoveInput
    PROVE  CountInv'
<1>1. /\ phase = "inputs" /\ phase' \in {"inputs", "aborted"} /\ slot' = slot + 1 /\ UNCHANGED built
  BY DEF MoveInput
<1>2. Sound(g) /\ Shaped(g) /\ Merging /\ Counted /\ slot = Cardinality(ToNpu)
  BY <1>1 DEF IInv, CountInv, MergePhases
<1>3. PICK e, n, m : /\ EdgeMoved(e, n, m, slot + 1) /\ g.edges[e].from = n
                     /\ n \in DOMAIN g.nodes /\ g.nodes[n].kind = "input"
                     /\ m \in DOMAIN g.nodes /\ g.nodes[m].kind = "npu" /\ g.edges[e].to # m
  BY MoveInputKeeps
<1> DEFINE new == Len(g.edges) + 1
<1>4. /\ OfKind({"input"})' = OfKind({"input"}) /\ new \notin LiveOf(g)
      /\ \A f \in LiveOf(g) :
           /\ g'.nodes[g'.edges[f].from].kind = g.nodes[g.edges[f].from].kind
           /\ g'.nodes[g'.edges[f].to].kind = g.nodes[g.edges[f].to].kind
           /\ g'.edges[f].from = g.edges[f].from /\ g'.edges[f].in = g.edges[f].in
  BY <1>2, <1>3, MovedEnds DEF EdgeMoved
<1>5. /\ e \in LiveOf(g) /\ LiveOf(g') = (LiveOf(g) \ {e}) \cup {new}
      /\ g'.edges[new].from = n /\ g'.edges[new].in = slot + 1
      /\ g'.nodes[g'.edges[new].from].kind = "input" /\ g'.nodes[g'.edges[new].to].kind = "npu"
  BY <1>3 DEF EdgeMoved
<1>6. g.nodes[g.edges[e].to].kind # "output" /\ g.nodes[g.edges[e].to].kind # "npu"
  <2>1. g.nodes[g.edges[e].to].kind # "output"
    BY <1>1, <1>2, <1>3, <1>5, NoneToOutputs
  <2>2. g.edges[e].to \in DOMAIN g.nodes
    BY <1>2, <1>5, EdgeEnds
  <2> QED
    BY <2>1, <2>2, <1>2, <1>3 DEF Merging, NpuLast
<1> HIDE DEF new
<1>7. /\ e \in InputReads(g) /\ new \notin InputReads(g)
      /\ InputReads(g') = (InputReads(g) \ {e}) \cup {new}
  BY <1>3, <1>4, <1>5, <1>6 DEF InputReads
<1>8. /\ e \in ReadsOf(n) /\ new \notin ReadsOf(n)
      /\ ReadsOf(n)' = (ReadsOf(n) \ {e}) \cup {new}
      /\ \A x : x # n => ReadsOf(x)' = ReadsOf(x)
  BY <1>3, <1>4, <1>5, <1>6 DEF ReadsOf
<1>9. new \notin ToNpu /\ ToNpu' = ToNpu \cup {new}
  BY <1>4, <1>5, <1>6 DEF ToNpu
<1>10. /\ IsFiniteSet(InputReads(g)) /\ IsFiniteSet(ReadsOf(n)) /\ IsFiniteSet(ToNpu)
  <2>1. IsFiniteSet(LiveOf(g))
    BY <1>2, LiveFinite
  <2>2. InputReads(g) \subseteq LiveOf(g) /\ ReadsOf(n) \subseteq LiveOf(g) /\ ToNpu \subseteq LiveOf(g)
    BY DEF InputReads, ReadsOf, ToNpu
  <2> QED
    BY <2>1, <2>2, FS_Subset
<1>11. Cardinality(InputReads(g')) = Cardinality(InputReads(g))
  BY <1>7, <1>10, SwapKeepsSize
<1>12. \A x : Cardinality(ReadsOf(x)') = Cardinality(ReadsOf(x))
  <2>1. Cardinality(ReadsOf(n)') = Cardinality(ReadsOf(n))
    BY <1>8, <1>10, SwapKeepsSize
  <2> QED
    BY <2>1, <1>8
<1>13. Cardinality(ToNpu') = slot + 1 /\ slot \in Nat
  BY <1>2, <1>9, <1>10, FS_AddElement, FS_CardinalityType
<1>14. \A f \in ToNpu' : g'.edges[f].in \in 1 .. Cardinality(ToNpu')
  <2> SUFFICES ASSUME NEW f \in ToNpu'
               PROVE  g'.edges[f].in \in 1 .. slot + 1
    BY <1>13
  <2>1. CASE f = new
    BY <2>1, <1>5, <1>13
  <2>2. CASE f \in ToNpu
    <3>1. g.edges[f].in \in 1 .. slot
      BY <2>2, <1>2 DEF Counted
    <3>2. g'.edges[f].in = g.edges[f].in
      BY <2>2, <1>4 DEF ToNpu
    <3> QED
      BY <3>1, <3>2, <1>13
  <2> QED
    BY <2>1, <2>2, <1>9
<1>15. Counted'
  <2>1. TotalUses' = TotalUses /\ \A x : Uses(x)' = Uses(x)
    BY <1>1, <1>4, SameUses
  <2>2. Cardinality(InputReads(g)) = TotalUses
    BY <1>2 DEF Counted
  <2>3. \A x \in OfKind({"input"}) : Cardinality(ReadsOf(x)) = Cardinality(Uses(x))
    BY <1>2 DEF Counted
  <2> QED
    BY <2>1, <2>2, <2>3, <1>4, <1>11, <1>12, <1>14 DEF Counted
<1> QED
  BY <1>1, <1>13, <1>15 DEF CountInv

\* A node removed takes no edge from an input with it, since those lead to the NPU node.
LEMMA RemoveNodeCounts ==
    ASSUME IInv, EdgeInv, CountInv, RemoveNode
    PROVE  CountInv'
<1>1. phase = "removing" /\ phase' = "removing" /\ UNCHANGED built
  BY DEF RemoveNode
<1>2. Sound(g) /\ Merging /\ Counted
  BY <1>1 DEF IInv, CountInv, MergePhases
<1>3. Flow(g) /\ \A x \in DOMAIN g.nodes : g.nodes[x].kind = "input" => OnlyToLast(g, x)
  BY <1>1 DEF EdgeInv, Nodes
<1>4. PICK n : NodeGone(n)
  BY RemoveNodeKeeps
<1>5. \A f \in LiveOf(g) : g.edges[f].from \in DOMAIN g.nodes /\ g.edges[f].to \in DOMAIN g.nodes
  BY <1>2, EdgeEnds
<1>6. /\ \A f \in LiveOf(g') : f \in LiveOf(g) /\ g.edges[f].from # n /\ g.edges[f].to # n
      /\ \A f \in LiveOf(g) : g.edges[f].from # n /\ g.edges[f].to # n => f \in LiveOf(g')
  BY <1>4 DEF NodeGone
<1>7. \A f \in LiveOf(g') :
        /\ g'.edges[f].from = g.edges[f].from /\ g'.edges[f].in = g.edges[f].in
        /\ g'.nodes[g'.edges[f].from].kind = g.nodes[g.edges[f].from].kind
        /\ g'.nodes[g'.edges[f].to].kind = g.nodes[g.edges[f].to].kind
  <2> SUFFICES ASSUME NEW f \in LiveOf(g')
               PROVE  /\ g'.edges[f].from = g.edges[f].from /\ g'.edges[f].in = g.edges[f].in
                      /\ g'.nodes[g'.edges[f].from].kind = g.nodes[g.edges[f].from].kind
                      /\ g'.nodes[g'.edges[f].to].kind = g.nodes[g.edges[f].to].kind
    OBVIOUS
  <2>1. /\ g'.edges[f].from = g.edges[f].from /\ g'.edges[f].in = g.edges[f].in
        /\ g'.edges[f].to = g.edges[f].to
    BY <1>4, <1>6 DEF NodeGone
  <2>2. g.edges[f].from \in DOMAIN g.nodes \ {n} /\ g.edges[f].to \in DOMAIN g.nodes \ {n}
    BY <1>5, <1>6
  <2> QED
    BY <2>1, <2>2, <1>4 DEF NodeGone
<1>8. ASSUME NEW f \in LiveOf(g), g.nodes[g.edges[f].from].kind = "input"
      PROVE  f \in LiveOf(g')
  <2>1. g.edges[f].to = Len(g.nodes)
    BY <1>3, <1>5, <1>8 DEF OnlyToLast
  <2>2. g.edges[f].to # n /\ g.edges[f].from # n
    BY <2>1, <1>2, <1>4, <1>8 DEF NodeGone, Merging, NpuLast
  <2> QED
    BY <2>2, <1>6
<1>9. OfKind({"input"})' = OfKind({"input"})
  BY <1>4 DEF OfKind, Nodes, NodeGone
<1>10. InputReads(g') = InputReads(g)
  BY <1>6, <1>7, <1>8 DEF InputReads
<1>11. \A x \in OfKind({"input"}) : ReadsOf(x)' = ReadsOf(x)
  <2> SUFFICES ASSUME NEW x, g.nodes[x].kind = "input"
               PROVE  ReadsOf(x)' = ReadsOf(x)
    BY DEF OfKind
  <2> QED
    BY <1>6, <1>7, <1>8 DEF ReadsOf
<1>12. ToNpu' = ToNpu
  <2>1. \A f \in ToNpu : g.nodes[g.edges[f].from].kind = "input"
    BY <1>3 DEF ToNpu, Flow
  <2>2. ASSUME NEW f \in ToNpu
        PROVE  f \in ToNpu'
    <3>1. f \in LiveOf(g) /\ g.nodes[g.edges[f].to].kind = "npu"
      BY DEF ToNpu
    <3>2. f \in LiveOf(g')
      BY <2>1, <3>1, <1>8
    <3> QED
      BY <3>1, <3>2, <1>7 DEF ToNpu
  <2>3. ASSUME NEW f \in ToNpu'
        PROVE  f \in ToNpu
    BY <1>6, <1>7 DEF ToNpu
  <2> QED
    BY <2>2, <2>3
<1>13. \A f \in ToNpu : g'.edges[f].in = g.edges[f].in
  BY <1>7, <1>12 DEF ToNpu
<1>14. Counted'
  <2>1. TotalUses' = TotalUses /\ \A x : Uses(x)' = Uses(x)
    BY <1>1, <1>9, SameUses
  <2>2. /\ Cardinality(InputReads(g)) = TotalUses
        /\ \A x \in OfKind({"input"}) : Cardinality(ReadsOf(x)) = Cardinality(Uses(x))
        /\ \A f \in ToNpu : g.edges[f].in \in 1 .. Cardinality(ToNpu)
    BY <1>2 DEF Counted
  <2> QED
    BY <2>1, <2>2, <1>9, <1>10, <1>11, <1>12, <1>13 DEF Counted
<1> QED
  BY <1>1, <1>14 DEF CountInv

\* No graph has been merged yet.
LEMMA InitialCounts == Init => CountInv
BY DEF Init, CountInv, AllLive, LiveOf, MergePhases, Sorting

\* As long as the graph is constructed no edge is removed.
LEMMA ConstructCounts ==
    ASSUME IInv, CountInv, Construct
    PROVE  CountInv'
<1>1. phase = "building" /\ phase' = "building"
  BY DEF Construct, AddInput, AddLayer, AddOutput, ConnectInput, Building, Locals
<1>2. g \in GraphRecs /\ AllLive(g)
  BY <1>1 DEF IInv, Sound, CountInv
<1>3. /\ \A kind, i, o : AddNode(g, kind, i, o).edges = g.edges
      /\ g.edges \in Seq(EdgeRecs)
  BY <1>2 DEF AddNode, GraphRecs
<1>4. \A h, kind, i, o : h.edges = g.edges /\ h = AddNode(g, "const", 0, 1)
                           => AddNode(h, kind, i, o).edges = g.edges
  <2> SUFFICES ASSUME NEW h, h.edges = g.edges, h = AddNode(g, "const", 0, 1), NEW kind, NEW i, NEW o
               PROVE  AddNode(h, kind, i, o).edges = g.edges
    OBVIOUS
  <2>1. h \in [nodes : {h.nodes}, edges : {h.edges}, bound : {h.bound}]
    BY <1>2 DEF AddNode, GraphRecs
  <2> QED
    BY <2>1 DEF AddNode
<1>5. CASE ConnectInput
  <2>1. PICK r : g'.edges = Append(g.edges, r) /\ r.live
    BY <1>5 DEF ConnectInput, Connect
  <2>2. /\ DOMAIN g'.edges = DOMAIN g.edges \cup {Len(g.edges) + 1}
        /\ g'.edges[Len(g.edges) + 1] = r
        /\ \A e \in DOMAIN g.edges : g'.edges[e] = g.edges[e]
    BY <2>1, <1>3
  <2>3. AllLive(g')
    BY <2>1, <2>2, <1>2 DEF AllLive, LiveOf
  <2> QED
    BY <2>3, <1>1 DEF CountInv, MergePhases, Sorting
<1>6. CASE ~ConnectInput
  <2>1. g'.edges = g.edges
    BY <1>3, <1>4, <1>6 DEF Construct, AddInput, AddLayer, AddOutput
  <2>2. AllLive(g')
    BY <2>1, <1>2 DEF AllLive, LiveOf
  <2> QED
    BY <2>2, <1>1 DEF CountInv, MergePhases, Sorting
<1> QED
  BY <1>5, <1>6

\* The graph constructed is the one that is merged.
LEMMA AddNpuNodeCounts ==
    ASSUME IInv, CountInv, AddNpuNode
    PROVE  CountInv'
<1> DEFINE m == Len(g.nodes) + 1
<1>1. phase = "building" /\ work = <<>> /\ phase' = "outputs" /\ built' = g
  BY DEF AddNpuNode, Constructed, Building
<1>2. Sound(g) /\ Shaped(g) /\ Unconnected(g, <<>>) /\ g \in GraphRecs /\ AllLive(g)
  BY <1>1 DEF IInv, Sound, CountInv
<1>3. PICK k \in Nat : g' = AddNode(g, "npu", k, 0)
  BY <1>2, WorkOf DEF AddNpuNode
<1>4. Extended(g, "npu", k, 0, g')
  BY <1>2, <1>3, AddNodeIs DEF Kinds
<1>5. DOMAIN g'.nodes = DOMAIN g.nodes \cup {m} /\ m \notin DOMAIN g.nodes /\ LiveOf(g') = LiveOf(g)
  BY <1>2, <1>3, <1>4, AddNodeSound
<1>6. g'.edges = g.edges /\ g'.nodes[m].kind = "npu" /\ \A n \in DOMAIN g.nodes : g'.nodes[n] = g.nodes[n]
  BY <1>4 DEF Extended
<1>7. \A e \in LiveOf(g) : /\ g.edges[e].from \in DOMAIN g.nodes /\ g.edges[e].to \in DOMAIN g.nodes
                           /\ g.nodes[g.edges[e].to].kind \in {"layer", "output"}
  BY <1>2, EdgeEnds DEF Shaped, Unconnected
<1>8. OfKind({"input"})' = OfKind({"input"})
  BY <1>5, <1>6 DEF OfKind, Nodes
<1>9. LiveOf(g') = DOMAIN g.edges
  BY <1>2, <1>5 DEF AllLive
<1>10. \A n : ReadsOf(n)' = Uses(n)'
  BY <1>1, <1>2, <1>5, <1>6, <1>7, <1>9 DEF ReadsOf, Uses, AllLive
<1>11. InputReads(g') = (UNION {Uses(n) : n \in OfKind({"input"})})'
  <2>1. (UNION {Uses(n) : n \in OfKind({"input"})})' = UNION {ReadsOf(n)' : n \in OfKind({"input"})}
    BY <1>8, <1>10
  <2>2. \A e : e \in InputReads(g') <=> e \in LiveOf(g) /\ g.nodes[g.edges[e].from].kind = "input"
                                        /\ g.nodes[g.edges[e].to].kind # "output"
    BY <1>5, <1>6, <1>7 DEF InputReads
  <2>3. \A e, n : e \in ReadsOf(n)' <=> e \in LiveOf(g) /\ g.edges[e].from = n
                                        /\ g.nodes[g.edges[e].to].kind # "output"
    BY <1>5, <1>6, <1>7 DEF ReadsOf
  <2>4. \A n : n \in OfKind({"input"}) <=> n \in DOMAIN g.nodes /\ g.nodes[n].kind = "input"
    BY DEF OfKind, Nodes
  <2>5. \A e \in LiveOf(g) : g.edges[e].from \in DOMAIN g.nodes
    BY <1>7
  <2>6. ASSUME NEW e \in InputReads(g')
        PROVE  e \in UNION {ReadsOf(n)' : n \in OfKind({"input"})}
    <3>1. PICK n : n = g.edges[e].from
      OBVIOUS
    <3>2. e \in ReadsOf(n)' /\ n \in OfKind({"input"})
      BY <2>2, <2>3, <2>4, <2>5, <3>1
    <3> QED
      BY <3>2
  <2>7. ASSUME NEW n \in OfKind({"input"}), NEW e \in ReadsOf(n)'
        PROVE  e \in InputReads(g')
    BY <2>2, <2>3, <2>4
  <2> QED
    BY <2>1, <2>6, <2>7
<1>12. ToNpu' = {}
  BY <1>5, <1>6, <1>7 DEF ToNpu
<1>13. Counted'
  <2>1. TotalUses' = Cardinality(InputReads(g'))
    BY <1>11 DEF TotalUses
  <2> QED
    BY <2>1, <1>10, <1>12 DEF Counted
<1> QED
  BY <1>1, <1>12, <1>13 DEF CountInv

\* The loops end, and dfs runs, without a change of the graph.
LEMMA SteadyCounts ==
    ASSUME CountInv, \/ OutputsMoved \/ InputMoved \/ InputsMoved
                     \/ VisitNode \/ FinishSort \/ UNCHANGED vars
    PROVE  CountInv'
<1>1. UNCHANGED <<g, built>>
  BY DEF OutputsMoved, InputMoved, InputsMoved, VisitNode, FinishSort, vars
<1>2. Counted' = Counted /\ ToNpu' = ToNpu /\ Merged' = Merged /\ AllLive(g') = AllLive(g)
  BY <1>1, SameCounts
<1>3. CASE OutputsMoved
  <2>1. phase = "outputs" /\ phase' = "inputs" /\ slot' = 0
    BY <1>3 DEF OutputsMoved
  <2>2. Counted /\ ToNpu = {}
    BY <2>1 DEF CountInv, MergePhases
  <2>3. Cardinality(ToNpu') = 0
    BY <2>2, <1>2, FS_EmptySet
  <2> QED
    BY <2>1, <2>2, <2>3, <1>2 DEF CountInv
<1>4. CASE InputMoved
  <2>1. phase = "inputs" /\ phase' = "inputs" /\ slot' = slot
    BY <1>4 DEF InputMoved
  <2> QED
    BY <2>1, <1>2 DEF CountInv, MergePhases
<1>5. CASE InputsMoved
  <2>1. phase = "inputs" /\ phase' = "removing"
    BY <1>5 DEF InputsMoved
  <2> QED
    BY <2>1, <1>2 DEF CountInv, MergePhases
<1>6. CASE VisitNode \/ FinishSort
  <2>1. phase = "sorting" /\ phase' \in {"sorting", "sorted"}
    BY <1>6 DEF VisitNode, FinishSort
  <2> QED
    BY <2>1, <1>2 DEF CountInv, MergePhases, Sorting
<1>7. CASE UNCHANGED vars
  <2>1. phase' = phase /\ slot' = slot
    BY <1>7 DEF vars
  <2> QED
    BY <2>1, <1>2 DEF CountInv, Sorting
<1> QED
  BY <1>3, <1>4, <1>5, <1>6, <1>7

\* The sort starts on the graph that was merged, or on one without an NPU node.
LEMMA StartSortCounts ==
    ASSUME IInv, CountInv, StartSort
    PROVE  CountInv'
<1>1. phase' = "sorting" /\ UNCHANGED g
  BY DEF StartSort
<1>2. CASE phase = "removing" /\ UNCHANGED built
  <2>1. Counted' = Counted
    BY <1>1, <1>2, SameCounts
  <2> QED
    BY <2>1, <1>1, <1>2 DEF CountInv, MergePhases
<1>3. CASE phase = "building"
  <2>1. ~Merged
    BY <1>3 DEF IInv, Unconnected, Merged, OfKind, Nodes
  <2>2. ~Merged'
    BY <2>1, <1>1 DEF Merged, OfKind, Nodes
  <2> QED
    BY <2>2, <1>1 DEF CountInv, MergePhases
<1> QED
  BY <1>2, <1>3 DEF StartSort, Constructed, Building

--------------------------------------------------------------------------------
(* The theorems *)

\* Before the sort there is nothing to keep of it.
LEMMA NotSorting ==
    ASSUME phase' \notin {"sorting", "sorted"}
    PROVE  SortInv'
BY DEF SortInv

\* Nothing happens.
LEMMA StutterKeeps ==
    ASSUME IInv, EdgeInv, SortInv, UNCHANGED vars
    PROVE  IInv' /\ EdgeInv' /\ SortInv'
<1>1. UNCHANGED <<g, phase, work, slot, stack, visited, order, built>>
  BY DEF vars
<1>2. (Unconnected(g, work))' = Unconnected(g, work)
  BY <1>1
<1>3. Merging' = Merging
  BY <1>1 DEF Merging, ReadsAsBuilt, ReadsNpu, TensorRead, Nodes
<1>4. Loops' = Loops
  BY <1>1 DEF Loops, Npu
<1>5. Merged' = Merged /\ Sorting' = Sorting /\ Nodes' = Nodes
  BY <1>1 DEF Merged, OfKind, Nodes, Sorting
<1>6. IInv'
  BY <1>1, <1>2, <1>3, <1>4, <1>5 DEF IInv, Nodes
<1>7. EdgeInv'
  BY <1>1, <1>5 DEF EdgeInv
<1>8. /\ NoneLost' = NoneLost /\ StackReady' = StackReady /\ ReadsPrecede' = ReadsPrecede
      /\ InOrderOnce' = InOrderOnce /\ StackOnce' = StackOnce
  BY <1>1 DEF NoneLost, StackReady, ReadsPrecede, InOrderOnce, StackOnce,
              Source, InOrder, Before, Nodes
<1>9. \A n : InOrder(n)' = InOrder(n)
  BY <1>1 DEF InOrder
<1>10. SortInv'
  BY <1>1, <1>5, <1>8, <1>9 DEF SortInv
<1> QED
  BY <1>6, <1>7, <1>10

\* A step of the construction or of the merge.
LEMMA BeforeSort ==
    ASSUME IInv, EdgeInv,
           \/ Construct
           \/ AddNpuNode \/ MoveOutput \/ OutputsMoved
           \/ MoveInput \/ InputMoved \/ InputsMoved \/ RemoveNode
    PROVE  IInv' /\ EdgeInv' /\ phase' \notin {"sorting", "sorted"}
<1>1. CASE AddInput
  <2>1. phase' \notin {"sorting", "sorted"}
    BY <1>1 DEF AddInput, Building, Locals
  <2> QED
    BY <1>1, <2>1, AddInputKeeps
<1>2. CASE \E k \in 1 .. MaxJoin, weights \in BOOLEAN :
             \E inputs \in [1 .. k -> OfKind({"input", "layer"})] : AddLayer(inputs, weights)
  <2>1. phase' \notin {"sorting", "sorted"}
    BY <1>2 DEF AddLayer, Building, Locals
  <2> QED
    BY <1>2, <2>1, AddLayerKeeps
<1>3. CASE \E n \in OfKind({"input", "layer"}) : AddOutput(n)
  <2>1. phase' \notin {"sorting", "sorted"}
    BY <1>3 DEF AddOutput, Building, Locals
  <2> QED
    BY <1>3, <2>1, AddOutputKeeps
<1>4. CASE ConnectInput
  <2>1. phase' \notin {"sorting", "sorted"}
    BY <1>4 DEF ConnectInput, Locals
  <2> QED
    BY <1>4, <2>1, ConnectInputKeeps
<1>5. CASE AddNpuNode
  <2>1. phase' \notin {"sorting", "sorted"}
    BY <1>5 DEF AddNpuNode
  <2> QED
    BY <1>5, <2>1, AddNpuNodeKeeps
<1>6. CASE MoveOutput
  <2>1. phase' \notin {"sorting", "sorted"}
    BY <1>6 DEF MoveOutput
  <2> QED
    BY <1>6, <2>1, MoveOutputKeeps
<1>7. CASE OutputsMoved
  <2>1. phase' \notin {"sorting", "sorted"}
    BY <1>7 DEF OutputsMoved
  <2> QED
    BY <1>7, <2>1, OutputsMovedKeeps
<1>8. CASE MoveInput
  <2>1. phase' \notin {"sorting", "sorted"}
    BY <1>8 DEF MoveInput
  <2> QED
    BY <1>8, <2>1, MoveInputKeeps
<1>9. CASE InputMoved
  <2>1. phase' \notin {"sorting", "sorted"}
    BY <1>9 DEF InputMoved
  <2> QED
    BY <1>9, <2>1, InputMovedKeeps
<1>10. CASE InputsMoved
  <2>1. phase' \notin {"sorting", "sorted"}
    BY <1>10 DEF InputsMoved
  <2> QED
    BY <1>10, <2>1, InputsMovedKeeps
<1>11. CASE RemoveNode
  <2>1. phase' \notin {"sorting", "sorted"}
    BY <1>11 DEF RemoveNode
  <2> QED
    BY <1>11, <2>1, RemoveNodeKeeps
<1> QED
  BY <1>1, <1>2, <1>3, <1>4, <1>5, <1>6, <1>7, <1>8, <1>9, <1>10, <1>11 DEF Construct

\* The invariant of the construction, the merge and the sort, and that it is inductive.
LEMMA Inductive ==
    IInv /\ EdgeInv /\ SortInv /\ CountInv /\ [Next]_vars =>
        IInv' /\ EdgeInv' /\ SortInv' /\ CountInv'
<1> SUFFICES ASSUME IInv, EdgeInv, SortInv, CountInv, [Next]_vars
             PROVE  IInv' /\ EdgeInv' /\ SortInv' /\ CountInv'
  OBVIOUS
<1>1. IInv' /\ EdgeInv' /\ SortInv'
  <2>1. CASE \/ Construct
             \/ AddNpuNode \/ MoveOutput \/ OutputsMoved
             \/ MoveInput \/ InputMoved \/ InputsMoved \/ RemoveNode
    BY <2>1, BeforeSort, NotSorting
  <2>2. CASE StartSort
    BY <2>2, StartSortKeeps, StartSortSorts
  <2>3. CASE VisitNode
    BY <2>3, VisitNodeKeeps, VisitNodeSorts
  <2>4. CASE FinishSort
    BY <2>4, FinishSortKeeps, FinishSortSorts
  <2>5. CASE UNCHANGED vars
    BY <2>5, StutterKeeps
  <2> QED
    BY <2>1, <2>2, <2>3, <2>4, <2>5 DEF Next
<1>2. CountInv'
  <2>1. CASE Construct
    BY <2>1, ConstructCounts
  <2>2. CASE AddNpuNode
    BY <2>2, AddNpuNodeCounts
  <2>3. CASE MoveOutput
    BY <2>3, MoveOutputCounts
  <2>4. CASE MoveInput
    BY <2>4, MoveInputCounts
  <2>5. CASE RemoveNode
    BY <2>5, RemoveNodeCounts
  <2>6. CASE StartSort
    BY <2>6, StartSortCounts
  <2>7. CASE \/ OutputsMoved \/ InputMoved \/ InputsMoved
             \/ VisitNode \/ FinishSort \/ UNCHANGED vars
    BY <2>7, SteadyCounts
  <2> QED
    BY <2>1, <2>2, <2>3, <2>4, <2>5, <2>6, <2>7 DEF Next
<1> QED
  BY <1>1, <1>2

\* It holds throughout.
LEMMA Invariant == Spec => [](IInv /\ EdgeInv /\ SortInv /\ CountInv)
<1>1. Init => IInv /\ EdgeInv /\ SortInv /\ CountInv
  BY Initially, InitialCounts
<1>2. (IInv /\ EdgeInv /\ SortInv /\ CountInv) /\ [Next]_vars
        => (IInv /\ EdgeInv /\ SortInv /\ CountInv)'
  BY Inductive
<1> QED
  BY <1>1, <1>2, PTL DEF Spec

\* At every step of the construction, the merge and the sort, whatever the graph, the lists
\* of edges, inputs and tensors hold numbers of what exists, slot is one of restructure_graph's
\* edges, and dfs works on nodes that are left.
THEOREM FinalizeTyping == Spec => []TypeOK
<1>1. IInv => TypeOK
  <2> SUFFICES ASSUME IInv
               PROVE  TypeOK
    OBVIOUS
  <2>1. phase \in {"building", "outputs", "inputs", "removing", "sorting", "sorted", "aborted"}
    BY DEF IInv, MergePhases
  <2>2. ASSUME NEW n \in Nodes
        PROVE  /\ ToSet(g.nodes[n].ins) \subseteq DOMAIN g.edges \cup {0}
               /\ ToSet(g.nodes[n].tensors) \subseteq DOMAIN g.bound
    <3>1. NodeSound(g, n)
      BY DEF IInv, Sound, Nodes
    <3> QED
      BY <3>1 DEF NodeSound, LiveOf, ToSet
  <2>3. \A n \in ToSet(stack) \cup ToSet(order) : n \in Nodes /\ g.nodes[n].kind # "removed"
    <3>1. Remaining(g, stack) /\ Remaining(g, order)
      BY DEF IInv
    <3> QED
      BY <3>1 DEF Remaining, ToSet, Nodes
  <2> QED
    BY <2>1, <2>2, <2>3 DEF TypeOK, IInv
<1> QED
  BY <1>1, Invariant, PTL

\* The four records of each connection agree at every step of the merge, also past the point
\* where the NPU node has run out of inputs: every edge is among the outputs of its producer
\* and bound to its tensor, and every input names the edge that leads to it.
THEOREM RecordsAgree == Spec => []Consistent
<1>1. IInv => Consistent
  <2> SUFFICES ASSUME IInv
               PROVE  Consistent
    OBVIOUS
  <2>1. Live = LiveOf(g)
    BY DEF Live, LiveOf
  <2>2. \A e \in LiveOf(g) : EdgeSound(g, e)
    BY DEF IInv, Sound
  <2>3. ASSUME NEW e \in Live
        PROVE  /\ g.edges[e].out \in DOMAIN g.nodes[g.edges[e].from].tensors
               /\ g.edges[e].tensor = g.nodes[g.edges[e].from].tensors[g.edges[e].out]
               /\ g.edges[e].in \in DOMAIN g.nodes[g.edges[e].to].ins
                    => g.nodes[g.edges[e].to].ins[g.edges[e].in] = e
    BY <2>1, <2>2 DEF EdgeSound
  <2>4. ASSUME NEW n \in Nodes
        PROVE  /\ g.nodes[n].outs = {e \in Live : g.edges[e].from = n}
               /\ \A i \in DOMAIN g.nodes[n].ins :
                    g.nodes[n].ins[i] # 0 => /\ g.nodes[n].ins[i] \in Live
                                             /\ g.edges[g.nodes[n].ins[i]].to = n
                                             /\ g.edges[g.nodes[n].ins[i]].in = i
    <3>1. NodeSound(g, n)
      BY DEF IInv, Sound, Nodes
    <3> QED
      BY <3>1, <2>1 DEF NodeSound
  <2>5. \A t \in DOMAIN g.bound : g.bound[t] = {e \in Live : g.edges[e].tensor = t}
    BY <2>1 DEF IInv, Sound
  <2>6. \A n \in Nodes :
          /\ g.nodes[n].outs = {e \in Live : g.edges[e].from = n}
          /\ \A i \in DOMAIN g.nodes[n].ins :
               LET e == g.nodes[n].ins[i]
               IN  e # 0 => e \in Live /\ g.edges[e].to = n /\ g.edges[e].in = i
    BY <2>4
  <2> HIDE DEF Live, Nodes
  <2> QED
    BY <2>3, <2>5, <2>6 DEF Consistent
<1> QED
  BY <1>1, Invariant, PTL

\* Whatever graph becomes the NPU node, each of its Output and Sender nodes ends up with the
\* tensor it had, from the NPU node: restructure_graph moves the first edge before it makes
\* the new one, for each output once, and removing the layers takes away none of these.
THEOREM TensorsKept == Spec => []OutputsKeepTheirTensors
<1>1. IInv => OutputsKeepTheirTensors
  BY DEF IInv, OutputsKeepTheirTensors, Merging, ReadsAsBuilt, ReadsNpu, OfKind, Nodes, Npu
<1> QED
  BY <1>1, Invariant, PTL

\* Whatever the graph, the list of nodes dfs and finalize_graph end up with has every node
\* that is left once, and each after the layers or the NPU node it reads: every node gets one
\* task, which runs after the tasks that compute its inputs.  In a graph for a CPU or GPU no
\* node repeats since no value is joined with itself; in an NPU's the NPU node, which may
\* read one input over several edges, goes on the stack once per edge, and its repetitions
\* are dropped.
THEOREM TasksInOrder == Spec => []SortedTopologically
<1>1. IInv /\ EdgeInv /\ SortInv => SortedTopologically
  <2> SUFFICES ASSUME IInv, EdgeInv, SortInv, phase = "sorted"
               PROVE  /\ \A n \in Nodes : Cardinality({i \in DOMAIN order : order[i] = n})
                                            = IF g.nodes[n].kind = "removed" THEN 0 ELSE 1
                      /\ \A e \in Live : g.nodes[g.edges[e].from].kind \in {"layer", "npu"} =>
                                            Place(g.edges[e].from) < Place(g.edges[e].to)
    BY DEF SortedTopologically
  <2>1. /\ ReadsPrecede /\ InOrderOnce /\ Remaining(g, order) /\ Sound(g) /\ Shaped(g)
        /\ \A n \in Nodes : g.nodes[n].kind # "removed" => InOrder(n)
    BY DEF SortInv, IInv
  <2>2. ASSUME NEW n \in Nodes
        PROVE  Cardinality({i \in DOMAIN order : order[i] = n})
                 = IF g.nodes[n].kind = "removed" THEN 0 ELSE 1
    <3> DEFINE At == {i \in DOMAIN order : order[i] = n}
    <3>1. CASE g.nodes[n].kind = "removed"
      <4>1. At = {}
        BY <2>1, <3>1 DEF Remaining
      <4> QED
        BY <3>1, <4>1, FS_EmptySet
    <3>2. CASE g.nodes[n].kind # "removed"
      <4>1. PICK p \in DOMAIN order : order[p] = n
        BY <2>1, <3>2 DEF InOrder
      <4>2. At = {p}
        BY <2>1, <4>1 DEF InOrderOnce
      <4> QED
        BY <3>2, <4>2, FS_Singleton
    <3> QED
      BY <3>1, <3>2
  <2>3. ASSUME NEW p \in DOMAIN order
        PROVE  Place(order[p]) = p
    BY <2>1 DEF Place, InOrderOnce
  <2>4. ASSUME NEW e \in Live, g.nodes[g.edges[e].from].kind \in {"layer", "npu"}
        PROVE  Place(g.edges[e].from) < Place(g.edges[e].to)
    <3> DEFINE n == g.edges[e].to
               m == g.edges[e].from
    <3>1. e \in LiveOf(g)
      BY DEF Live, LiveOf
    <3>2. n \in Nodes /\ g.nodes[n].kind # "removed"
      BY <2>1, <3>1, EdgeEnds DEF Shaped, Nodes
    <3>3. PICK p \in DOMAIN order : order[p] = n
      BY <2>1, <3>2 DEF InOrder
    <3>4. m \in Before(order[p]) /\ ~Source(m)
      BY <2>4, <3>1, <3>3 DEF Before, Source
    <3>5. PICK q \in 1 .. p - 1 : order[q] = m
      BY <2>1, <3>4 DEF ReadsPrecede
    <3>6. DOMAIN order = 1 .. Len(order) /\ Len(order) \in Nat
      BY <2>1 DEF Remaining
    <3>7. q \in DOMAIN order /\ q < p
      BY <3>3, <3>5, <3>6
    <3> QED
      BY <2>3, <3>3, <3>5, <3>7
  <2> QED
    BY <2>2, <2>4
<1> QED
  BY <1>1, Invariant, PTL

\* Once merged, what layers read of an input is read over as many slots of the NPU node, if
\* there are as many slots as there were edges to layers.
LEMMA ReadOverSlots ==
    ASSUME IInv, EdgeInv, CountInv, Sorting, Merged, TotalUses <= Len(g.nodes[Npu].ins),
           NEW n, n \in Nodes, g.nodes[n].kind = "input"
    PROVE  Cardinality({i \in DOMAIN g.nodes[Npu].ins :
                          g.nodes[Npu].ins[i] # 0 /\ g.edges[g.nodes[Npu].ins[i]].from = n})
             = Cardinality(Uses(n))
<1> DEFINE ins == g.nodes[Npu].ins
           Slots == {i \in DOMAIN ins : ins[i] # 0 /\ g.edges[ins[i]].from = n}
           f == [i \in Slots |-> ins[i]]
<1>1. Sound(g) /\ Merging /\ Counted /\ Flow(g) /\ OnlyToLast(g, n)
  BY DEF IInv, EdgeInv, CountInv, Sorting
<1>2. /\ Npu \in DOMAIN g.nodes /\ \A m \in DOMAIN g.nodes : g.nodes[m].kind = "npu" <=> m = Npu
      /\ DOMAIN ins = 1 .. Len(ins) /\ Len(ins) \in Nat
  BY <1>1, NodeFacts DEF Merging, NpuLast, Npu
<1>3. /\ IsFiniteSet(InputReads(g)) /\ IsFiniteSet(ToNpu) /\ ToNpu \subseteq InputReads(g)
  <2>1. ToNpu \subseteq InputReads(g)
    BY <1>1 DEF ToNpu, InputReads, Flow
  <2>2. InputReads(g) \subseteq LiveOf(g)
    BY DEF InputReads
  <2> QED
    BY <2>1, <2>2, <1>1, LiveFinite, FS_Subset
<1>4. Cardinality(ToNpu) \in Nat /\ Cardinality(ToNpu) <= Len(ins)
  <2>1. /\ Cardinality(ToNpu) <= Cardinality(InputReads(g))
        /\ Cardinality(ToNpu) \in Nat /\ Cardinality(InputReads(g)) \in Nat
    BY <1>3, FS_Subset, FS_CardinalityType
  <2>2. Cardinality(InputReads(g)) = TotalUses
    BY <1>1 DEF Counted
  <2> QED
    BY <2>1, <2>2, <1>2
<1>5. ASSUME NEW e \in ReadsOf(n)
      PROVE  g.edges[e].in \in Slots /\ ins[g.edges[e].in] = e
  <2>1. e \in LiveOf(g) /\ g.edges[e].to = Npu /\ g.edges[e].from = n
    BY <1>1 DEF ReadsOf, OnlyToLast, Npu
  <2>2. e \in ToNpu
    BY <2>1, <1>2 DEF ToNpu
  <2>3. g.edges[e].in \in 1 .. Cardinality(ToNpu)
    BY <2>2, <1>1 DEF Counted
  <2>4. g.edges[e].in \in DOMAIN ins
    BY <2>3, <1>2, <1>4
  <2>5. ins[g.edges[e].in] = e
    BY <2>1, <2>4, <1>1 DEF Sound, EdgeSound
  <2>6. e # 0
    BY <2>1, <1>1, EdgeEnds
  <2> QED
    BY <2>1, <2>4, <2>5, <2>6
<1>6. ASSUME NEW i \in Slots
      PROVE  ins[i] \in ReadsOf(n) /\ g.edges[ins[i]].in = i
  <2>1. NodeSound(g, Npu)
    BY <1>1, <1>2 DEF Sound
  <2>2. ins[i] \in LiveOf(g) /\ g.edges[ins[i]].to = Npu /\ g.edges[ins[i]].in = i
    BY <2>1 DEF NodeSound
  <2>3. g.nodes[g.edges[ins[i]].to].kind = "npu"
    BY <2>2, <1>2
  <2> QED
    BY <2>2, <2>3 DEF ReadsOf
<1>7. IsFiniteSet(Slots)
  <2>1. Slots \subseteq 1 .. Len(ins)
    BY <1>2
  <2>2. IsFiniteSet(1 .. Len(ins))
    BY <1>2, FS_Interval
  <2> HIDE DEF Slots
  <2> QED
    BY <2>1, <2>2, FS_Subset
<1> HIDE DEF Slots
<1>8. ExistsBijection(Slots, ReadsOf(n))
  <2>1. f \in [Slots -> ReadsOf(n)]
    BY <1>6
  <2>2. \A i, j \in Slots : f[i] = f[j] => i = j
    BY <1>6
  <2>3. \A e \in ReadsOf(n) : \E i \in Slots : f[i] = e
    BY <1>5
  <2> HIDE DEF f, ins
  <2> QED
    BY <2>1, <2>2, <2>3 DEF ExistsBijection, Bijection, Injection, Surjection, IsInjective
<1>9. Cardinality(ReadsOf(n)) = Cardinality(Slots)
  BY <1>7, <1>8, FS_Bijection
<1>10. Cardinality(ReadsOf(n)) = Cardinality(Uses(n))
  BY <1>1 DEF Counted, OfKind
<1>11. Cardinality(Slots) = Cardinality(Uses(n))
  BY <1>9, <1>10
<1> QED
  BY <1>11 DEF Slots

\* If the layers of an NPU graph read its inputs over no more edges than it has inputs, the
\* merged node reads each input as often as the layers did: no input is lost in the merge.
THEOREM InputsRead == Spec => []NpuReadsItsInputs
<1>1. IInv /\ EdgeInv /\ CountInv => NpuReadsItsInputs
  <2> SUFFICES ASSUME IInv, EdgeInv, CountInv, Sorting, Merged,
                      TotalUses <= Len(g.nodes[Npu].ins), NEW n \in OfKind({"input"})
               PROVE  Cardinality({i \in DOMAIN g.nodes[Npu].ins :
                                     /\ g.nodes[Npu].ins[i] # 0
                                     /\ g.edges[g.nodes[Npu].ins[i]].from = n})
                        = Cardinality(Uses(n))
    BY DEF NpuReadsItsInputs, Sorting
  <2>1. n \in Nodes /\ g.nodes[n].kind = "input"
    BY DEF OfKind
  <2> QED
    BY <2>1, ReadOverSlots
<1> QED
  BY <1>1, Invariant, PTL

================================================================================
