------------------------- MODULE TransitionMemoryProofs -------------------------
(***************************************************************************)
(* Theorems about TransitionMemory, for every network and any sizes.       *)
(* Tasks use the number of their node as the time at which they run; two   *)
(* tensors may share memory if all uses of one come before all uses of     *)
(* the other.                                                              *)
(***************************************************************************)
EXTENDS TransitionMemory, FiniteSetTheorems, SequenceTheorems, NaturalsInduction,
        WellFoundedInduction, TLAPS

--------------------------------------------------------------------------------
(* The inductive invariant *)

NetInv == net \in Networks /\ manager \in {"offsets", "blobs"}

\* The places of a tensor in its parent.
Extent(n) == depth[n] .. depth[n] + net[n].size - 1

\* Parts have the parent of the whole, which they fill; tensors that are not put together do not
\* overlap.
ForestInv ==
    /\ \A n \in Nodes : depth[n] + net[n].size <= net[parent[n]].size
    /\ \A n \in Nodes : (\A c \in joined : n \notin Ins(c)) => parent[n] = n
    /\ \A c \in joined : /\ \A n \in Ins(c) : parent[n] = parent[c]
                         /\ Extent(c) = UNION {Extent(n) : n \in Ins(c)}
    /\ \A m, n \in Nodes \ joined : m # n /\ parent[m] = parent[n] => Extent(m) \cap Extent(n) = {}
    /\ phase = "mutating" => \A c \in joined : task <= c
    /\ ~JoinsUnmanaged => \A c \in joined : Ins(c) \cap Unmanaged = {}

\* Where the loops can be.
LoopInv ==
    /\ phase = "mutating" \/ task = 0 \/ task \in Tasks
    /\ phase = "placing" => stage = "release"
    /\ phase \notin {"lifetimes", "placing"} => stage = "done"
    /\ phase \in {"lifetimes", "placing"} /\ stage # "done" => task \in Tasks

\* configure_handle_lifetime has finished.
Configured == phase \notin {"mutating", "lifetimes", "placing"}

\* Some task has written a part of the tensor, as far as the loop has come.
Acquired(n) == \/ Configured
               \/ /\ phase # "mutating"
                  /\ \/ n < task
                     \/ n = task /\ (stage \in {"release", "done"} \/ (stage = "output" /\ slot > 1))
Begun(h) == \E n \in Tasks : parent[n] = h /\ Acquired(n)

\* The reads of a tensor that have not been counted off.
Ahead(r) == /\ ~Configured
            /\ \/ r[1] > task
               \/ r[1] = task /\ stage \in {"inputs", "output"}
               \/ r[1] = task /\ stage = "release" /\ r[2] >= slot
Open(h) == {r \in Reads(h) : Ahead(r)}

Over(h) == h \in Nodes \ ConstHandles /\ Begun(h) /\ Open(h) = {}

\* The tasks that write or read a tensor.
Uses(h) == {k \in Tasks : parent[k] = h \/ \E i \in Ins(k) : parent[i] = h}

Apart(g, h) == \/ \A a \in Uses(g), b \in Uses(h) : a < b
               \/ \A a \in Uses(g), b \in Uses(h) : b < a

Members(h) == occupied[h].bound \cup {h}

\* tensors_in_flight counts the reads to come, of all tensors that have been written.
FlightInv ==
    /\ DOMAIN inFlight \subseteq Nodes \ ConstHandles
    /\ DOMAIN occupied = DOMAIN inFlight
    /\ \A h \in DOMAIN inFlight : Begun(h) /\ Open(h) # {} /\ inFlight[h] = Cardinality(Open(h))
    /\ \A h \in Nodes \ ConstHandles : Begun(h) /\ Open(h) # {} => h \in DOMAIN inFlight

\* What holds of the tensors S bound to a blob of a size: none is in use at the time of another.
Bound(S, size) ==
    /\ \A g \in S : Over(g) /\ net[g].size <= size /\ g \notin DOMAIN mappings
    /\ \A g, h \in S : g # h => Apart(g, h)

BlobInv ==
    /\ \A h \in DOMAIN occupied :
         /\ IsBlob(occupied[h])
         /\ h \notin DOMAIN mappings
         /\ Bound(occupied[h].bound \ {h}, occupied[h].size)
         /\ \A g \in occupied[h].bound \ {h} : Apart(g, h)
    /\ \A k \in DOMAIN free : Bound(free[k].bound, free[k].size)
    /\ \A g, h \in DOMAIN occupied : g # h => Members(g) \cap Members(h) = {}
    /\ \A h \in DOMAIN occupied, k \in DOMAIN free : Members(h) \cap free[k].bound = {}
    /\ \A k, l \in DOMAIN free : k # l => free[k].bound \cap free[l].bound = {}

\* Tensors that have not been given a place yet.
Active == (UNION {Members(h) : h \in DOMAIN occupied}) \cup (UNION {free[k].bound : k \in DOMAIN free})

\* Every tensor written so far is in a blob or has a place.
CompleteInv ==
    /\ \A h \in Nodes \ ConstHandles : Begun(h) => h \in Active \cup DOMAIN mappings
    /\ phase = "placing" => DOMAIN occupied = {}
    /\ phase # "placing" /\ DOMAIN occupied = {} => free = <<>>
    /\ phase \notin {"lifetimes", "placing"} => DOMAIN occupied = {}

\* A tensor of the update under way whose place lies before those that are still to be given.
Below(h) ==
    /\ phase = "placing"
    /\ IF manager = "offsets" THEN mappings[h][2] + net[h].size <= cursor.offset
       ELSE mappings[h][1] < cursor.index

Beside(g, h) == \/ mappings[g][1] # mappings[h][1]
                \/ mappings[g][2] + net[g].size <= mappings[h][2]
                \/ mappings[h][2] + net[h].size <= mappings[g][2]

PlaceInv ==
    /\ cursor.index \in Nat \ {0} /\ cursor.offset \in Nat /\ cursor.needed \in Nat
    /\ cursor.offset <= cursor.needed
    /\ \A h \in DOMAIN mappings :
         /\ Over(h)
         /\ mappings[h] \in (Nat \ {0}) \X Nat
         /\ manager = "offsets" => mappings[h][1] = 1
         /\ \/ /\ mappings[h][1] \in DOMAIN areas
               /\ mappings[h][2] + net[h].size <= areas[mappings[h][1]]
            \/ manager = "offsets" /\ Below(h)
    /\ \A h \in DOMAIN mappings, g \in Active : Apart(h, g) \/ Below(h)
    /\ \A g, h \in DOMAIN mappings : g # h => Apart(g, h) \/ Beside(g, h)

\* The blobs there are now.
BlobsNow == Len(free) + Cardinality(DOMAIN occupied) + (IF phase = "placing" THEN cursor.index - 1 ELSE 0)

FewInv ==
    /\ BlobsNow = 0 \/ \E k \in Tasks : BlobsNow <= Cardinality(LiveAt(k))
    /\ NumBlobs = 0 \/ (phase # "mutating" /\ \E k \in Tasks : NumBlobs <= Cardinality(LiveAt(k)))

\* The memory of a node's tensor holds what the node computed from this frame.
Direct(n) == Accessible(n) /\ \A c \in Cells(n) : c \in DOMAIN memory /\ memory[c] = <<n, frame>>

\* While a tensor is in use, nothing else is written into its memory.
FrameInv ==
    /\ phase \in {"received", "running", "sending"} => \A n \in OfKind("input") : Direct(n)
    /\ phase = "running" => (DOMAIN mappings # {} => acquired)
    /\ phase \in {"running", "sending"} =>
         \A n \in Tasks :
             n <= task /\ (parent[n] \in ConstHandles
                           \/ (phase = "running" /\ \E k \in Uses(parent[n]) : task <= k)) => Direct(n)
    /\ phase = "sending" => Remaining = {}

--------------------------------------------------------------------------------
(* Numbers and networks *)

LEMMA Least ==
    ASSUME NEW S \in SUBSET Nat, S # {}
    PROVE  \E m \in S : \A y \in S : m <= y
<1>. DEFINE Less == {p \in Nat \X Nat : p[1] < p[2]}
<1>1. IsWellFoundedOn(Less, Nat)
  BY NatLessThanWellFounded DEF OpToRel
<1>2. PICK m \in S : \A y \in S : <<y, m>> \notin Less
  <2>. HIDE DEF Less
  <2>. QED
    BY <1>1, WFMin
<1>3. ASSUME NEW y \in S PROVE m <= y
  <2>1. <<y, m>> \notin Less /\ y \in Nat /\ m \in Nat
    BY <1>2
  <2>. QED
    BY <2>1
<1>. QED
  BY <1>3

LEMMA Greatest ==
    ASSUME NEW N \in Nat, NEW S \in SUBSET (0 .. N), S # {}
    PROVE  \E m \in S : \A y \in S : y <= m
<1>. DEFINE Gaps == {N - x : x \in S}
<1>1. \A x \in S : x \in Nat /\ N - x \in Nat
  OBVIOUS
<1>2. Gaps \in SUBSET Nat /\ Gaps # {}
  BY <1>1
<1>3. PICK g \in Gaps : \A y \in Gaps : g <= y
  BY <1>2, Least
<1>4. PICK m \in S : g = N - m
  BY <1>3
<1>5. ASSUME NEW y \in S PROVE y <= m
  <2>1. N - y \in Gaps
    OBVIOUS
  <2>2. N - m <= N - y
    BY <1>3, <1>4, <2>1
  <2>. QED
    BY <1>1, <2>2
<1>. QED
  BY <1>5

LEMMA MinIs ==
    ASSUME NEW S \in SUBSET Nat, S # {}
    PROVE  Min(S) \in S /\ \A y \in S : Min(S) <= y
BY Least DEF Min

LEMMA MaxIs ==
    ASSUME NEW N \in Nat, NEW S \in SUBSET (0 .. N), S # {}
    PROVE  Max(S) \in S /\ \A y \in S : y <= Max(S)
<1>1. \E m \in S : \A y \in S : m >= y
  BY Greatest
<1>. QED
  BY <1>1 DEF Max

\* What NetworksAssumption says of the graph.
LEMMA NetFacts ==
    ASSUME NetInv
    PROVE  /\ Len(net) \in Nat /\ Nodes = 1 .. Len(net)
           /\ \A n \in Nodes :
                /\ net[n].kind \in {"input", "layer", "concat"}
                /\ net[n].size \in Nat /\ net[n].size > 0
                /\ Len(net[n].ins) \in Nat /\ DOMAIN net[n].ins = 1 .. Len(net[n].ins)
                /\ \A j \in DOMAIN net[n].ins : net[n].ins[j] \in Ins(n)
                /\ \A i \in Ins(n) : \E j \in DOMAIN net[n].ins : net[n].ins[j] = i
                /\ \A i \in Ins(n) : i \in Nodes /\ i \in Nat /\ i < n
                /\ net[n].kind = "input" <=> Ins(n) = {}
           /\ \A n \in Nodes \ Unmanaged : \E m \in Nodes : n \in Ins(m)
           /\ \A c \in OfKind("concat") :
                Begins(net, c) # {} /\ \A i, j \in DOMAIN net[c].ins : net[c].ins[i] = net[c].ins[j] => i = j
           /\ \A c, d \in OfKind("concat") : Ins(c) \cap Ins(d) # {} => c = d
<1>1. WellFormed(net)
  BY NetworksAssumption DEF NetInv
<1>2. Len(net) \in Nat /\ Nodes = 1 .. Len(net)
  BY <1>1 DEF WellFormed, Nodes
<1>3. ASSUME NEW n \in Nodes
      PROVE  /\ net[n].kind \in {"input", "layer", "concat"}
             /\ net[n].size \in Nat /\ net[n].size > 0
             /\ Len(net[n].ins) \in Nat /\ DOMAIN net[n].ins = 1 .. Len(net[n].ins)
             /\ \A j \in DOMAIN net[n].ins : net[n].ins[j] \in Ins(n)
             /\ \A i \in Ins(n) : \E j \in DOMAIN net[n].ins : net[n].ins[j] = i
             /\ \A i \in Ins(n) : i \in Nodes /\ i \in Nat /\ i < n
             /\ net[n].kind = "input" <=> Ins(n) = {}
  <2>1. IsNode(net[n]) /\ ToSet(net[n].ins) \subseteq 1 .. n - 1
    BY <1>1 DEF WellFormed, Nodes
  <2>2. net[n].kind = "input" <=> net[n].ins = <<>>
    BY <1>1 DEF WellFormed, Nodes
  <2>3. net[n].ins \in Seq(Nat)
    BY <2>1 DEF IsNode
  <2>4. Len(net[n].ins) \in Nat /\ DOMAIN net[n].ins = 1 .. Len(net[n].ins)
    BY <2>3
  <2>5. Ins(n) = {net[n].ins[j] : j \in DOMAIN net[n].ins}
    BY DEF Ins, ToSet
  <2>6. net[n].ins = <<>> <=> Len(net[n].ins) = 0
    BY <2>3, EmptySeq
  <2>7. net[n].ins = <<>> <=> Ins(n) = {}
    <3>. DEFINE ins == net[n].ins
    <3>1. Len(ins) = 0 => DOMAIN ins = {}
      BY <2>4
    <3>2. Len(ins) # 0 => 1 \in DOMAIN ins
      BY <2>4
    <3>3. DOMAIN ins = {} <=> Ins(n) = {}
      BY <2>5
    <3>. QED
      BY <2>6, <3>1, <3>2, <3>3
  <2>8. \A i \in Ins(n) : i \in Nodes /\ i \in Nat /\ i < n
    BY <1>2, <2>1 DEF Ins
  <2>9. /\ \A j \in DOMAIN net[n].ins : net[n].ins[j] \in Ins(n)
        /\ \A i \in Ins(n) : \E j \in DOMAIN net[n].ins : net[n].ins[j] = i
    BY <2>5
  <2>. QED
    BY <2>1, <2>2, <2>4, <2>7, <2>8, <2>9 DEF IsNode
<1>4. ASSUME NEW n \in Nodes \ Unmanaged PROVE \E m \in Nodes : n \in Ins(m)
  BY <1>1 DEF WellFormed, Nodes, Unmanaged, Ins
<1>5. ASSUME NEW c \in OfKind("concat")
      PROVE  Begins(net, c) # {} /\ \A i, j \in DOMAIN net[c].ins : net[c].ins[i] = net[c].ins[j] => i = j
  BY <1>1 DEF WellFormed, Nodes, OfKind, IsInjective
<1>6. ASSUME NEW c \in OfKind("concat"), NEW d \in OfKind("concat"), Ins(c) \cap Ins(d) # {}
      PROVE  c = d
  BY <1>1, <1>6 DEF WellFormed, Nodes, OfKind, Ins
<1>. QED
  BY <1>2, <1>3, <1>4, <1>5, <1>6

\* The parts of a concatenation follow each other and fill it.
LEMMA Consecutive ==
    ASSUME NetInv, NEW c \in OfKind("concat"), NEW at \in Begins(net, c)
    PROVE  /\ \A i \in DOMAIN net[c].ins :
                at[i] \in Nat /\ at[i] + net[net[c].ins[i]].size <= net[c].size
           /\ \A i, j \in DOMAIN net[c].ins :
                i < j => at[i] + net[net[c].ins[i]].size <= at[j]
           /\ \A x \in 0 .. net[c].size - 1 : \E i \in DOMAIN net[c].ins :
                at[i] <= x /\ x < at[i] + net[net[c].ins[i]].size
<1>. DEFINE ins == net[c].ins
            len == Len(ins)
<1>1. c \in Nodes /\ len \in Nat /\ DOMAIN ins = 1 .. len /\ net[c].size \in Nat
  BY NetFacts DEF OfKind
<1>2. \A i \in 1 .. len : net[ins[i]].size \in Nat
  BY <1>1, NetFacts
<1>3. /\ \A i \in 1 .. len + 1 : at[i] \in Nat /\ at[i] <= net[c].size
      /\ at[1] = 0 /\ at[len + 1] = net[c].size
      /\ \A i \in 1 .. len : at[i + 1] = at[i] + net[ins[i]].size
  BY <1>1 DEF Begins
<1>. HIDE DEF len, ins
<1>4. ASSUME NEW i \in 1 .. len PROVE at[i] \in Nat /\ at[i] + net[ins[i]].size <= net[c].size
  <2>1. i + 1 \in 1 .. len + 1 /\ i \in 1 .. len + 1
    BY <1>1
  <2>. QED
    BY <1>3, <2>1
<1>5. ASSUME NEW i \in 1 .. len, NEW j \in 1 .. len, i < j
      PROVE  at[i] + net[ins[i]].size <= at[j]
  <2>. DEFINE Early == {k \in 1 .. len : i < k /\ at[k] < at[i + 1]}
  <2>1. SUFFICES Early = {}
    <3>1. j \notin Early
      BY <2>1
    <3>2. at[j] \in Nat /\ at[i + 1] \in Nat
      BY <1>1, <1>3
    <3>. QED
      BY <1>1, <1>3, <1>5, <3>1, <3>2
  <2>2. SUFFICES ASSUME Early # {} PROVE FALSE
    OBVIOUS
  <2>3. Early \in SUBSET Nat
    OBVIOUS
  <2>4. PICK k \in Early : \A y \in Early : k <= y
    BY <2>2, <2>3, Least
  <2>5. k - 1 \notin Early
    BY <1>1, <2>3, <2>4
  <2>6. k # i + 1
    BY <1>1, <1>3, <2>4
  <2>7. k - 1 \in 1 .. len /\ i < k - 1
    BY <1>1, <2>4, <2>6
  <2>8. at[k - 1] >= at[i + 1]
    BY <1>1, <1>3, <2>5, <2>7
  <2>9. at[k] = at[k - 1] + net[ins[k - 1]].size
    BY <1>1, <1>3, <2>4, <2>7
  <2>10. net[ins[k - 1]].size \in Nat
    BY <1>2, <2>7
  <2>11. k \in 1 .. len + 1 /\ k - 1 \in 1 .. len + 1 /\ i + 1 \in 1 .. len + 1
    BY <1>1, <2>4, <2>7
  <2>12. at[k] \in Nat /\ at[k - 1] \in Nat /\ at[i + 1] \in Nat
    BY <1>3, <2>11
  <2>13. at[k] < at[i + 1]
    BY <2>4
  <2>. QED
    BY <2>8, <2>9, <2>10, <2>12, <2>13
<1>6. ASSUME NEW x \in 0 .. net[c].size - 1
      PROVE  \E i \in 1 .. len : at[i] <= x /\ x < at[i] + net[ins[i]].size
  <2>. DEFINE Later == {k \in 1 .. len + 1 : x < at[k]}
  <2>1. len + 1 \in Later
    BY <1>1, <1>3
  <2>2. Later \in SUBSET Nat
    BY <1>1
  <2>3. PICK k \in Later : \A y \in Later : k <= y
    BY <2>1, <2>2, Least
  <2>4. k # 1
    BY <1>3, <2>3
  <2>5. k - 1 \in 1 .. len /\ k - 1 \notin Later
    BY <1>1, <2>2, <2>3, <2>4
  <2>6. k - 1 \in 1 .. len + 1
    BY <1>1, <2>5
  <2>7. at[k - 1] <= x
    BY <1>1, <1>3, <2>5, <2>6
  <2>8. at[k] = at[k - 1] + net[ins[k - 1]].size
    BY <1>1, <1>3, <2>3, <2>5
  <2>. QED
    BY <2>3, <2>5, <2>7, <2>8
<1>. QED
  BY <1>1, <1>4, <1>5, <1>6 DEF ins, len

LEMMA NextConcatIs ==
    ASSUME NetInv, TypeOK, NextConcat
    PROVE  task' \in OfKind("concat") /\ task' \in Nodes /\ task' < task
<1>. DEFINE S == {c \in OfKind("concat") : c < task}
<1>1. S \in SUBSET (0 .. Len(net)) /\ Len(net) \in Nat
  BY NetFacts DEF OfKind
<1>2. S # {} /\ task' = Max(S)
  BY DEF NextConcat
<1>3. task' \in S
  BY <1>1, <1>2, MaxIs
<1>. QED
  BY <1>3 DEF OfKind

\* Where the parts lie in the concatenation.
LEMMA Laid ==
    ASSUME NetInv, NEW c \in OfKind("concat"), NEW at \in Begins(net, c)
    PROVE  \E start \in [Ins(c) -> Nat] :
             /\ \A n \in Ins(c) :
                  /\ start[n] = at[CHOOSE i \in DOMAIN net[c].ins : net[c].ins[i] = n]
                  /\ start[n] + net[n].size <= net[c].size
             /\ \A m, n \in Ins(c) : m # n =>
                  start[m] + net[m].size <= start[n] \/ start[n] + net[n].size <= start[m]
             /\ \A x \in 0 .. net[c].size - 1 : \E n \in Ins(c) :
                  start[n] <= x /\ x < start[n] + net[n].size
<1>. DEFINE ins == net[c].ins
            Spot(n) == CHOOSE i \in DOMAIN ins : ins[i] = n
            start == [n \in Ins(c) |-> at[Spot(n)]]
<1>1. /\ DOMAIN ins \subseteq Nat
      /\ \A j \in DOMAIN ins : ins[j] \in Ins(c)
      /\ \A i \in Ins(c) : \E j \in DOMAIN ins : ins[j] = i
      /\ \A i, j \in DOMAIN ins : ins[i] = ins[j] => i = j
  BY NetFacts DEF OfKind
<1>2. /\ \A i \in DOMAIN ins : at[i] \in Nat /\ at[i] + net[ins[i]].size <= net[c].size
      /\ \A i, j \in DOMAIN ins : i < j => at[i] + net[ins[i]].size <= at[j]
      /\ \A x \in 0 .. net[c].size - 1 : \E i \in DOMAIN ins :
           at[i] <= x /\ x < at[i] + net[ins[i]].size
  BY Consecutive
<1>3. \A n \in Ins(c) : start[n] = at[Spot(n)]
  OBVIOUS
<1>4. \A n \in Ins(c) : Spot(n) \in DOMAIN ins /\ ins[Spot(n)] = n
  BY <1>1
<1>. HIDE DEF ins, Spot
<1>5. start \in [Ins(c) -> Nat] /\ \A n \in Ins(c) : start[n] + net[n].size <= net[c].size
  BY <1>2, <1>4
<1>6. ASSUME NEW m \in Ins(c), NEW n \in Ins(c), m # n
      PROVE  start[m] + net[m].size <= start[n] \/ start[n] + net[n].size <= start[m]
  <2>1. Spot(m) # Spot(n) /\ Spot(m) \in Nat /\ Spot(n) \in Nat
    BY <1>1, <1>4, <1>6
  <2>2. Spot(m) < Spot(n) \/ Spot(n) < Spot(m)
    BY <2>1
  <2>. QED
    BY <1>2, <1>3, <1>4, <2>2
<1>7. ASSUME NEW x \in 0 .. net[c].size - 1
      PROVE  \E n \in Ins(c) : start[n] <= x /\ x < start[n] + net[n].size
  <2>1. PICK i \in DOMAIN ins : at[i] <= x /\ x < at[i] + net[ins[i]].size
    BY <1>2
  <2>2. ins[i] \in Ins(c) /\ Spot(ins[i]) = i
    BY <1>1, <1>4
  <2>. QED
    BY <1>3, <2>1, <2>2
<1>. QED
  BY <1>3, <1>5, <1>6, <1>7 DEF Spot, ins

\* A join puts the parts side by side into the whole.
LEMMA JoinForest ==
    ASSUME NetInv, TypeOK, ForestInv, JoinConcat
    PROVE  ForestInv'
<1>1. PICK c \in OfKind("concat") : c = task' /\ c \in Nodes /\ c < task
  BY NextConcatIs DEF JoinConcat
<1>2. PICK at \in Begins(net, c) :
        depth' = [n \in Nodes |->
                    IF n \in Ins(c) THEN depth[c] + at[CHOOSE i \in DOMAIN net[c].ins : net[c].ins[i] = n]
                    ELSE depth[n]]
  BY <1>1 DEF JoinConcat
<1>3. /\ JoinsUnmanaged \/ Ins(c) \cap Unmanaged = {}
      /\ parent' = [n \in Nodes |-> IF n \in Ins(c) THEN parent[c] ELSE parent[n]]
      /\ joined' = joined \cup {c} /\ phase = "mutating" /\ phase' = phase /\ net' = net
  BY <1>1 DEF JoinConcat, NextConcat, graph
<1>4. /\ \A n \in Nodes : n \in Nat /\ net[n].size \in Nat /\ net[n].size > 0
      /\ \A n \in Nodes : parent[n] \in Nodes /\ depth[n] \in Nat
      /\ \A n \in Nodes : \A m \in Ins(n) : m \in Nodes /\ m < n
      /\ joined \subseteq OfKind("concat") /\ joined \subseteq Nodes
  BY NetFacts DEF TypeOK, OfKind
<1>5. PICK start \in [Ins(c) -> Nat] :
             /\ \A n \in Ins(c) :
                  /\ start[n] = at[CHOOSE i \in DOMAIN net[c].ins : net[c].ins[i] = n]
                  /\ start[n] + net[n].size <= net[c].size
             /\ \A m, n \in Ins(c) : m # n =>
                  start[m] + net[m].size <= start[n] \/ start[n] + net[n].size <= start[m]
             /\ \A x \in 0 .. net[c].size - 1 : \E n \in Ins(c) :
                  start[n] <= x /\ x < start[n] + net[n].size
  BY Laid
<1>8. \A n \in Nodes : depth'[n] = IF n \in Ins(c) THEN depth[c] + start[n] ELSE depth[n]
  BY <1>2, <1>5
<1>9. \A n \in Nodes : parent'[n] = IF n \in Ins(c) THEN parent[c] ELSE parent[n]
  BY <1>3
<1>10. c \notin Ins(c) /\ parent'[c] = parent[c] /\ depth'[c] = depth[c]
  BY <1>1, <1>4, <1>8, <1>9
<1>11. c \notin joined /\ \A d \in joined : task <= d /\ d # c /\ d \notin Ins(c)
  <2>1. task \in Int /\ c \in Int
    BY <1>1, <1>4 DEF TypeOK
  <2>2. ASSUME NEW d \in joined PROVE task <= d /\ d # c /\ d \notin Ins(c)
    <3>1. task <= d /\ d \in Int
      BY <1>3, <1>4 DEF ForestInv
    <3>2. d # c
      BY <1>1, <2>1, <3>1
    <3>3. ~(d < c)
      BY <1>1, <2>1, <3>1
    <3>. QED
      BY <1>1, <1>4, <3>1, <3>2, <3>3
  <2>. QED
    BY <1>1, <2>1, <2>2
<1>12. ASSUME NEW n \in Nodes
       PROVE  depth'[n] + net[n].size <= net[parent'[n]].size
  <2>1. depth[n] + net[n].size <= net[parent[n]].size /\ depth[c] + net[c].size <= net[parent[c]].size
    BY <1>1, <1>4 DEF ForestInv
  <2>2. CASE n \in Ins(c)
    <3>1. depth'[n] = depth[c] + start[n] /\ parent'[n] = parent[c]
      BY <1>8, <1>9, <2>2
    <3>2. start[n] \in Nat /\ start[n] + net[n].size <= net[c].size
      BY <1>5, <2>2
    <3>3. /\ depth[c] \in Nat /\ net[c].size \in Nat /\ net[n].size \in Nat
          /\ net[parent[c]].size \in Nat
      BY <1>1, <1>4
    <3>4. depth[c] + start[n] + net[n].size <= net[parent[c]].size
      BY <2>1, <3>2, <3>3
    <3>. QED
      BY <3>1, <3>4
  <2>3. CASE n \notin Ins(c)
    BY <1>8, <1>9, <2>1, <2>3
  <2>. QED
    BY <2>2, <2>3
<1>13. ASSUME NEW n \in Nodes, \A d \in joined' : n \notin Ins(d)'
       PROVE  parent'[n] = n
  <2>1. n \notin Ins(c) /\ \A d \in joined : n \notin Ins(d)
    BY <1>3, <1>13 DEF Ins
  <2>. QED
    BY <1>9, <2>1 DEF ForestInv
<1>14. ASSUME NEW d \in joined
       PROVE  /\ d \notin Ins(c) /\ \A n \in Ins(d) : n \notin Ins(c)
  BY <1>1, <1>4, <1>11, NetFacts
<1>15. ASSUME NEW d \in joined'
       PROVE  /\ \A n \in Ins(d) : parent'[n] = parent'[d]
              /\ Extent(d)' = UNION {Extent(n)' : n \in Ins(d)}
  <2>1. CASE d = c
    <3>1. \A n \in Ins(c) : parent'[n] = parent'[c]
      BY <1>4, <1>1, <1>9, <1>10
    <3>2. ASSUME NEW n \in Ins(c), NEW x \in Extent(n)' PROVE x \in Extent(c)'
      <4>1. depth'[n] = depth[c] + start[n] /\ net[n].size \in Nat /\ net[c].size \in Nat /\ depth[c] \in Nat
        BY <1>1, <1>4, <1>8
      <4>2. start[n] \in Nat /\ start[n] + net[n].size <= net[c].size
        BY <1>5
      <4>3. x \in depth[c] + start[n] .. depth[c] + start[n] + net[n].size - 1
        BY <1>3, <4>1 DEF Extent
      <4>4. x \in depth[c] .. depth[c] + net[c].size - 1
        BY <4>1, <4>2, <4>3
      <4>. QED
        BY <1>3, <1>10, <4>4 DEF Extent
    <3>3. ASSUME NEW x \in Extent(c)' PROVE \E n \in Ins(c) : x \in Extent(n)'
      <4>1. x \in depth[c] .. depth[c] + net[c].size - 1 /\ depth[c] \in Nat /\ net[c].size \in Nat
        BY <1>1, <1>3, <1>4, <1>10 DEF Extent
      <4>2. x - depth[c] \in 0 .. net[c].size - 1
        BY <4>1
      <4>3. PICK n \in Ins(c) : start[n] <= x - depth[c] /\ x - depth[c] < start[n] + net[n].size
        BY <1>5, <4>2
      <4>4. depth'[n] = depth[c] + start[n] /\ net[n].size \in Nat /\ start[n] \in Nat
        BY <1>1, <1>4, <1>5, <1>8
      <4>5. x \in depth'[n] .. depth'[n] + net[n].size - 1
        BY <4>1, <4>3, <4>4
      <4>. QED
        BY <1>3, <4>5 DEF Extent
    <3>. QED
      BY <2>1, <3>1, <3>2, <3>3
  <2>2. CASE d \in joined
    <3>1. d \in Nodes /\ Ins(d) \subseteq Nodes
      BY <1>4, <2>2
    <3>2. \A n \in Ins(d) \cup {d} : parent'[n] = parent[n] /\ depth'[n] = depth[n]
      BY <1>8, <1>9, <1>14, <2>2, <3>1
    <3>3. \A n \in Ins(d) \cup {d} : Extent(n)' = Extent(n)
      BY <1>3, <3>2 DEF Extent
    <3>4. /\ \A n \in Ins(d) : parent[n] = parent[d]
          /\ Extent(d) = UNION {Extent(n) : n \in Ins(d)}
      BY <2>2 DEF ForestInv
    <3>. QED
      BY <3>2, <3>3, <3>4
  <2>. QED
    BY <1>3, <2>1, <2>2
<1>16. ASSUME NEW n \in Ins(c) PROVE Extent(n)' \subseteq Extent(c)
  <2>1. depth'[n] = depth[c] + start[n] /\ net[n].size \in Nat /\ net[c].size \in Nat /\ depth[c] \in Nat
    BY <1>1, <1>4, <1>8
  <2>. QED
    BY <1>3, <1>5, <2>1 DEF Extent
<1>17. ASSUME NEW n \in Nodes \ Ins(c) PROVE Extent(n)' = Extent(n)
  BY <1>3, <1>8 DEF Extent
<1>18. ASSUME NEW m \in Nodes \ joined', NEW n \in Nodes \ joined', m # n, parent'[m] = parent'[n]
       PROVE  Extent(m)' \cap Extent(n)' = {}
  <2>1. m \notin joined /\ n \notin joined /\ m # c /\ n # c
    BY <1>3
  <2>2. \A k \in Nodes \ joined : k # c /\ parent[k] = parent[c] => Extent(k) \cap Extent(c) = {}
    BY <1>1, <1>11 DEF ForestInv
  <2>3. CASE m \in Ins(c) /\ n \in Ins(c)
    <3>1. /\ depth'[m] = depth[c] + start[m] /\ depth'[n] = depth[c] + start[n]
          /\ net[m].size \in Nat /\ net[n].size \in Nat /\ depth[c] \in Nat
      BY <1>1, <1>4, <1>8, <2>3
    <3>2. start[m] \in Nat /\ start[n] \in Nat
      BY <1>5, <2>3
    <3>3. start[m] + net[m].size <= start[n] \/ start[n] + net[n].size <= start[m]
      BY <1>5, <1>18, <2>3
    <3>. QED
      BY <1>3, <3>1, <3>2, <3>3 DEF Extent
  <2>4. CASE m \in Ins(c) /\ n \notin Ins(c)
    <3>1. parent[n] = parent[c]
      BY <1>9, <1>18, <2>4
    <3>. QED
      BY <1>16, <1>17, <2>1, <2>2, <2>4, <3>1
  <2>5. CASE m \notin Ins(c) /\ n \in Ins(c)
    <3>1. parent[m] = parent[c]
      BY <1>9, <1>18, <2>5
    <3>. QED
      BY <1>16, <1>17, <2>1, <2>2, <2>5, <3>1
  <2>6. CASE m \notin Ins(c) /\ n \notin Ins(c)
    BY <1>9, <1>17, <1>18, <2>1, <2>6 DEF ForestInv
  <2>. QED
    BY <2>3, <2>4, <2>5, <2>6
<1>19. \A d \in joined' : task' <= d
  <2>1. c \in Int /\ task \in Int /\ \A d \in joined : d \in Int
    BY <1>1, <1>4 DEF TypeOK
  <2>. QED
    BY <1>1, <1>3, <1>11, <2>1
<1>20. ~JoinsUnmanaged => \A d \in joined' : Ins(d)' \cap Unmanaged' = {}
  <2>1. Unmanaged' = Unmanaged /\ \A d : Ins(d)' = Ins(d)
    BY <1>3 DEF Unmanaged, Ins, Nodes
  <2>. QED
    BY <1>3, <2>1 DEF ForestInv
<1>21. Nodes' = Nodes /\ \A d : Ins(d)' = Ins(d)
  BY <1>3 DEF Nodes, Ins
<1>22. \A n \in Nodes' : depth'[n] + net'[n].size <= net'[parent'[n]].size
  BY <1>3, <1>12, <1>21
<1>23. \A n \in Nodes' : (\A d \in joined' : n \notin Ins(d)') => parent'[n] = n
  BY <1>13, <1>21
<1>24. \A d \in joined' : /\ \A n \in Ins(d)' : parent'[n] = parent'[d]
                          /\ Extent(d)' = UNION {Extent(n)' : n \in Ins(d)'}
  BY <1>15, <1>21
<1>25. \A m, n \in Nodes' \ joined' : m # n /\ parent'[m] = parent'[n] => Extent(m)' \cap Extent(n)' = {}
  BY <1>18, <1>21
<1>. QED
  BY <1>19, <1>20, <1>22, <1>23, <1>24, <1>25 DEF ForestInv
\* Every other step leaves the graph and the handles as they are.
LEMMA Same ==
    ASSUME UNCHANGED <<graph, handles>>
    PROVE  /\ net' = net /\ manager' = manager /\ joined' = joined /\ parent' = parent /\ depth' = depth
           /\ Nodes' = Nodes /\ Tasks' = Tasks /\ Unmanaged' = Unmanaged /\ ConstHandles' = ConstHandles
           /\ Allocated' = Allocated /\ Managed' = Managed
           /\ \A n : Ins(n)' = Ins(n) /\ Extent(n)' = Extent(n) /\ InputHandles(n)' = InputHandles(n)
           /\ \A kind : OfKind(kind)' = OfKind(kind)
           /\ \A h : Reads(h)' = Reads(h) /\ Uses(h)' = Uses(h)
           /\ \A g, h : Apart(g, h)' = Apart(g, h)
           /\ \A k : LiveAt(k)' = LiveAt(k)
<1>1. net' = net /\ manager' = manager /\ joined' = joined /\ parent' = parent /\ depth' = depth
  BY DEF graph, handles
<1>2. /\ Nodes' = Nodes /\ \A n : Ins(n)' = Ins(n) /\ Extent(n)' = Extent(n)
      /\ \A kind : OfKind(kind)' = OfKind(kind)
      /\ Unmanaged' = Unmanaged
      /\ \A n : InputHandles(n)' = InputHandles(n)
  BY <1>1 DEF Nodes, Ins, Extent, OfKind, Unmanaged, InputHandles
<1>3. ConstHandles' = ConstHandles /\ Allocated' = Allocated /\ Tasks' = Tasks
  BY <1>1, <1>2 DEF ConstHandles, Allocated, Tasks
<1>4. Managed' = Managed /\ \A h : Reads(h)' = Reads(h) /\ Uses(h)' = Uses(h)
  BY <1>1, <1>2, <1>3 DEF Managed, Reads, Uses
<1>5. \A g, h : Apart(g, h)' = Apart(g, h)
  BY <1>4 DEF Apart
<1>6. \A k : LiveAt(k)' = LiveAt(k)
  BY <1>1, <1>2, <1>3, <1>4 DEF LiveAt
<1>. QED
  BY <1>1, <1>2, <1>3, <1>4, <1>5, <1>6

LEMMA ForestKept ==
    ASSUME NetInv, TypeOK, ForestInv, UNCHANGED <<graph, handles>>,
           phase' = "mutating" => phase = "mutating" /\ task' \in Nat /\ task' <= task
    PROVE  ForestInv'
<1>1. \A c \in joined : c \in Nat
  BY NetFacts DEF TypeOK, OfKind
<1>2. task \in Nat
  BY NetFacts DEF TypeOK
<1>3. phase' = "mutating" => \A c \in joined' : task' <= c
  <2>1. \A c \in joined' : c \in joined
    BY Same
  <2>2. phase = "mutating" => \A c \in joined : task <= c
    BY DEF ForestInv
  <2>. QED
    BY <1>1, <1>2, <2>1, <2>2
<1>4. /\ \A n \in Nodes : depth[n] + net[n].size <= net[parent[n]].size
      /\ \A n \in Nodes : (\A c \in joined : n \notin Ins(c)) => parent[n] = n
      /\ \A c \in joined : /\ \A n \in Ins(c) : parent[n] = parent[c]
                           /\ Extent(c) = UNION {Extent(n) : n \in Ins(c)}
      /\ \A m, n \in Nodes \ joined : m # n /\ parent[m] = parent[n] => Extent(m) \cap Extent(n) = {}
      /\ ~JoinsUnmanaged => \A c \in joined : Ins(c) \cap Unmanaged = {}
  BY DEF ForestInv
<1>. QED
  BY <1>3, <1>4, Same DEF ForestInv

\* The first node that writes a part of a tensor is no concatenation in place.
LEMMA Leaf ==
    ASSUME NetInv, TypeOK, ForestInv, NEW m \in Nodes
    PROVE  \E n \in Nodes \ joined : n <= m /\ parent[n] = parent[m]
<1>. DEFINE S == {n \in Nodes : parent[n] = parent[m]}
<1>1. S \in SUBSET Nat /\ m \in S
  BY NetFacts
<1>2. PICK n \in S : \A y \in S : n <= y
  BY <1>1, Least
<1>3. ASSUME n \in joined PROVE FALSE
  <2>1. n \in Nodes /\ net[n].kind = "concat"
    BY <1>3 DEF TypeOK, OfKind
  <2>2. PICK i \in Ins(n) : TRUE
    BY <2>1, NetFacts
  <2>3. i \in Nodes /\ i \in Nat /\ n \in Nat /\ i < n
    BY <2>1, NetFacts
  <2>4. parent[i] = parent[n]
    BY <1>3 DEF ForestInv
  <2>5. i \in S
    BY <2>3, <2>4
  <2>. QED
    BY <1>2, <2>3, <2>5
<1>. QED
  BY <1>1, <1>2, <1>3

LEMMA TasksFacts ==
    ASSUME NetInv
    PROVE  /\ Tasks \subseteq Nodes /\ Tasks \in SUBSET Nat /\ Nodes \in SUBSET Nat
           /\ Remaining \in SUBSET Nat
           /\ \A k \in Nodes \ joined : Ins(k) # {} => k \in Tasks
           /\ \A k \in Tasks : Ins(k) # {} /\ k \notin joined
           /\ \A n \in Nodes : parent[n] \notin ConstHandles => n \notin Unmanaged /\ net[n].kind # "input"
           /\ \A k \in Tasks : k \notin Remaining => ~(k > task)
<1>1. Nodes \in SUBSET Nat /\ \A n \in Nodes : net[n].kind = "input" <=> Ins(n) = {}
  BY NetFacts
<1>. QED
  BY <1>1 DEF Tasks, OfKind, Remaining, ConstHandles, Unmanaged

LEMMA ReadsAre ==
    ASSUME NEW h
    PROVE  /\ \A k, j : <<k, j>> \in Reads(h) <=>
                k \in Tasks /\ j \in DOMAIN net[k].ins /\ parent[net[k].ins[j]] = h
           /\ \A r \in Reads(h) : \E k \in Tasks : \E j \in DOMAIN net[k].ins :
                r = <<k, j>> /\ parent[net[k].ins[j]] = h
<1>1. \A k : \A i \in DOMAIN net[k].ins : InputHandles(k)[i] = parent[net[k].ins[i]]
  BY DEF InputHandles
<1>2. \A k, j : <<k, j>> \in Reads(h) <=>
                k \in Tasks /\ j \in DOMAIN net[k].ins /\ parent[net[k].ins[j]] = h
  BY <1>1 DEF Reads
<1>3. ASSUME NEW r \in Reads(h)
      PROVE  \E k \in Tasks : \E j \in DOMAIN net[k].ins : r = <<k, j>> /\ parent[net[k].ins[j]] = h
  <2>1. PICK k \in Tasks : r \in {k} \X {i \in DOMAIN net[k].ins : InputHandles(k)[i] = h}
    BY DEF Reads
  <2>2. PICK j \in {i \in DOMAIN net[k].ins : InputHandles(k)[i] = h} : r = <<k, j>>
    BY <2>1
  <2>. QED
    BY <1>1, <2>2
<1>. QED
  BY <1>2, <1>3

\* A tensor of the pool is written by a task before it is read.
LEMMA ReadAfterWritten ==
    ASSUME NetInv, TypeOK, ForestInv, NEW k \in Tasks, NEW i \in Ins(k), parent[i] \notin ConstHandles
    PROVE  \E n \in Tasks : n <= i /\ n < k /\ parent[n] = parent[i]
<1>1. i \in Nodes /\ i \in Nat /\ i < k /\ k \in Nat
  BY NetFacts, TasksFacts
<1>2. PICK n \in Nodes \ joined : n <= i /\ parent[n] = parent[i]
  BY <1>1, Leaf
<1>3. n \in Nat /\ n \in Tasks
  BY <1>2, NetFacts, TasksFacts
<1>. QED
  BY <1>1, <1>2, <1>3

\* And it is read after it is written.
LEMMA WrittenThenRead ==
    ASSUME NetInv, TypeOK, ForestInv, NEW n \in Nodes, parent[n] \notin ConstHandles
    PROVE  \E k \in Tasks : n < k /\ \E i \in Ins(k) : parent[i] = parent[n]
<1>. DEFINE S == {m \in Nodes : parent[m] = parent[n]}
<1>1. S \in SUBSET (0 .. Len(net)) /\ n \in S /\ Len(net) \in Nat
  BY NetFacts
<1>2. PICK m \in S : \A y \in S : y <= m
  BY <1>1, Greatest
<1>3. m \in Nodes \ Unmanaged
  BY <1>2, TasksFacts
<1>4. PICK k \in Nodes : m \in Ins(k)
  BY <1>3, NetFacts
<1>5. m < k /\ m \in Nat /\ k \in Nat /\ n \in Nat /\ n <= m
  BY <1>1, <1>2, <1>4, NetFacts
<1>6. k \notin joined
  <2>1. SUFFICES ASSUME k \in joined PROVE FALSE
    OBVIOUS
  <2>2. k \in S
    BY <1>2, <1>4, <2>1 DEF ForestInv
  <2>. QED
    BY <1>2, <1>5, <2>2
<1>. QED
  BY <1>2, <1>4, <1>5, <1>6, TasksFacts

\* As long as inputs and sent values are not joined, they keep memory of their own.
LEMMA Constants ==
    ASSUME NetInv, TypeOK, ForestInv, ~JoinsUnmanaged
    PROVE  /\ ConstHandles = Unmanaged /\ \A h \in Unmanaged : parent[h] = h /\ h \in Allocated
           /\ \A n \in Nodes : parent[n] \in ConstHandles => parent[n] \in Allocated
<1>1. \A h \in Unmanaged : h \in Nodes /\ parent[h] = h /\ h \in Allocated
  <2>1. \A h \in Unmanaged : h \in Nodes /\ \A c \in joined : h \notin Ins(c)
    BY DEF ForestInv, Unmanaged
  <2>. QED
    BY <2>1 DEF ForestInv, Allocated
<1>2. ConstHandles = Unmanaged
  BY <1>1 DEF ConstHandles
<1>. QED
  BY <1>1, <1>2

LEMMA FamilyFinite ==
    ASSUME NEW S, IsFiniteSet(S), NEW F, \A x \in S : IsFiniteSet(F[x])
    PROVE  IsFiniteSet(UNION {F[x] : x \in S})
<1>. DEFINE T == {F[x] : x \in S}
            f == [x \in S |-> F[x]]
<1>1. f \in Surjection(S, T)
  BY DEF Surjection
<1>2. IsFiniteSet(T)
  <2>. HIDE DEF f, T
  <2>. QED
    BY <1>1, FS_Surjection
<1>3. \A t \in T : IsFiniteSet(t)
  OBVIOUS
<1>. HIDE DEF T
<1>4. IsFiniteSet(UNION T)
  BY <1>2, <1>3, FS_UNION
<1>. QED
  BY <1>4 DEF T

LEMMA ReadsFinite ==
    ASSUME NetInv, NEW h
    PROVE  IsFiniteSet(Reads(h))
<1>. DEFINE F == [k \in Nodes |-> {k} \X (DOMAIN net[k].ins)]
            All == UNION {F[k] : k \in Nodes}
<1>1. IsFiniteSet(Nodes)
  <2>1. Nodes = 1 .. Len(net) /\ Len(net) \in Nat
    BY NetFacts
  <2>. QED
    BY <2>1, FS_Interval
<1>2. ASSUME NEW k \in Nodes PROVE IsFiniteSet(F[k])
  <2>1. IsFiniteSet(DOMAIN net[k].ins)
    <3>1. DOMAIN net[k].ins = 1 .. Len(net[k].ins) /\ Len(net[k].ins) \in Nat
      BY NetFacts
    <3>. QED
      BY <3>1, FS_Interval
  <2>2. IsFiniteSet({k})
    BY FS_Singleton
  <2>3. IsFiniteSet({k} \X (DOMAIN net[k].ins))
    BY <2>1, <2>2, FS_Product
  <2>. QED
    BY <2>3
<1>3. ASSUME NEW r \in Reads(h) PROVE r \in All
  <2>1. PICK k \in Tasks : r \in {k} \X {i \in DOMAIN net[k].ins : InputHandles(k)[i] = h}
    BY DEF Reads
  <2>2. k \in Nodes /\ r \in F[k]
    BY <2>1, TasksFacts
  <2>. QED
    BY <2>2
<1>. HIDE DEF F
<1>4. IsFiniteSet(All)
  BY <1>1, <1>2, FamilyFinite
<1>. HIDE DEF All
<1>5. Reads(h) \in SUBSET All
  BY <1>3
<1>. QED
  BY <1>4, <1>5, FS_Subset

--------------------------------------------------------------------------------
(* The loops over the tasks *)

\* A step after which the same tensors have been written, and the same reads are to come.
Marked ==
    \A h \in Nodes \ ConstHandles : /\ Begun(h)' <=> Begun(h)
                                    /\ Begun(h) => Open(h)' = Open(h)

LEMMA MarkedBy ==
    ASSUME NetInv, UNCHANGED <<graph, handles>>,
           \A n \in Tasks : Acquired(n)' <=> Acquired(n),
           \A k \in Tasks : \A j \in DOMAIN net[k].ins : Ahead(<<k, j>>)' <=> Ahead(<<k, j>>)
    PROVE  Marked
<1>1. ASSUME NEW h PROVE Begun(h)' <=> Begun(h)
  <2>1. Tasks' = Tasks /\ parent' = parent
    BY Same
  <2>. QED
    BY <2>1 DEF Begun
<1>2. ASSUME NEW h PROVE Open(h)' = Open(h)
  <2>1. Reads(h)' = Reads(h)
    BY Same
  <2>2. \A r \in Reads(h) : \E k \in Tasks : \E j \in DOMAIN net[k].ins : r = <<k, j>>
    BY ReadsAre
  <2>3. \A r \in Reads(h) : Ahead(r)' <=> Ahead(r)
    BY <2>2
  <2>. QED
    BY <2>1, <2>3 DEF Open
<1>. QED
  BY <1>1, <1>2 DEF Marked

LEMMA MarkedNextTask ==
    ASSUME NetInv, TypeOK, LoopInv, NextTask
    PROVE  Marked /\ task' \in Tasks
<1>1. /\ task' = Min(Remaining) /\ stage = "done" /\ stage' = "inputs" /\ phase = "lifetimes" /\ phase' = phase
      /\ Remaining # {} /\ UNCHANGED <<graph, handles>>
  BY DEF NextTask
<1>2. task' \in Remaining /\ \A k \in Remaining : task' <= k
  BY <1>1, TasksFacts, MinIs
<1>3. task \in Nat /\ task' \in Nat /\ task' > task /\ task' \in Tasks
  BY <1>2, NetFacts, TasksFacts DEF TypeOK, Remaining
<1>4. ASSUME NEW n \in Tasks
      PROVE  /\ n < task' <=> n <= task
             /\ n >= task' <=> n > task
             /\ n \in Nat
  BY <1>2, <1>3, TasksFacts DEF Remaining
<1>5. ASSUME NEW n \in Tasks PROVE Acquired(n)' <=> Acquired(n)
  BY <1>1, <1>3, <1>4 DEF Acquired, Configured
<1>6. ASSUME NEW k \in Tasks, NEW j \in DOMAIN net[k].ins PROVE Ahead(<<k, j>>)' <=> Ahead(<<k, j>>)
  BY <1>1, <1>3, <1>4 DEF Ahead, Configured
<1>. QED
  BY <1>1, <1>3, <1>5, <1>6, MarkedBy

LEMMA MarkedNextStage ==
    ASSUME NetInv, TypeOK, LoopInv, NextStage
    PROVE  Marked
<1>1. /\ stage' = Following(stage) /\ slot' = 1 /\ task' = task /\ phase = "lifetimes" /\ phase' = phase
      /\ stage # "done" /\ slot \notin DOMAIN Listed /\ UNCHANGED <<graph, handles>>
  BY DEF NextStage
<1>2. task \in Tasks /\ task \in Nat /\ slot \in Nat \ {0} /\ stage \in {"inputs", "output", "release"}
  BY <1>1, TasksFacts DEF LoopInv, TypeOK
<1>3. stage = "output" => slot > 1
  <2>1. stage = "output" => DOMAIN Listed = {1}
    BY DEF Listed
  <2>. QED
    BY <1>1, <1>2, <2>1
<1>4. stage = "release" => slot \notin DOMAIN net[task].ins
  BY <1>1 DEF Listed, InputHandles
<1>5. ASSUME NEW n \in Tasks PROVE Acquired(n)' <=> Acquired(n)
  BY <1>1, <1>2, <1>3 DEF Acquired, Configured, Following
<1>6. ASSUME NEW k \in Tasks, NEW j \in DOMAIN net[k].ins PROVE Ahead(<<k, j>>)' <=> Ahead(<<k, j>>)
  <2>1. DOMAIN net[k].ins = 1 .. Len(net[k].ins) /\ Len(net[k].ins) \in Nat /\ k \in Nat
    BY NetFacts, TasksFacts
  <2>2. k = task /\ stage = "release" => j < slot
    BY <1>2, <1>4, <2>1
  <2>. QED
    BY <1>1, <1>2, <2>1, <2>2 DEF Ahead, Configured, Following
<1>. QED
  BY <1>1, <1>5, <1>6, MarkedBy

LEMMA MarkedSkip ==
    ASSUME NetInv, TypeOK, LoopInv, FlightInv, SkipHandle
    PROVE  Marked
<1>1. /\ slot' = slot + 1 /\ stage' = stage /\ task' = task /\ phase = "lifetimes" /\ phase' = phase
      /\ stage # "done" /\ slot \in DOMAIN Listed /\ UNCHANGED <<graph, handles>>
      /\ Listed[slot] \in ConstHandles \/ (stage # "release" /\ Listed[slot] \in DOMAIN inFlight)
  BY DEF SkipHandle, AtHandle
<1>2. task \in Tasks /\ task \in Nat /\ slot \in Nat \ {0} /\ stage \in {"inputs", "output", "release"}
  BY <1>1, TasksFacts DEF LoopInv, TypeOK
<1>3. parent' = parent /\ Tasks' = Tasks /\ \A h : Reads(h)' = Reads(h)
  BY <1>1, Same
<1>4. ASSUME NEW n \in Tasks, n # task \/ stage # "output" PROVE Acquired(n)' <=> Acquired(n)
  BY <1>1, <1>2, <1>4 DEF Acquired, Configured
<1>5. stage = "output" => slot = 1 /\ Listed[slot] = parent[task]
  BY <1>1 DEF Listed
<1>6. ASSUME NEW h \in Nodes \ ConstHandles PROVE Begun(h)' <=> Begun(h)
  <2>1. CASE stage = "output" /\ parent[task] = h
    <3>1. h \in DOMAIN inFlight
      BY <1>1, <1>5, <1>6, <2>1
    <3>2. Begun(h)
      BY <3>1 DEF FlightInv
    <3>3. PICK n \in Tasks : n = task
      BY <1>2
    <3>4. Acquired(n)'
      BY <1>1, <1>2, <2>1, <3>3 DEF Acquired, Configured
    <3>5. Begun(h)'
      BY <1>3, <2>1, <3>3, <3>4 DEF Begun
    <3>. QED
      BY <3>2, <3>5
  <2>2. CASE stage # "output" \/ parent[task] # h
    BY <1>3, <1>4, <2>2 DEF Begun
  <2>. QED
    BY <2>1, <2>2
<1>7. ASSUME NEW h \in Nodes \ ConstHandles, NEW r \in Reads(h) PROVE Ahead(r)' <=> Ahead(r)
  <2>1. PICK k \in Tasks : \E j \in DOMAIN net[k].ins : r = <<k, j>> /\ parent[net[k].ins[j]] = h
    BY ReadsAre
  <2>2. PICK j \in DOMAIN net[k].ins : r = <<k, j>> /\ parent[net[k].ins[j]] = h
    BY <2>1
  <2>4. k \in Nat /\ j \in Nat
    BY <2>1, <2>2, NetFacts, TasksFacts
  <2>5. k = task /\ stage = "release" => j # slot
    BY <1>1, <1>7, <2>2 DEF Listed, InputHandles
  <2>. QED
    BY <1>1, <1>2, <2>2, <2>4, <2>5 DEF Ahead, Configured
<1>8. ASSUME NEW h \in Nodes \ ConstHandles PROVE Open(h)' = Open(h)
  BY <1>3, <1>7, <1>8 DEF Open
<1>. QED
  BY <1>6, <1>8 DEF Marked

LEMMA MarkedPopulate ==
    ASSUME NetInv, TypeOK, LoopInv, FlightInv, Populate
    PROVE  Marked /\ DOMAIN inFlight = {}
<1>1. /\ stage = "done" /\ task' = task /\ phase = "lifetimes" /\ phase' = "waiting"
      /\ Remaining = {} /\ UNCHANGED <<graph, handles>>
  BY DEF Populate, loops
<1>2. \A k \in Tasks : k \in Nat /\ ~(k > task)
  BY <1>1, TasksFacts
<1>3. task \in Nat
  BY NetFacts DEF TypeOK
<1>4. ASSUME NEW n \in Tasks PROVE Acquired(n)' <=> Acquired(n)
  BY <1>1, <1>2, <1>3 DEF Acquired, Configured
<1>5. ASSUME NEW k \in Tasks, NEW j PROVE ~Ahead(<<k, j>>) /\ ~Ahead(<<k, j>>)'
  BY <1>1, <1>2, <1>3 DEF Ahead, Configured
<1>6. ASSUME NEW h \in DOMAIN inFlight PROVE FALSE
  <2>1. PICK r \in Reads(h) : Ahead(r)
    BY DEF FlightInv, Open
  <2>2. \E k \in Tasks : \E j : r = <<k, j>>
    BY DEF Reads
  <2>. QED
    BY <1>5, <2>1, <2>2
<1>. QED
  BY <1>1, <1>4, <1>5, <1>6, MarkedBy

\* Once the lifetimes have been configured, or while places are given, all stays as it is.
LEMMA MarkedOther ==
    ASSUME NetInv, UNCHANGED <<graph, handles>>,
           \/ Configured /\ Configured'
           \/ ~Configured /\ ~Configured' /\ phase # "mutating" /\ phase' # "mutating" /\ UNCHANGED loops
    PROVE  Marked
<1>1. ASSUME NEW n \in Tasks PROVE Acquired(n)' <=> Acquired(n)
  BY DEF Acquired, loops
<1>2. ASSUME NEW k \in Tasks, NEW j PROVE Ahead(<<k, j>>)' <=> Ahead(<<k, j>>)
  BY DEF Ahead, loops
<1>. QED
  BY <1>1, <1>2, MarkedBy

LEMMA OverKept ==
    ASSUME UNCHANGED <<graph, handles>>, Marked, NEW h, Over(h)
    PROVE  Over(h)'
BY Same DEF Over, Marked

--------------------------------------------------------------------------------
(* Steps that neither count reads nor change the blobs or the pool *)

LEMMA FlightKept ==
    ASSUME UNCHANGED <<graph, handles, inFlight, occupied>>, Marked, FlightInv
    PROVE  FlightInv'
<1>1. inFlight' = inFlight /\ occupied' = occupied /\ Nodes' = Nodes /\ ConstHandles' = ConstHandles
  BY Same
<1>2. DOMAIN inFlight' \subseteq Nodes' \ ConstHandles' /\ DOMAIN occupied' = DOMAIN inFlight'
  BY <1>1 DEF FlightInv
<1>3. ASSUME NEW h \in DOMAIN inFlight'
      PROVE  Begun(h)' /\ Open(h)' # {} /\ inFlight'[h] = Cardinality(Open(h)')
  <2>1. h \in DOMAIN inFlight /\ h \in Nodes \ ConstHandles
    BY <1>1 DEF FlightInv
  <2>2. Begun(h) /\ Open(h) # {} /\ inFlight[h] = Cardinality(Open(h))
    BY <2>1 DEF FlightInv
  <2>3. Begun(h)' /\ Open(h)' = Open(h)
    BY <2>1, <2>2 DEF Marked
  <2>. QED
    BY <1>1, <2>2, <2>3
<1>4. ASSUME NEW h \in Nodes' \ ConstHandles', Begun(h)', Open(h)' # {} PROVE h \in DOMAIN inFlight'
  <2>1. h \in Nodes \ ConstHandles
    BY <1>1
  <2>2. Begun(h) /\ Open(h) # {}
    BY <1>4, <2>1 DEF Marked
  <2>. QED
    BY <1>1, <2>1, <2>2 DEF FlightInv
<1>. QED
  BY <1>2, <1>3, <1>4 DEF FlightInv

LEMMA BoundKept ==
    ASSUME UNCHANGED <<graph, handles, mappings>>, \A g : Over(g) => Over(g)', NEW S, NEW size, Bound(S, size)
    PROVE  Bound(S, size)'
<1>1. net' = net /\ mappings' = mappings /\ \A g, h : Apart(g, h)' = Apart(g, h)
  BY Same
<1>. QED
  BY <1>1 DEF Bound

LEMMA BlobKept ==
    ASSUME UNCHANGED <<graph, handles, occupied, free, mappings>>, \A g : Over(g) => Over(g)', BlobInv
    PROVE  BlobInv'
<1>1. /\ occupied' = occupied /\ free' = free /\ mappings' = mappings /\ Nodes' = Nodes
      /\ \A g, h : Apart(g, h)' = Apart(g, h)
  BY Same
<1>2. ASSUME NEW h \in DOMAIN occupied'
      PROVE  /\ IsBlob(occupied[h])'
             /\ h \notin DOMAIN mappings'
             /\ Bound(occupied[h].bound \ {h}, occupied[h].size)'
             /\ \A g \in occupied'[h].bound \ {h} : Apart(g, h)'
  <2>1. Bound(occupied[h].bound \ {h}, occupied[h].size)
    BY <1>1 DEF BlobInv
  <2>2. \A S, size : Bound(S, size) => Bound(S, size)'
    BY BoundKept
  <2>3. PICK S, size : S = occupied[h].bound \ {h} /\ size = occupied[h].size
    OBVIOUS
  <2>4. Bound(S, size)'
    BY <2>1, <2>2, <2>3
  <2>5. Bound(occupied[h].bound \ {h}, occupied[h].size)'
    BY <1>1, <2>3, <2>4 DEF Bound
  <2>. QED
    BY <1>1, <2>5 DEF BlobInv, IsBlob
<1>3. ASSUME NEW k \in DOMAIN free' PROVE Bound(free[k].bound, free[k].size)'
  <2>1. Bound(free[k].bound, free[k].size)
    BY <1>1 DEF BlobInv
  <2>2. \A S, size : Bound(S, size) => Bound(S, size)'
    BY BoundKept
  <2>3. PICK S, size : S = free[k].bound /\ size = free[k].size
    OBVIOUS
  <2>4. Bound(S, size)'
    BY <2>1, <2>2, <2>3
  <2>. QED
    BY <1>1, <2>3, <2>4 DEF Bound
<1>4. /\ \A g, h \in DOMAIN occupied' : g # h => Members(g)' \cap Members(h)' = {}
      /\ \A h \in DOMAIN occupied', k \in DOMAIN free' : Members(h)' \cap free'[k].bound = {}
      /\ \A k, l \in DOMAIN free' : k # l => free'[k].bound \cap free'[l].bound = {}
  BY <1>1 DEF BlobInv, Members
<1>. QED
  BY <1>2, <1>3, <1>4 DEF BlobInv

LEMMA CompleteKept ==
    ASSUME UNCHANGED <<graph, handles, occupied, free, mappings>>, CompleteInv,
           \A h \in Nodes \ ConstHandles : Begun(h)' => Begun(h), phase # "placing", phase' # "placing",
           phase' \notin {"lifetimes", "placing"} => DOMAIN occupied = {}
    PROVE  CompleteInv'
<1>1. occupied' = occupied /\ free' = free /\ mappings' = mappings /\ Nodes' = Nodes /\ ConstHandles' = ConstHandles
  BY Same
<1>2. Active' = Active
  BY <1>1 DEF Active, Members
<1>. QED
  BY <1>1, <1>2 DEF CompleteInv

LEMMA PlaceKept ==
    ASSUME UNCHANGED <<graph, handles, occupied, free, pool, cursor>>, \A g : Over(g) => Over(g)', PlaceInv,
           phase # "placing", phase' # "placing"
    PROVE  PlaceInv'
<1>1. /\ occupied' = occupied /\ free' = free /\ mappings' = mappings /\ areas' = areas
      /\ cursor' = cursor /\ net' = net /\ manager' = manager
      /\ \A g, h : Apart(g, h)' = Apart(g, h)
  BY Same DEF pool
<1>2. Active' = Active
  BY <1>1 DEF Active, Members
<1>4. \A h : ~Below(h) /\ ~Below(h)'
  BY DEF Below
<1>5. \A g, h : Beside(g, h)' = Beside(g, h)
  BY <1>1 DEF Beside
<1>. QED
  BY <1>1, <1>2, <1>4, <1>5 DEF PlaceInv

LEMMA FewKept ==
    ASSUME UNCHANGED <<graph, handles, occupied, free, pool>>, FewInv, phase # "placing", phase' # "placing",
           phase' = "mutating" => phase = "mutating"
    PROVE  FewInv'
<1>1. BlobsNow' = BlobsNow /\ NumBlobs' = NumBlobs
  BY Same DEF pool, BlobsNow, NumBlobs
<1>2. Tasks' = Tasks /\ \A k : LiveAt(k)' = LiveAt(k)
  BY Same
<1>. QED
  BY <1>1, <1>2 DEF FewInv

\* What the steps have in common that neither count reads nor change the blobs or the pool.
BooksInv == FlightInv /\ BlobInv /\ CompleteInv /\ PlaceInv /\ FewInv

LEMMA BooksKept ==
    ASSUME UNCHANGED <<graph, handles, blobs, pool, cursor>>, Marked, BooksInv, phase # "placing", phase' # "placing",
           phase' = "mutating" => phase = "mutating",
           phase' \notin {"lifetimes", "placing"} => DOMAIN occupied = {}
    PROVE  BooksInv'
<1>1. UNCHANGED <<graph, handles, occupied, free, mappings>>
  BY DEF pool, blobs
<1>2. \A g : Over(g) => Over(g)'
  BY OverKept
<1>3. \A h \in Nodes \ ConstHandles : Begun(h)' => Begun(h)
  BY DEF Marked
<1>4. BlobInv' /\ CompleteInv'
  BY <1>1, <1>2, <1>3, BlobKept, CompleteKept DEF BooksInv
<1>5. PlaceInv' /\ FewInv'
  BY <1>1, <1>2, PlaceKept, FewKept DEF BooksInv
<1>6. FlightInv'
  BY FlightKept DEF BooksInv, blobs
<1>. QED
  BY <1>4, <1>5, <1>6 DEF BooksInv

--------------------------------------------------------------------------------
(* A lifetime is opened *)

\* By the loop's place all uses of a tensor that is over are past.
LEMMA DoneUses ==
    ASSUME NetInv, TypeOK, ForestInv, phase = "lifetimes", stage = "output", NEW g, Over(g), NEW k \in Uses(g)
    PROVE  k < task
<1>1. ~Configured /\ g \notin ConstHandles /\ g \in Nodes /\ \A r \in Reads(g) : ~Ahead(r)
  BY DEF Configured, Over, Open
<1>2. \A l \in Tasks : \A j : <<l, j>> \in Reads(g) => l < task
  <2>1. \A l \in Tasks : l \in Nat
    BY TasksFacts
  <2>2. task \in Nat
    BY NetFacts DEF TypeOK
  <2>. QED
    BY <1>1, <2>1, <2>2 DEF Ahead
<1>3. \A l \in Tasks : (\E i \in Ins(l) : parent[i] = g) => l < task
  <2>1. SUFFICES ASSUME NEW l \in Tasks, NEW i \in Ins(l), parent[i] = g PROVE l < task
    OBVIOUS
  <2>2. l \in Nodes
    BY TasksFacts
  <2>3. PICK j \in DOMAIN net[l].ins : net[l].ins[j] = i
    BY <2>2, NetFacts
  <2>4. <<l, j>> \in Reads(g)
    BY <2>1, <2>3, ReadsAre
  <2>. QED
    BY <1>2, <2>4
<1>4. CASE parent[k] = g
  <2>1. k \in Nodes /\ k \in Nat
    BY TasksFacts DEF Uses
  <2>2. PICK l \in Tasks : k < l /\ \E i \in Ins(l) : parent[i] = parent[k]
    BY <1>1, <1>4, <2>1, WrittenThenRead
  <2>3. l < task /\ l \in Nat /\ task \in Nat
    BY <1>3, <1>4, <2>2, TasksFacts, NetFacts DEF TypeOK
  <2>. QED
    BY <2>1, <2>2, <2>3
<1>. QED
  BY <1>3, <1>4 DEF Uses

\* No use of a tensor that has not been written is past.
LEMMA FreshUses ==
    ASSUME NetInv, TypeOK, ForestInv, phase = "lifetimes", NEW h \in Nodes \ ConstHandles, ~Begun(h),
           NEW k \in Uses(h)
    PROVE  k >= task /\ (parent[k] = h \/ k > task)
<1>1. k \in Tasks /\ k \in Nat /\ task \in Nat
  BY TasksFacts, NetFacts DEF Uses, TypeOK
<1>2. \A n \in Tasks : parent[n] = h => ~(n < task)
  BY DEF Begun, Acquired
<1>3. CASE parent[k] = h
  BY <1>1, <1>2, <1>3
<1>4. CASE \E i \in Ins(k) : parent[i] = h
  <2>1. PICK i \in Ins(k) : parent[i] = h
    BY <1>4
  <2>2. PICK n \in Tasks : n < k /\ parent[n] = h
    BY <1>1, <2>1, ReadAfterWritten
  <2>3. n \in Nat
    BY TasksFacts
  <2>. QED
    BY <1>1, <1>2, <2>2, <2>3
<1>. QED
  BY <1>3, <1>4 DEF Uses

\* An acquired tensor is the output of the task, which writes the first part of it.
LEMMA AcquireFacts ==
    ASSUME NetInv, TypeOK, ForestInv, LoopInv, FlightInv, AcquireHandle
    PROVE  /\ stage = "output" /\ slot = 1 /\ task \in Tasks /\ phase = "lifetimes"
           /\ \E h \in Nodes \ ConstHandles :
                /\ h = parent[task] /\ h \notin DOMAIN inFlight
                /\ inFlight' = With(inFlight, {h}, Cardinality(Reads(h))) /\ StartLifetime(h)
                /\ ~Begun(h) /\ Begun(h)' /\ Open(h) = Reads(h) /\ Open(h)' = Reads(h) /\ Reads(h) # {}
                /\ \A g \in Nodes \ ConstHandles :
                     g # h => (Begun(g)' <=> Begun(g)) /\ Open(g)' = Open(g)
<1>1. /\ phase = "lifetimes" /\ phase' = phase /\ task' = task /\ stage' = stage /\ stage \in {"inputs", "output"}
      /\ slot \in DOMAIN Listed /\ slot' = slot + 1 /\ UNCHANGED <<graph, handles>>
      /\ Listed[slot] \notin ConstHandles \cup DOMAIN inFlight
      /\ inFlight' = With(inFlight, {Listed[slot]}, Cardinality(Reads(Listed[slot]))) /\ StartLifetime(Listed[slot])
  BY DEF AcquireHandle, AtHandle, TypeOK
<1>2. task \in Tasks /\ task \in Nodes /\ task \in Nat /\ ~Configured
  BY <1>1, TasksFacts DEF LoopInv, Configured
<1>3. stage = "output"
  <2>1. SUFFICES ASSUME stage = "inputs" PROVE FALSE
    BY <1>1
  <2>2. slot \in DOMAIN net[task].ins /\ Listed[slot] = parent[net[task].ins[slot]]
    BY <1>1, <2>1 DEF Listed, InputHandles
  <2>3. PICK i \in Ins(task) : Listed[slot] = parent[i]
    BY <1>2, <2>2, NetFacts
  <2>4. parent[i] \in Nodes \ ConstHandles
    BY <1>1, <1>2, <2>3, NetFacts DEF TypeOK
  <2>5. PICK n \in Tasks : n < task /\ parent[n] = parent[i]
    BY <1>2, <2>4, ReadAfterWritten
  <2>6. Begun(parent[i])
    BY <1>1, <2>5 DEF Begun, Acquired
  <2>7. <<task, slot>> \in Reads(parent[i])
    BY <1>2, <2>2, <2>3, ReadsAre
  <2>8. <<task, slot>> \in Open(parent[i])
    BY <1>2, <2>1, <2>7 DEF Open, Ahead
  <2>. QED
    BY <1>1, <2>3, <2>4, <2>6, <2>8 DEF FlightInv
<1>4. slot = 1 /\ Listed[slot] = parent[task]
  BY <1>1, <1>3 DEF Listed
<1>5. PICK h \in Nodes \ ConstHandles : h = parent[task]
  BY <1>1, <1>2, <1>4 DEF TypeOK
<1>6. PICK r \in Reads(h) : r[1] > task
  <2>1. PICK k \in Tasks : task < k /\ \E i \in Ins(k) : parent[i] = h
    BY <1>2, <1>5, WrittenThenRead
  <2>2. k \in Nat /\ k \in Nodes
    BY TasksFacts
  <2>3. PICK j \in DOMAIN net[k].ins : parent[net[k].ins[j]] = h
    BY <2>1, <2>2, NetFacts
  <2>4. <<k, j>> \in Reads(h)
    BY <2>3, ReadsAre
  <2>. QED
    BY <1>2, <2>1, <2>2, <2>4
<1>7. ~Begun(h)
  <2>1. r \in Open(h)
    BY <1>2, <1>6 DEF Open, Ahead
  <2>. QED
    BY <1>1, <1>4, <1>5, <2>1 DEF FlightInv
<1>8. parent' = parent /\ Tasks' = Tasks /\ \A g : Reads(g)' = Reads(g)
  BY <1>1, Same
<1>9. Begun(h)'
  <2>1. PICK n \in Tasks : n = task
    BY <1>2
  <2>2. Acquired(n)'
    BY <1>1, <1>3, <1>4, <2>1 DEF Acquired
  <2>. QED
    BY <1>5, <1>8, <2>1, <2>2 DEF Begun
<1>10. ASSUME NEW g \in Nodes \ ConstHandles, g # h PROVE Begun(g)' <=> Begun(g)
  <2>1. ASSUME NEW n \in Tasks, n # task PROVE Acquired(n)' <=> Acquired(n)
    BY <1>1, <2>1 DEF Acquired, Configured
  <2>. QED
    BY <1>5, <1>8, <1>10, <2>1 DEF Begun
<1>11. ASSUME NEW g PROVE Open(g)' = Open(g)
  <2>1. \A q \in Reads(g) : Ahead(q)' <=> Ahead(q)
    BY <1>1, <1>3 DEF Ahead, Configured
  <2>. QED
    BY <1>8, <2>1 DEF Open
<1>12. Open(h) = Reads(h)
  <2>1. ASSUME NEW q \in Reads(h) PROVE Ahead(q)
    <3>1. PICK k \in Tasks : \E j \in DOMAIN net[k].ins : q = <<k, j>> /\ parent[net[k].ins[j]] = h
      BY ReadsAre
    <3>2. k \in Nodes /\ k \in Nat
      BY TasksFacts
    <3>3. k \in Uses(h)
      BY <3>1, <3>2, NetFacts DEF Uses
    <3>4. k >= task
      BY <1>1, <1>7, <3>3, FreshUses
    <3>. QED
      BY <1>2, <1>3, <3>1, <3>2, <3>4 DEF Ahead
  <2>. QED
    BY <2>1 DEF Open
<1>. QED
  BY <1>1, <1>2, <1>3, <1>4, <1>5, <1>6, <1>7, <1>9, <1>10, <1>11, <1>12

\* What AcquireFacts says of the step.
Acquires(h) ==
    /\ stage = "output" /\ task \in Tasks /\ phase = "lifetimes" /\ phase' = phase /\ task' = task
    /\ h \in Nodes \ ConstHandles /\ h = parent[task] /\ h \notin DOMAIN inFlight
    /\ inFlight' = With(inFlight, {h}, Cardinality(Reads(h))) /\ StartLifetime(h)
    /\ ~Begun(h) /\ Begun(h)' /\ Open(h) = Reads(h) /\ Open(h)' = Reads(h) /\ Reads(h) # {}
    /\ \A g \in Nodes \ ConstHandles : g # h => (Begun(g)' <=> Begun(g)) /\ Open(g)' = Open(g)
    /\ UNCHANGED <<graph, handles, cursor, pool>>

LEMMA AcquiresOne ==
    ASSUME NetInv, TypeOK, ForestInv, LoopInv, FlightInv, AcquireHandle
    PROVE  \E h : Acquires(h)
<1>1. UNCHANGED <<graph, handles, cursor, pool>> /\ phase' = phase /\ task' = task
  BY DEF AcquireHandle
<1>. QED
  BY <1>1, AcquireFacts DEF Acquires

LEMMA AcquireOver ==
    ASSUME NEW h, Acquires(h), NEW g, Over(g)
    PROVE  Over(g)' /\ g # h
BY Same DEF Over, Acquires

\* The blob in which the tensor begins.
LEMMA StartFacts ==
    ASSUME TypeOK, NEW h \in Nodes, StartLifetime(h)
    PROVE  \E b :
             /\ DOMAIN occupied' = DOMAIN occupied \cup {h} /\ occupied'[h] = b /\ IsBlob(b)
             /\ \A g \in DOMAIN occupied : g # h => occupied'[g] = occupied[g]
             /\ free' \in Seq([size : Nat, bound : SUBSET Nodes])
             /\ \/ /\ free = <<>> /\ free' = free /\ DOMAIN free = {} /\ b.bound = {h} /\ b.size = 0
                \/ /\ free # <<>> /\ 1 \in DOMAIN free /\ b = free[1] /\ Len(free') = Len(free) - 1
                   /\ \A k \in DOMAIN free' : k \in Nat /\ k + 1 \in DOMAIN free /\ k + 1 # 1 /\ free'[k] = free[k + 1]
<1>. DEFINE Blob == [size : Nat, bound : SUBSET Nodes]
<1>1. free \in Seq(Blob)
  BY DEF TypeOK
<1>2. CASE free = <<>>
  <2>. DEFINE b == [size |-> 0, bound |-> {h}]
  <2>1. occupied' = With(occupied, {h}, b) /\ free' = free
    BY <1>2 DEF StartLifetime
  <2>2. DOMAIN free = {}
    BY <1>2
  <2>3. IsBlob(b)
    BY DEF IsBlob
  <2>4. b.bound = {h} /\ b.size = 0
    OBVIOUS
  <2>5. /\ DOMAIN occupied' = DOMAIN occupied \cup {h} /\ occupied'[h] = b
        /\ \A g \in DOMAIN occupied : g # h => occupied'[g] = occupied[g]
    <3>. HIDE DEF b
    <3>. QED
      BY <2>1 DEF With
  <2>. QED
    <3>. HIDE DEF b
    <3>. QED
      BY <1>1, <1>2, <2>1, <2>2, <2>3, <2>4, <2>5
<1>3. CASE free # <<>>
  <2>1. occupied' = With(occupied, {h}, free[1]) /\ free' = Tail(free)
    BY <1>1, <1>3 DEF StartLifetime
  <2>2. Len(free) \in Nat \ {0} /\ DOMAIN free = 1 .. Len(free)
    BY <1>1, <1>3, EmptySeq, LenProperties
  <2>3. /\ free' \in Seq(Blob) /\ Len(free') = Len(free) - 1
        /\ \A k \in 1 .. Len(free) - 1 : free'[k] = free[k + 1]
    BY <1>1, <1>3, <2>1, HeadTailProperties
  <2>4. DOMAIN free' = 1 .. Len(free) - 1
    BY <2>2, <2>3, LenProperties
  <2>5. free[1] \in Blob
    <3>1. 1 \in 1 .. Len(free)
      BY <2>2
    <3>. HIDE DEF Blob
    <3>. QED
      BY <1>1, <3>1, ElementOfSeq
  <2>6. IsBlob(free[1])
    BY <2>5 DEF IsBlob
  <2>7. \A k \in DOMAIN free' : k \in Nat /\ k + 1 \in DOMAIN free /\ k + 1 # 1 /\ free'[k] = free[k + 1]
    BY <2>2, <2>3, <2>4
  <2>8. 1 \in DOMAIN free
    BY <2>2
  <2>. HIDE DEF Blob
  <2>9. /\ DOMAIN occupied' = DOMAIN occupied \cup {h} /\ occupied'[h] = free[1]
        /\ \A g \in DOMAIN occupied : g # h => occupied'[g] = occupied[g]
    BY <2>1 DEF With
  <2>. QED
    BY <1>3, <2>3, <2>6, <2>7, <2>8, <2>9 DEF Blob
<1>. QED
  BY <1>2, <1>3

LEMMA AcquireFlight ==
    ASSUME TypeOK, FlightInv, NEW h, Acquires(h)
    PROVE  FlightInv'
<1>1. Nodes' = Nodes /\ ConstHandles' = ConstHandles
  BY Same DEF Acquires
<1>2. /\ DOMAIN inFlight' = DOMAIN inFlight \cup {h} /\ inFlight'[h] = Cardinality(Reads(h))
      /\ \A g \in DOMAIN inFlight : g # h => inFlight'[g] = inFlight[g]
  <2>1. inFlight' = With(inFlight, {h}, Cardinality(Reads(h)))
    BY DEF Acquires
  <2>. QED
    BY <2>1 DEF With
<1>3. h \in Nodes \ ConstHandles /\ StartLifetime(h)
  BY DEF Acquires
<1>4. DOMAIN occupied' = DOMAIN occupied \cup {h}
  BY <1>3, StartFacts
<1>5. ASSUME NEW g \in DOMAIN inFlight'
      PROVE  Begun(g)' /\ Open(g)' # {} /\ inFlight'[g] = Cardinality(Open(g)')
  <2>1. CASE g = h
    BY <1>2, <2>1 DEF Acquires
  <2>2. CASE g # h
    <3>1. g \in DOMAIN inFlight /\ g \in Nodes \ ConstHandles
      BY <1>2, <2>2 DEF FlightInv
    <3>2. Begun(g)' /\ Open(g)' = Open(g)
      BY <2>2, <3>1 DEF FlightInv, Acquires
    <3>. QED
      BY <1>2, <2>2, <3>1, <3>2 DEF FlightInv
  <2>. QED
    BY <2>1, <2>2
<1>6. ASSUME NEW g \in Nodes \ ConstHandles, Begun(g)', Open(g)' # {} PROVE g \in DOMAIN inFlight'
  BY <1>2, <1>6 DEF FlightInv, Acquires
<1>. QED
  BY <1>1, <1>2, <1>3, <1>4, <1>5, <1>6 DEF FlightInv

LEMMA AcquireBlob ==
    ASSUME NetInv, TypeOK, ForestInv, FlightInv, BlobInv, PlaceInv, NEW h, Acquires(h)
    PROVE  BlobInv'
<1>1. h \in Nodes \ ConstHandles /\ StartLifetime(h) /\ UNCHANGED <<graph, handles, mappings>> /\ ~Begun(h)
      /\ phase = "lifetimes" /\ stage = "output"
  BY DEF Acquires, pool
<1>2. net' = net /\ Nodes' = Nodes /\ mappings' = mappings /\ \A f, g : Apart(f, g)' = Apart(f, g)
  BY <1>1, Same
<1>3. PICK b :
        /\ DOMAIN occupied' = DOMAIN occupied \cup {h} /\ occupied'[h] = b /\ IsBlob(b)
        /\ \A g \in DOMAIN occupied : g # h => occupied'[g] = occupied[g]
        /\ free' \in Seq([size : Nat, bound : SUBSET Nodes])
        /\ \/ /\ free = <<>> /\ free' = free /\ DOMAIN free = {} /\ b.bound = {h} /\ b.size = 0
           \/ /\ free # <<>> /\ 1 \in DOMAIN free /\ b = free[1] /\ Len(free') = Len(free) - 1
              /\ \A k \in DOMAIN free' : k \in Nat /\ k + 1 \in DOMAIN free /\ k + 1 # 1 /\ free'[k] = free[k + 1]
  BY <1>1, StartFacts
<1>4. \A g : Over(g) => Over(g)' /\ g # h
  BY AcquireOver
<1>5. \A S, size : Bound(S, size) => Bound(S, size)'
  BY <1>2, <1>4 DEF Bound
<1>6. h \notin DOMAIN mappings /\ h \notin DOMAIN occupied
  BY <1>4 DEF PlaceInv, Acquires, FlightInv
<1>7. \A g : Over(g) => Apart(g, h)
  <2>1. SUFFICES ASSUME NEW g, Over(g), NEW k \in Uses(g), NEW l \in Uses(h) PROVE k < l
    BY DEF Apart
  <2>2. k < task /\ l >= task
    BY <1>1, <2>1, DoneUses, FreshUses
  <2>3. k \in Nat /\ l \in Nat /\ task \in Nat
    BY <2>1, TasksFacts, NetFacts DEF Uses, TypeOK
  <2>. QED
    BY <2>2, <2>3
  \* The tensors that the blob held before.
<1>8. Bound(b.bound \ {h}, b.size) /\ \A g \in b.bound \ {h} : \E k \in DOMAIN free : k = 1 /\ free' # free /\ g \in free[k].bound
  <2>1. CASE DOMAIN free = {} /\ b.bound = {h}
    BY <2>1 DEF Bound
  <2>2. CASE 1 \in DOMAIN free /\ b = free[1] /\ Len(free') = Len(free) - 1
    <3>1. Len(free) \in Nat
      BY DEF TypeOK
    <3>2. free' # free
      BY <2>2, <3>1
    <3>. QED
      BY <2>2, <3>2 DEF BlobInv, Bound
  <2>. QED
    BY <1>3, <2>1, <2>2
<1>9. ASSUME NEW g \in DOMAIN occupied, g # h PROVE occupied'[g] = occupied[g] /\ Members(g)' = Members(g)
  BY <1>3, <1>9 DEF Members
<1>10. Members(h)' = (b.bound \ {h}) \cup {h}
  BY <1>3 DEF Members
<1>11. ASSUME NEW g \in DOMAIN occupied'
       PROVE  /\ IsBlob(occupied[g])' /\ g \notin DOMAIN mappings'
              /\ Bound(occupied[g].bound \ {g}, occupied[g].size)'
              /\ \A f \in occupied'[g].bound \ {g} : Apart(f, g)'
  <2>1. CASE g = h
    <3>1. Bound(b.bound \ {h}, b.size)'
      BY <1>5, <1>8
    <3>2. Bound(occupied[g].bound \ {g}, occupied[g].size)'
      BY <1>3, <2>1, <3>1 DEF Bound
    <3>3. \A f \in b.bound \ {h} : Apart(f, h)
      BY <1>7, <1>8 DEF Bound
    <3>. QED
      BY <1>2, <1>3, <1>6, <2>1, <3>2, <3>3 DEF IsBlob
  <2>2. CASE g # h
    <3>1. g \in DOMAIN occupied /\ occupied'[g] = occupied[g]
      BY <1>3, <2>2
    <3>2. PICK S, size : S = occupied[g].bound \ {g} /\ size = occupied[g].size
      OBVIOUS
    <3>3. Bound(S, size)'
      BY <1>5, <3>1, <3>2 DEF BlobInv
    <3>4. Bound(occupied[g].bound \ {g}, occupied[g].size)'
      BY <3>1, <3>2, <3>3 DEF Bound
    <3>. QED
      BY <1>2, <3>1, <3>4 DEF BlobInv, IsBlob
  <2>. QED
    BY <2>1, <2>2
  \* The blobs that are free now were so before, in another place.
<1>12. ASSUME NEW k \in DOMAIN free'
       PROVE  \E l \in DOMAIN free : /\ free'[k] = free[l]
                                     /\ free' = free => l = k
                                     /\ free' # free => l = k + 1 /\ l # 1 /\ k \in Nat
  <2>1. CASE free' = free
    BY <2>1
  <2>2. CASE free' # free
    BY <1>3, <2>2
  <2>. QED
    BY <2>1, <2>2
<1>13. ASSUME NEW k \in DOMAIN free' PROVE Bound(free[k].bound, free[k].size)'
  <2>1. PICK l \in DOMAIN free : free'[k] = free[l]
    BY <1>12
  <2>2. PICK S, size : S = free[l].bound /\ size = free[l].size
    OBVIOUS
  <2>3. Bound(S, size)'
    BY <1>5, <2>2 DEF BlobInv
  <2>. QED
    BY <2>1, <2>2, <2>3 DEF Bound
<1>14. \A g \in DOMAIN occupied : h \notin Members(g)
  BY <1>4, <1>6 DEF BlobInv, Bound, Members
<1>15. \A k \in DOMAIN free : h \notin free[k].bound
  BY <1>4 DEF BlobInv, Bound
<1>16. ASSUME NEW f \in DOMAIN occupied', NEW g \in DOMAIN occupied', f # g
       PROVE  Members(f)' \cap Members(g)' = {}
  <2>1. \A e \in DOMAIN occupied : e # h => Members(e)' \cap Members(h)' = {}
    <3>1. \A e \in DOMAIN occupied, k \in DOMAIN free : Members(e) \cap free[k].bound = {}
      BY DEF BlobInv
    <3>. QED
      BY <1>8, <1>9, <1>10, <1>14, <3>1
  <2>2. \A d, e \in DOMAIN occupied : d # e => Members(d) \cap Members(e) = {}
    BY DEF BlobInv
  <2>. QED
    BY <1>3, <1>9, <1>16, <2>1, <2>2
<1>17. ASSUME NEW g \in DOMAIN occupied', NEW k \in DOMAIN free'
       PROVE  Members(g)' \cap free'[k].bound = {}
  <2>1. PICK l \in DOMAIN free : free'[k] = free[l] /\ (free' # free => l # 1)
    BY <1>12
  <2>2. CASE g = h
    <3>1. \A j, i \in DOMAIN free : j # i => free[j].bound \cap free[i].bound = {}
      BY DEF BlobInv
    <3>. QED
      BY <1>8, <1>10, <1>15, <2>1, <2>2, <3>1
  <2>3. CASE g # h
    BY <1>3, <1>9, <2>1, <2>3 DEF BlobInv
  <2>. QED
    BY <2>2, <2>3
<1>18. ASSUME NEW k \in DOMAIN free', NEW l \in DOMAIN free', k # l PROVE free'[k].bound \cap free'[l].bound = {}
  <2>1. PICK i \in DOMAIN free : /\ free'[k] = free[i] /\ (free' = free => i = k)
                                 /\ (free' # free => i = k + 1 /\ k \in Nat)
    BY <1>12
  <2>2. PICK j \in DOMAIN free : /\ free'[l] = free[j] /\ (free' = free => j = l)
                                 /\ (free' # free => j = l + 1 /\ l \in Nat)
    BY <1>12
  <2>3. i # j
    BY <1>18, <2>1, <2>2
  <2>. QED
    BY <2>1, <2>2, <2>3 DEF BlobInv
<1>. QED
  BY <1>11, <1>13, <1>16, <1>17, <1>18 DEF BlobInv

LEMMA AcquireComplete ==
    ASSUME NetInv, TypeOK, FlightInv, CompleteInv, NEW h, Acquires(h)
    PROVE  CompleteInv' /\ Active' = Active \cup {h}
<1>1. h \in Nodes \ ConstHandles /\ StartLifetime(h) /\ UNCHANGED <<graph, handles, mappings>> /\ ~Begun(h)
      /\ phase = "lifetimes" /\ phase' = phase /\ h \notin DOMAIN occupied
  BY DEF Acquires, pool, FlightInv
<1>2. Nodes' = Nodes /\ ConstHandles' = ConstHandles /\ mappings' = mappings
  BY <1>1, Same
<1>3. PICK b :
        /\ DOMAIN occupied' = DOMAIN occupied \cup {h} /\ occupied'[h] = b /\ IsBlob(b)
        /\ \A g \in DOMAIN occupied : g # h => occupied'[g] = occupied[g]
        /\ free' \in Seq([size : Nat, bound : SUBSET Nodes])
        /\ \/ /\ free = <<>> /\ free' = free /\ DOMAIN free = {} /\ b.bound = {h} /\ b.size = 0
           \/ /\ free # <<>> /\ 1 \in DOMAIN free /\ b = free[1] /\ Len(free') = Len(free) - 1
              /\ \A k \in DOMAIN free' : k \in Nat /\ k + 1 \in DOMAIN free /\ k + 1 # 1 /\ free'[k] = free[k + 1]
  BY <1>1, StartFacts
<1>4. /\ Members(h)' = b.bound \cup {h}
      /\ \A f \in DOMAIN occupied : f # h /\ Members(f)' = Members(f)
  BY <1>1, <1>3 DEF Members
<1>5. ASSUME NEW g
      PROVE  /\ (g \in Active) <=> \/ \E f \in DOMAIN occupied : g \in Members(f)
                                   \/ \E k \in DOMAIN free : g \in free[k].bound
             /\ (g \in Active') <=> \/ g \in b.bound \cup {h}
                                    \/ \E f \in DOMAIN occupied : g \in Members(f)
                                    \/ \E k \in DOMAIN free' : g \in free'[k].bound
  <2>1. (g \in Active) <=> \/ \E f \in DOMAIN occupied : g \in Members(f)
                           \/ \E k \in DOMAIN free : g \in free[k].bound
    BY DEF Active
  <2>2. (g \in Active') <=> \/ \E f \in DOMAIN occupied' : g \in Members(f)'
                            \/ \E k \in DOMAIN free' : g \in free'[k].bound
    BY DEF Active
  <2>. QED
    BY <1>3, <1>4, <2>1, <2>2
<1>6. Active' = Active \cup {h}
  <2>1. CASE free = <<>>
    BY <1>3, <1>5, <2>1
  <2>2. CASE free # <<>>
    <3>1. DOMAIN free' = 1 .. Len(free) - 1 /\ DOMAIN free = 1 .. Len(free) /\ Len(free) \in Nat
      BY <1>3, <2>2, LenProperties DEF TypeOK
    <3>2. ASSUME NEW k \in DOMAIN free PROVE k = 1 \/ \E l \in DOMAIN free' : free'[l] = free[k]
      <4>1. CASE k # 1
        <5>1. k - 1 \in DOMAIN free' /\ (k - 1) + 1 = k
          BY <3>1, <4>1
        <5>2. free'[k - 1] = free[k]
          BY <1>3, <2>2, <5>1
        <5>. QED
          BY <5>1, <5>2
      <4>. QED
        BY <4>1
    <3>3. /\ b = free[1] /\ 1 \in DOMAIN free
          /\ \A l \in DOMAIN free' : \E k \in DOMAIN free : free'[l] = free[k]
      BY <1>3, <2>2
    <3>4. ASSUME NEW g PROVE g \in Active' <=> g \in Active \cup {h}
      BY <1>5, <3>2, <3>3
    <3>. QED
      BY <3>4
  <2>. QED
    BY <2>1, <2>2
<1>7. \A g \in Nodes \ ConstHandles : g # h /\ Begun(g)' => Begun(g)
  BY DEF Acquires
<1>8. \A g \in Nodes' \ ConstHandles' : Begun(g)' => g \in Active' \cup DOMAIN mappings'
  BY <1>2, <1>6, <1>7 DEF CompleteInv
<1>9. h \in DOMAIN occupied'
  BY <1>3
<1>. QED
  BY <1>1, <1>6, <1>8, <1>9 DEF CompleteInv

LEMMA AcquirePlace ==
    ASSUME NetInv, TypeOK, ForestInv, FlightInv, CompleteInv, PlaceInv, NEW h, Acquires(h)
    PROVE  PlaceInv'
<1>1. /\ h \in Nodes \ ConstHandles /\ UNCHANGED <<graph, handles>> /\ ~Begun(h)
      /\ phase = "lifetimes" /\ phase' = phase /\ stage = "output"
      /\ cursor' = cursor /\ mappings' = mappings /\ areas' = areas
  BY DEF Acquires, pool
<1>2. net' = net /\ manager' = manager /\ \A f, g : Apart(f, g)' = Apart(f, g)
  BY <1>1, Same
<1>3. \A g : Over(g) => Over(g)'
  BY AcquireOver
<1>4. \A g : ~Below(g) /\ ~Below(g)'
  BY <1>1 DEF Below
<1>5. \A f, g : Beside(f, g)' = Beside(f, g)
  BY <1>1, <1>2 DEF Beside
<1>6. \A g : Over(g) => Apart(g, h)
  <2>1. SUFFICES ASSUME NEW g, Over(g), NEW k \in Uses(g), NEW l \in Uses(h) PROVE k < l
    BY DEF Apart
  <2>2. k < task /\ l >= task
    BY <1>1, <2>1, DoneUses, FreshUses
  <2>3. k \in Nat /\ l \in Nat /\ task \in Nat
    BY <2>1, TasksFacts, NetFacts DEF Uses, TypeOK
  <2>. QED
    BY <2>2, <2>3
<1>7. Active' = Active \cup {h}
  BY AcquireComplete
<1>8. \A f \in DOMAIN mappings, g \in Active' : Apart(f, g)
  BY <1>4, <1>6, <1>7 DEF PlaceInv
<1>. QED
  BY <1>1, <1>2, <1>3, <1>4, <1>5, <1>8 DEF PlaceInv

LEMMA LiveFinite ==
    ASSUME NetInv, TypeOK, NEW k
    PROVE  IsFiniteSet(LiveAt(k)) /\ IsFiniteSet(Nodes)
<1>1. Nodes = 1 .. Len(net) /\ Len(net) \in Nat
  BY NetFacts
<1>2. IsFiniteSet(Nodes)
  BY <1>1, FS_Interval
<1>3. ASSUME NEW n \in Tasks \cup UNION {Ins(l) : l \in Tasks} PROVE parent[n] \in Nodes
  <2>1. n \in Nodes
    BY NetFacts, TasksFacts
  <2>. QED
    BY <2>1 DEF TypeOK
<1>4. LiveAt(k) \in SUBSET Nodes
  BY <1>3 DEF LiveAt, Managed
<1>. QED
  BY <1>2, <1>4, FS_Subset

\* All tensors with a lifetime that is open are in use at the task.
LEMMA OpenLive ==
    ASSUME NetInv, TypeOK, ForestInv, phase = "lifetimes", task \in Tasks, NEW g \in Nodes \ ConstHandles,
           Begun(g) \/ parent[task] = g, Open(g) # {}
    PROVE  g \in LiveAt(task)
<1>1. task \in Nat /\ ~Configured
  BY TasksFacts DEF Configured
<1>2. PICK first \in Tasks : parent[first] = g /\ first <= task
  <2>1. CASE Begun(g)
    <3>1. PICK n \in Tasks : parent[n] = g /\ Acquired(n)
      BY <2>1 DEF Begun
    <3>2. n \in Nat
      BY TasksFacts
    <3>. QED
      BY <1>1, <3>1, <3>2 DEF Acquired
  <2>2. CASE parent[task] = g
    BY <1>1, <2>2
  <2>. QED
    BY <2>1, <2>2
<1>3. PICK r \in Reads(g) : Ahead(r)
  BY DEF Open
<1>4. PICK last \in Tasks : \E j \in DOMAIN net[last].ins : r = <<last, j>> /\ parent[net[last].ins[j]] = g
  BY ReadsAre
<1>5. last \in Nat /\ last \in Nodes
  BY TasksFacts
<1>6. last >= task
  BY <1>1, <1>3, <1>4, <1>5 DEF Ahead
<1>7. \E i \in Ins(last) : parent[i] = g
  BY <1>4, <1>5, NetFacts
<1>8. g \in Managed
  BY <1>2 DEF Managed
<1>. QED
  BY <1>1, <1>2, <1>5, <1>6, <1>7, <1>8 DEF LiveAt

LEMMA AcquireFew ==
    ASSUME NetInv, TypeOK, ForestInv, FlightInv, FewInv, NEW h, Acquires(h)
    PROVE  FewInv'
<1>1. /\ h \in Nodes \ ConstHandles /\ StartLifetime(h) /\ h \notin DOMAIN occupied /\ task \in Tasks
      /\ phase = "lifetimes" /\ phase' = phase /\ h = parent[task] /\ Open(h) # {}
      /\ UNCHANGED <<graph, handles, pool>>
  BY DEF Acquires, FlightInv
<1>2. Tasks' = Tasks /\ NumBlobs' = NumBlobs /\ \A k : LiveAt(k)' = LiveAt(k)
  BY <1>1, Same DEF NumBlobs, pool
<1>3. PICK b :
        /\ DOMAIN occupied' = DOMAIN occupied \cup {h} /\ occupied'[h] = b /\ IsBlob(b)
        /\ \A g \in DOMAIN occupied : g # h => occupied'[g] = occupied[g]
        /\ free' \in Seq([size : Nat, bound : SUBSET Nodes])
        /\ \/ /\ free = <<>> /\ free' = free /\ DOMAIN free = {} /\ b.bound = {h} /\ b.size = 0
           \/ /\ free # <<>> /\ 1 \in DOMAIN free /\ b = free[1] /\ Len(free') = Len(free) - 1
              /\ \A k \in DOMAIN free' : k \in Nat /\ k + 1 \in DOMAIN free /\ k + 1 # 1 /\ free'[k] = free[k + 1]
  BY <1>1, StartFacts
<1>4. IsFiniteSet(DOMAIN occupied)
  <2>1. DOMAIN occupied \in SUBSET Nodes /\ IsFiniteSet(Nodes)
    BY LiveFinite DEF TypeOK
  <2>. QED
    BY <2>1, FS_Subset
<1>5. Cardinality(DOMAIN occupied) \in Nat /\ Cardinality(DOMAIN occupied') = Cardinality(DOMAIN occupied) + 1
  BY <1>1, <1>3, <1>4, FS_CardinalityType, FS_AddElement
<1>6. Len(free) \in Nat
  BY DEF TypeOK
<1>7. CASE free # <<>>
  <2>1. BlobsNow' = BlobsNow
    BY <1>1, <1>3, <1>5, <1>6, <1>7 DEF BlobsNow
  <2>. QED
    BY <1>1, <1>2, <2>1 DEF FewInv
<1>8. CASE free = <<>>
  <2>1. BlobsNow' = Cardinality(DOMAIN occupied')
    BY <1>1, <1>3, <1>5, <1>8 DEF BlobsNow
  <2>2. ASSUME NEW g \in DOMAIN occupied' PROVE g \in LiveAt(task)
    <3>1. CASE g = h
      BY <1>1, <3>1, OpenLive
    <3>2. CASE g # h
      <4>1. g \in DOMAIN inFlight
        BY <1>3, <3>2 DEF FlightInv
      <4>2. g \in Nodes \ ConstHandles /\ Begun(g) /\ Open(g) # {}
        BY <4>1 DEF FlightInv
      <4>. QED
        BY <1>1, <4>2, OpenLive
    <3>. QED
      BY <3>1, <3>2
  <2>3. DOMAIN occupied' \in SUBSET LiveAt(task) /\ IsFiniteSet(LiveAt(task))
    BY <2>2, LiveFinite
  <2>4. Cardinality(DOMAIN occupied') <= Cardinality(LiveAt(task))
    BY <2>3, FS_Subset
  <2>5. \E k \in Tasks' : BlobsNow' <= Cardinality(LiveAt(k)')
    BY <1>1, <1>2, <2>1, <2>4
  <2>. QED
    BY <1>1, <1>2, <2>5 DEF FewInv
<1>. QED
  BY <1>7, <1>8

LEMMA AcquireBooks ==
    ASSUME NetInv, TypeOK, ForestInv, LoopInv, BooksInv, AcquireHandle
    PROVE  BooksInv'
<1>1. PICK h : Acquires(h)
  BY AcquiresOne DEF BooksInv
<1>. QED
  BY <1>1, AcquireFlight, AcquireBlob, AcquireComplete, AcquirePlace, AcquireFew DEF BooksInv

--------------------------------------------------------------------------------
(* A read is counted off *)

LEMMA ReleaseFacts ==
    ASSUME NetInv, TypeOK, ForestInv, LoopInv, FlightInv, AtHandle, stage = "release",
           NEW h, h = Listed[slot], h \notin ConstHandles,
           slot' = slot + 1, phase' \in {"lifetimes", "placing"}, UNCHANGED <<graph, handles, task, stage>>
    PROVE  /\ h \in Nodes \ ConstHandles /\ h \in DOMAIN inFlight /\ inFlight[h] \in Nat \ {0} /\ Begun(h)
           /\ inFlight[h] = Cardinality(Open(h)) /\ IsFiniteSet(Open(h)) /\ <<task, slot>> \in Open(h)
           /\ Open(h)' = Open(h) \ {<<task, slot>>}
           /\ \A g : Begun(g)' <=> Begun(g)
           /\ \A g : g # h => Open(g)' = Open(g)
<1>1. phase = "lifetimes" /\ slot \in DOMAIN Listed /\ ~Configured /\ ~Configured'
  BY DEF AtHandle, Configured
<1>2. task \in Tasks /\ task \in Nodes /\ task \in Nat
  BY <1>1, TasksFacts DEF LoopInv
<1>3. slot \in DOMAIN net[task].ins /\ h = parent[net[task].ins[slot]] /\ slot \in Nat
  BY <1>1 DEF Listed, InputHandles, TypeOK
<1>4. PICK i \in Ins(task) : h = parent[i]
  BY <1>2, <1>3, NetFacts
<1>5. h \in Nodes \ ConstHandles
  BY <1>2, <1>4, NetFacts DEF TypeOK
<1>6. Begun(h)
  <2>1. PICK n \in Tasks : n < task /\ parent[n] = parent[i]
    BY <1>2, <1>4, ReadAfterWritten
  <2>. QED
    BY <1>1, <1>4, <2>1 DEF Begun, Acquired
<1>7. <<task, slot>> \in Reads(h)
  BY <1>2, <1>3, ReadsAre
<1>8. <<task, slot>> \in Open(h)
  BY <1>1, <1>2, <1>3, <1>7 DEF Open, Ahead
<1>9. h \in DOMAIN inFlight
  BY <1>5, <1>6, <1>8 DEF FlightInv
<1>10. inFlight[h] = Cardinality(Open(h)) /\ inFlight[h] \in Nat \ {0}
  BY <1>9 DEF FlightInv, TypeOK
<1>11. IsFiniteSet(Open(h))
  <2>1. Open(h) \in SUBSET Reads(h)
    BY DEF Open
  <2>. QED
    BY <2>1, ReadsFinite, FS_Subset
<1>12. Tasks' = Tasks /\ parent' = parent /\ \A g : Reads(g)' = Reads(g)
  BY Same
<1>13. ASSUME NEW g PROVE Begun(g)' <=> Begun(g)
  <2>1. \A n : Acquired(n)' <=> Acquired(n)
    BY <1>1 DEF Acquired
  <2>. QED
    BY <1>12, <2>1 DEF Begun
<1>14. ASSUME NEW g, NEW r \in Reads(g) PROVE Ahead(r)' <=> Ahead(r) /\ r # <<task, slot>>
  <2>1. PICK k \in Tasks : \E j \in DOMAIN net[k].ins : r = <<k, j>> /\ parent[net[k].ins[j]] = g
    BY ReadsAre
  <2>2. PICK j \in DOMAIN net[k].ins : r = <<k, j>> /\ parent[net[k].ins[j]] = g
    BY <2>1
  <2>3. k \in Nat /\ j \in Nat
    BY TasksFacts, NetFacts
  <2>4. r[1] = k /\ r[2] = j /\ (r = <<task, slot>> <=> k = task /\ j = slot)
    BY <2>2
  <2>. QED
    BY <1>1, <1>2, <1>3, <2>3, <2>4 DEF Ahead
<1>15. Open(h)' = Open(h) \ {<<task, slot>>}
  <2>1. \A r \in Reads(h) : r \in Open(h)' <=> r \in Open(h) /\ r # <<task, slot>>
    BY <1>12, <1>14 DEF Open
  <2>2. \A r \in Open(h)' : r \in Reads(h)
    BY <1>12 DEF Open
  <2>3. \A r \in Open(h) : r \in Reads(h)
    BY DEF Open
  <2>. QED
    BY <2>1, <2>2, <2>3
<1>16. ASSUME NEW g, g # h PROVE Open(g)' = Open(g)
  <2>1. <<task, slot>> \notin Reads(g)
    BY <1>3, <1>16, ReadsAre
  <2>. QED
    BY <1>12, <1>14, <2>1 DEF Open
<1>. QED
  BY <1>5, <1>6, <1>8, <1>9, <1>10, <1>11, <1>13, <1>15, <1>16

LEMMA ReleaseOver ==
    ASSUME NetInv, TypeOK, ForestInv, LoopInv, FlightInv, AtHandle, stage = "release",
           NEW h, h = Listed[slot], h \notin ConstHandles,
           slot' = slot + 1, phase' \in {"lifetimes", "placing"}, UNCHANGED <<graph, handles, task, stage>>,
           NEW g, Over(g)
    PROVE  Over(g)' /\ g # h
<1>1. \A f : Begun(f)' <=> Begun(f)
  BY ReleaseFacts
<1>2. Open(h) # {} /\ Open(h)' \subseteq Open(h) /\ \A f : f # h => Open(f)' = Open(f)
  BY ReleaseFacts
<1>3. Nodes' = Nodes /\ ConstHandles' = ConstHandles
  BY Same
<1>. QED
  BY <1>1, <1>2, <1>3 DEF Over

LEMMA OneLess ==
    \A S, x : IsFiniteSet(S) /\ x \in S =>
        IsFiniteSet(S \ {x}) /\ Cardinality(S \ {x}) = Cardinality(S) - 1 /\ Cardinality(S) \in Nat
BY FS_RemoveElement, FS_CardinalityType

LEMMA ReadBooks ==
    ASSUME NetInv, TypeOK, ForestInv, LoopInv, BooksInv, ReleaseRead
    PROVE  BooksInv'
<1>1. PICK h : h = Listed[slot]
  OBVIOUS
<1>2. /\ AtHandle /\ stage = "release" /\ h \notin ConstHandles /\ inFlight[h] > 1
      /\ inFlight' = [inFlight EXCEPT ![h] = @ - 1] /\ slot' = slot + 1
      /\ phase = "lifetimes" /\ phase' = phase /\ UNCHANGED <<graph, handles, task, stage, occupied, free, cursor, pool>>
  BY <1>1 DEF ReleaseRead, AtHandle
<1>. USE DEF BooksInv
<1>3. /\ h \in Nodes \ ConstHandles /\ h \in DOMAIN inFlight /\ inFlight[h] \in Nat \ {0} /\ Begun(h)
      /\ inFlight[h] = Cardinality(Open(h)) /\ IsFiniteSet(Open(h)) /\ <<task, slot>> \in Open(h)
      /\ Open(h)' = Open(h) \ {<<task, slot>>}
      /\ \A g : Begun(g)' <=> Begun(g)
      /\ \A g : g # h => Open(g)' = Open(g)
  BY <1>1, <1>2, ReleaseFacts
<1>4. \A g : Over(g) => Over(g)'
  BY <1>1, <1>2, ReleaseOver
<1>5. BlobInv' /\ CompleteInv' /\ PlaceInv' /\ FewInv'
  <2>1. UNCHANGED <<graph, handles, occupied, free, mappings>> /\ UNCHANGED <<graph, handles, occupied, free, pool, cursor>>
    BY <1>2 DEF pool
  <2>2. BlobInv' /\ PlaceInv'
    BY <1>2, <1>4, <2>1, BlobKept, PlaceKept
  <2>3. CompleteInv' /\ FewInv'
    BY <1>2, <1>3, <2>1, CompleteKept, FewKept
  <2>. QED
    BY <2>2, <2>3
<1>6. Cardinality(Open(h)') = inFlight[h] - 1 /\ Open(h)' # {}
  <2>1. Cardinality(Open(h) \ {<<task, slot>>}) = Cardinality(Open(h)) - 1
    BY <1>3, OneLess
  <2>2. Cardinality(Open(h)') > 0
    BY <1>2, <1>3, <2>1
  <2>3. Open(h)' # {}
    BY <2>2, FS_EmptySet
  <2>4. Cardinality(Open(h)') = inFlight[h] - 1
    BY <1>3, <2>1
  <2>. QED
    BY <2>3, <2>4
<1>7. FlightInv'
  <2>1. /\ Nodes' = Nodes /\ ConstHandles' = ConstHandles /\ occupied' = occupied
        /\ DOMAIN inFlight' = DOMAIN inFlight /\ inFlight'[h] = inFlight[h] - 1
        /\ \A g \in DOMAIN inFlight : g # h => inFlight'[g] = inFlight[g]
    BY <1>2, <1>3, Same
  <2>2. ASSUME NEW g \in DOMAIN inFlight'
        PROVE  Begun(g)' /\ Open(g)' # {} /\ inFlight'[g] = Cardinality(Open(g)')
    <3>1. CASE g = h
      BY <1>3, <1>6, <2>1, <3>1
    <3>2. CASE g # h
      BY <1>3, <2>1, <3>2 DEF FlightInv
    <3>. QED
      BY <3>1, <3>2
  <2>3. ASSUME NEW g \in Nodes \ ConstHandles, Begun(g)', Open(g)' # {} PROVE g \in DOMAIN inFlight'
    BY <1>3, <2>1, <2>3 DEF FlightInv
  <2>. QED
    BY <2>1, <2>2, <2>3 DEF FlightInv
<1>. QED
  BY <1>5, <1>7

--------------------------------------------------------------------------------
(* A lifetime is closed *)

LEMMA ApartSymmetric ==
    \A g, h : Apart(g, h) => Apart(h, g)
BY DEF Apart

\* A sequence with an element put in front.
LEMMA Prepended ==
    ASSUME NEW B, NEW s \in Seq(B), NEW e \in B
    PROVE  LET t == <<e>> \o s
           IN  /\ t \in Seq(B) /\ Len(s) \in Nat /\ Len(t) = Len(s) + 1
               /\ DOMAIN s = 1 .. Len(s) /\ DOMAIN t = 1 .. Len(s) + 1
               /\ t[1] = e
               /\ \A k \in DOMAIN s : k + 1 \in DOMAIN t /\ t[k + 1] = s[k]
               /\ \A k \in DOMAIN t : k = 1 \/ (k - 1 \in DOMAIN s /\ t[k] = s[k - 1])
<1>. DEFINE t == <<e>> \o s
<1>1. <<e>> \in Seq(B) /\ Len(<<e>>) = 1 /\ <<e>>[1] = e
  OBVIOUS
<1>2. Len(s) \in Nat /\ DOMAIN s = 1 .. Len(s)
  BY LenProperties
<1>3. /\ t \in Seq(B) /\ Len(t) = 1 + Len(s)
      /\ \A i \in 1 .. 1 + Len(s) : t[i] = IF i <= 1 THEN <<e>>[i] ELSE s[i - 1]
  <2>. HIDE DEF t
  <2>1. /\ t \in Seq(B) /\ Len(t) = Len(<<e>>) + Len(s)
        /\ \A i \in 1 .. Len(<<e>>) + Len(s) : t[i] = IF i <= Len(<<e>>) THEN <<e>>[i] ELSE s[i - Len(<<e>>)]
    BY <1>1, ConcatProperties DEF t
  <2>. QED
    BY <1>1, <2>1
<1>4. DOMAIN t = 1 .. Len(s) + 1
  BY <1>2, <1>3, LenProperties
<1>. HIDE DEF t
<1>5. t[1] = e
  BY <1>1, <1>2, <1>3
<1>6. \A k \in DOMAIN s : k + 1 \in DOMAIN t /\ t[k + 1] = s[k]
  BY <1>2, <1>3, <1>4
<1>7. \A k \in DOMAIN t : k = 1 \/ (k - 1 \in DOMAIN s /\ t[k] = s[k - 1])
  BY <1>2, <1>3, <1>4
<1>. QED
  BY <1>2, <1>3, <1>4, <1>5, <1>6, <1>7 DEF t

\* What ReleaseLast does, in the terms of the invariant.
Closes(h) ==
    /\ phase = "lifetimes" /\ h \in Nodes \ ConstHandles /\ h \in DOMAIN inFlight
    /\ inFlight' = Without(inFlight, h) /\ occupied' = Without(occupied, h) /\ free' = <<Freed(h)>> \o free
    /\ phase' = (IF DOMAIN occupied = {h} THEN "placing" ELSE "lifetimes")
    /\ cursor' = [index |-> 1, offset |-> 0, needed |-> 0]
    /\ Over(h)' /\ Open(h)' = {} /\ (\A g : Over(g) => Over(g)' /\ g # h)
    /\ (\A g : Begun(g)' <=> Begun(g)) /\ (\A g : g # h => Open(g)' = Open(g))
    /\ UNCHANGED <<graph, handles, pool>>

LEMMA LastCloses ==
    ASSUME NetInv, TypeOK, ForestInv, LoopInv, FlightInv, ReleaseLast
    PROVE  \E h : Closes(h)
<1>1. PICK h : h = Listed[slot]
  OBVIOUS
<1>2. /\ AtHandle /\ stage = "release" /\ h \notin ConstHandles /\ inFlight[h] <= 1
      /\ inFlight' = Without(inFlight, h) /\ occupied' = Without(occupied, h) /\ free' = <<Freed(h)>> \o free
      /\ phase = "lifetimes" /\ phase' = (IF DOMAIN occupied = {h} THEN "placing" ELSE "lifetimes")
      /\ cursor' = [index |-> 1, offset |-> 0, needed |-> 0]
      /\ slot' = slot + 1 /\ UNCHANGED <<graph, handles, task, stage, pool>>
  BY <1>1 DEF ReleaseLast, AtHandle
<1>3. /\ h \in Nodes \ ConstHandles /\ h \in DOMAIN inFlight /\ inFlight[h] \in Nat \ {0} /\ Begun(h)
      /\ inFlight[h] = Cardinality(Open(h)) /\ IsFiniteSet(Open(h)) /\ <<task, slot>> \in Open(h)
      /\ Open(h)' = Open(h) \ {<<task, slot>>}
      /\ \A g : Begun(g)' <=> Begun(g)
      /\ \A g : g # h => Open(g)' = Open(g)
  BY <1>1, <1>2, ReleaseFacts
<1>4. \A g : Over(g) => Over(g)' /\ g # h
  BY <1>1, <1>2, ReleaseOver
<1>5. Open(h)' = {}
  <2>1. /\ Cardinality(Open(h) \ {<<task, slot>>}) = Cardinality(Open(h)) - 1
        /\ IsFiniteSet(Open(h) \ {<<task, slot>>})
    BY <1>3, OneLess
  <2>2. Cardinality(Open(h) \ {<<task, slot>>}) = 0
    BY <1>2, <1>3, <2>1
  <2>3. Open(h) \ {<<task, slot>>} = {}
    BY <2>1, <2>2, FS_EmptySet
  <2>. QED
    BY <1>3, <2>3
<1>6. Over(h)'
  BY <1>2, <1>3, <1>5, Same DEF Over
<1>. QED
  BY <1>2, <1>3, <1>4, <1>5, <1>6 DEF Closes

LEMMA ClosedSets ==
    ASSUME NetInv, TypeOK, FlightInv, BlobInv, NEW h, Closes(h)
    PROVE  /\ h \in DOMAIN occupied /\ DOMAIN occupied' = DOMAIN occupied \ {h} /\ DOMAIN inFlight' = DOMAIN inFlight \ {h}
           /\ \A g \in DOMAIN occupied' : /\ g \in DOMAIN occupied /\ g # h /\ occupied'[g] = occupied[g]
                                          /\ inFlight'[g] = inFlight[g] /\ Members(g)' = Members(g)
           /\ IsBlob(Freed(h)) /\ Freed(h).bound = Members(h)
           /\ free' \in Seq([size : Nat, bound : SUBSET Nodes]) /\ Len(free) \in Nat /\ Len(free') = Len(free) + 1
           /\ 1 \in DOMAIN free' /\ free'[1] = Freed(h)
           /\ DOMAIN free' = 1 .. Len(free) + 1
           /\ \A k \in DOMAIN free : k + 1 \in DOMAIN free' /\ free'[k + 1] = free[k]
           /\ \A k \in DOMAIN free' : k = 1 \/ (k - 1 \in DOMAIN free /\ free'[k] = free[k - 1])
<1>. DEFINE Blob == [size : Nat, bound : SUBSET Nodes]
<1>1. h \in DOMAIN occupied /\ h \in Nodes
  BY DEF Closes, FlightInv
<1>2. inFlight' = Without(inFlight, h) /\ occupied' = Without(occupied, h) /\ free' = <<Freed(h)>> \o free
  BY DEF Closes
<1>3. DOMAIN occupied' = DOMAIN occupied \ {h} /\ DOMAIN inFlight' = DOMAIN inFlight \ {h} /\ DOMAIN occupied = DOMAIN inFlight
  BY <1>2 DEF Without, FlightInv
<1>4. \A g \in DOMAIN occupied' : g \in DOMAIN occupied /\ g # h /\ occupied'[g] = occupied[g] /\ inFlight'[g] = inFlight[g]
  BY <1>2, <1>3 DEF Without
<1>5. \A g \in DOMAIN occupied' : Members(g)' = Members(g)
  BY <1>4 DEF Members
<1>6. occupied[h].size \in Nat /\ occupied[h].bound \subseteq Nodes /\ net[h].size \in Nat
  BY <1>1, NetFacts DEF BlobInv, IsBlob
<1>7. Freed(h) \in Blob /\ IsBlob(Freed(h)) /\ Freed(h).bound = Members(h)
  BY <1>1, <1>6 DEF Freed, IsBlob, Members, Larger
<1>8. free \in Seq(Blob)
  BY DEF TypeOK
<1>. HIDE DEF Blob
<1>9. /\ free' \in Seq(Blob) /\ Len(free) \in Nat /\ Len(free') = Len(free) + 1
      /\ DOMAIN free = 1 .. Len(free) /\ DOMAIN free' = 1 .. Len(free) + 1
      /\ free'[1] = Freed(h)
      /\ \A k \in DOMAIN free : k + 1 \in DOMAIN free' /\ free'[k + 1] = free[k]
      /\ \A k \in DOMAIN free' : k = 1 \/ (k - 1 \in DOMAIN free /\ free'[k] = free[k - 1])
  BY <1>2, <1>7, <1>8, Prepended
<1>10. 1 \in DOMAIN free'
  BY <1>9
<1>. QED
  BY <1>1, <1>3, <1>4, <1>5, <1>7, <1>9, <1>10 DEF Blob

LEMMA LastFlight ==
    ASSUME NetInv, TypeOK, FlightInv, BlobInv, NEW h, Closes(h)
    PROVE  FlightInv'
<1>1. /\ DOMAIN occupied' = DOMAIN occupied \ {h} /\ DOMAIN inFlight' = DOMAIN inFlight \ {h}
      /\ \A g \in DOMAIN occupied' : g \in DOMAIN occupied /\ g # h /\ inFlight'[g] = inFlight[g]
  BY ClosedSets
<1>2. /\ Nodes' = Nodes /\ ConstHandles' = ConstHandles /\ Open(h)' = {}
      /\ (\A g : Begun(g)' <=> Begun(g)) /\ (\A g : g # h => Open(g)' = Open(g))
  BY Same DEF Closes
<1>. QED
  BY <1>1, <1>2 DEF FlightInv

LEMMA LastBlob ==
    ASSUME NetInv, TypeOK, FlightInv, BlobInv, NEW h, Closes(h)
    PROVE  BlobInv'
<1>1. /\ h \in DOMAIN occupied /\ DOMAIN occupied' = DOMAIN occupied \ {h}
      /\ \A g \in DOMAIN occupied' : /\ g \in DOMAIN occupied /\ g # h /\ occupied'[g] = occupied[g]
                                     /\ Members(g)' = Members(g)
      /\ IsBlob(Freed(h)) /\ Freed(h).bound = Members(h)
      /\ DOMAIN free' = 1 .. Len(free) + 1 /\ Len(free) \in Nat
      /\ 1 \in DOMAIN free' /\ free'[1] = Freed(h)
      /\ \A k \in DOMAIN free' : k = 1 \/ (k - 1 \in DOMAIN free /\ free'[k] = free[k - 1])
  BY ClosedSets
<1>2. UNCHANGED <<graph, handles, mappings>> /\ Over(h)' /\ \A g : Over(g) => Over(g)'
  BY DEF Closes, pool
<1>3. net' = net /\ Nodes' = Nodes /\ mappings' = mappings /\ \A f, g : Apart(f, g)' = Apart(f, g)
  BY <1>2, Same
<1>4. \A S, size : Bound(S, size) => Bound(S, size)'
  BY <1>2, BoundKept
<1>5. ASSUME NEW g \in DOMAIN occupied'
      PROVE  /\ IsBlob(occupied[g])' /\ g \notin DOMAIN mappings'
             /\ Bound(occupied[g].bound \ {g}, occupied[g].size)'
             /\ \A f \in occupied'[g].bound \ {g} : Apart(f, g)'
  <2>1. g \in DOMAIN occupied /\ occupied'[g] = occupied[g]
    BY <1>1
  <2>2. PICK S, size : S = occupied[g].bound \ {g} /\ size = occupied[g].size
    OBVIOUS
  <2>3. Bound(S, size)'
    BY <1>4, <2>1, <2>2 DEF BlobInv
  <2>4. Bound(occupied[g].bound \ {g}, occupied[g].size)'
    BY <2>1, <2>2, <2>3 DEF Bound
  <2>. QED
    BY <1>3, <2>1, <2>4 DEF BlobInv, IsBlob
<1>6. PICK S, size : S = Members(h) /\ size = Freed(h).size
  OBVIOUS
<1>7. Bound(S, size)'
  <2>1. occupied[h].size \in Nat /\ net[h].size \in Nat /\ h \in Nodes
    BY <1>1, NetFacts DEF Closes, BlobInv, IsBlob
  <2>2. occupied[h].size <= size /\ net[h].size <= size /\ size \in Nat
    BY <1>6, <2>1 DEF Freed, Larger
  <2>3. Bound(occupied[h].bound \ {h}, occupied[h].size) /\ h \notin DOMAIN mappings
        /\ \A g \in occupied[h].bound \ {h} : Apart(g, h)
    BY <1>1 DEF BlobInv
  <2>4. \A g \in S : g = h \/ g \in occupied[h].bound \ {h}
    BY <1>6 DEF Members
  <2>5. ASSUME NEW g \in S PROVE Over(g)' /\ net[g].size <= size /\ g \notin DOMAIN mappings
    <3>1. CASE g = h
      BY <1>2, <2>2, <2>3, <3>1
    <3>2. CASE g \in occupied[h].bound \ {h}
      <4>1. Over(g) /\ net[g].size <= occupied[h].size /\ g \notin DOMAIN mappings
        BY <2>3, <3>2 DEF Bound
      <4>2. net[g].size \in Nat
        BY <4>1, NetFacts DEF Over
      <4>. QED
        BY <1>2, <2>1, <2>2, <4>1, <4>2
    <3>. QED
      BY <2>4, <3>1, <3>2
  <2>6. ASSUME NEW f \in S, NEW g \in S, f # g PROVE Apart(f, g)
    BY <2>3, <2>4, <2>6, ApartSymmetric DEF Bound
  <2>. QED
    BY <1>3, <2>5, <2>6 DEF Bound
<1>8. ASSUME NEW k \in DOMAIN free' PROVE Bound(free[k].bound, free[k].size)'
  <2>1. CASE k = 1
    BY <1>1, <1>6, <1>7, <2>1 DEF Bound
  <2>2. CASE k - 1 \in DOMAIN free /\ free'[k] = free[k - 1]
    <3>1. PICK T, t : T = free[k - 1].bound /\ t = free[k - 1].size
      OBVIOUS
    <3>2. Bound(T, t)'
      BY <1>4, <2>2, <3>1 DEF BlobInv
    <3>. QED
      BY <2>2, <3>1, <3>2 DEF Bound
  <2>. QED
    BY <1>1, <2>1, <2>2
<1>9. \A f, g \in DOMAIN occupied' : f # g => Members(f)' \cap Members(g)' = {}
  BY <1>1 DEF BlobInv
<1>10. ASSUME NEW g \in DOMAIN occupied', NEW k \in DOMAIN free' PROVE Members(g)' \cap free'[k].bound = {}
  <2>1. \A f \in DOMAIN occupied, l \in DOMAIN free : Members(f) \cap free[l].bound = {}
    BY DEF BlobInv
  <2>2. Members(g) \cap Members(h) = {}
    BY <1>1 DEF BlobInv
  <2>. QED
    BY <1>1, <2>1, <2>2
<1>11. ASSUME NEW k \in DOMAIN free', NEW l \in DOMAIN free', k # l PROVE free'[k].bound \cap free'[l].bound = {}
  <2>1. k \in Nat /\ l \in Nat
    BY <1>1
  <2>2. \A f \in DOMAIN occupied, i \in DOMAIN free : Members(f) \cap free[i].bound = {}
    BY DEF BlobInv
  <2>3. \A i, j \in DOMAIN free : i # j => free[i].bound \cap free[j].bound = {}
    BY DEF BlobInv
  <2>. QED
    BY <1>1, <1>11, <2>1, <2>2, <2>3
<1>. QED
  BY <1>5, <1>8, <1>9, <1>10, <1>11 DEF BlobInv

LEMMA LastActive ==
    ASSUME NetInv, TypeOK, FlightInv, BlobInv, NEW h, Closes(h)
    PROVE  Active' = Active
<1>1. /\ h \in DOMAIN occupied /\ DOMAIN occupied' = DOMAIN occupied \ {h}
      /\ \A g \in DOMAIN occupied' : Members(g)' = Members(g)
      /\ Freed(h).bound = Members(h)
      /\ 1 \in DOMAIN free' /\ free'[1] = Freed(h)
      /\ \A k \in DOMAIN free : k + 1 \in DOMAIN free' /\ free'[k + 1] = free[k]
      /\ \A k \in DOMAIN free' : k = 1 \/ (k - 1 \in DOMAIN free /\ free'[k] = free[k - 1])
  BY ClosedSets
<1>2. ASSUME NEW g PROVE (g \in Active') <=> (g \in Active)
  <2>1. (g \in Active) <=> \/ \E f \in DOMAIN occupied : g \in Members(f)
                           \/ \E k \in DOMAIN free : g \in free[k].bound
    BY DEF Active
  <2>2. (g \in Active') <=> \/ \E f \in DOMAIN occupied' : g \in Members(f)'
                            \/ \E k \in DOMAIN free' : g \in free'[k].bound
    BY DEF Active
  <2>3. (\E f \in DOMAIN occupied : g \in Members(f)) <=>
          g \in Members(h) \/ \E f \in DOMAIN occupied' : g \in Members(f)'
    BY <1>1
  <2>4. (\E k \in DOMAIN free' : g \in free'[k].bound) <=>
          g \in Members(h) \/ \E k \in DOMAIN free : g \in free[k].bound
    BY <1>1
  <2>. QED
    BY <2>1, <2>2, <2>3, <2>4
<1>. QED
  BY <1>2

LEMMA LastBooks ==
    ASSUME NetInv, TypeOK, ForestInv, LoopInv, BooksInv, ReleaseLast
    PROVE  BooksInv'
<1>. USE DEF BooksInv
<1>1. PICK h : Closes(h)
  BY LastCloses
<1>2. FlightInv' /\ BlobInv'
  BY <1>1, LastFlight, LastBlob
<1>3. Active' = Active
  BY <1>1, LastActive
<1>4. /\ phase = "lifetimes" /\ phase' = (IF DOMAIN occupied = {h} THEN "placing" ELSE "lifetimes")
      /\ mappings' = mappings /\ areas' = areas /\ owners' = owners /\ cursor' = [index |-> 1, offset |-> 0, needed |-> 0]
      /\ (\A g : Over(g) => Over(g)') /\ (\A g : Begun(g)' <=> Begun(g)) /\ UNCHANGED <<graph, handles>>
  BY <1>1 DEF Closes, pool
<1>5. /\ net' = net /\ manager' = manager /\ Nodes' = Nodes /\ ConstHandles' = ConstHandles /\ Tasks' = Tasks
      /\ (\A f, g : Apart(f, g)' = Apart(f, g)) /\ (\A k : LiveAt(k)' = LiveAt(k))
  BY <1>4, Same
<1>6. h \in DOMAIN occupied /\ DOMAIN occupied' = DOMAIN occupied \ {h} /\ Len(free) \in Nat /\ Len(free') = Len(free) + 1
  BY <1>1, ClosedSets
<1>7. CompleteInv'
  <2>1. phase' = "placing" => DOMAIN occupied' = {}
    BY <1>4, <1>6
  <2>2. phase' # "placing" => DOMAIN occupied' # {}
    BY <1>4, <1>6
  <2>. QED
    BY <1>3, <1>4, <1>5, <2>1, <2>2 DEF CompleteInv
<1>8. PlaceInv'
  <2>1. \A g : ~Below(g)
    BY <1>4 DEF Below
  <2>2. \A f, g : Beside(f, g)' = Beside(f, g)
    BY <1>4, <1>5 DEF Beside
  <2>3. cursor'.index = 1 /\ cursor'.offset = 0 /\ cursor'.needed = 0
    BY <1>4
  <2>. QED
    BY <1>3, <1>4, <1>5, <2>1, <2>2, <2>3 DEF PlaceInv
<1>9. FewInv'
  <2>1. DOMAIN occupied \in SUBSET Nodes /\ IsFiniteSet(Nodes)
    BY LiveFinite DEF TypeOK
  <2>2. IsFiniteSet(DOMAIN occupied)
    BY <2>1, FS_Subset
  <2>3. Cardinality(DOMAIN occupied') = Cardinality(DOMAIN occupied) - 1 /\ Cardinality(DOMAIN occupied) \in Nat
    BY <1>6, <2>2, OneLess
  <2>4. BlobsNow' = BlobsNow
    BY <1>4, <1>6, <2>3 DEF BlobsNow
  <2>5. NumBlobs' = NumBlobs /\ phase' # "mutating"
    BY <1>4, <1>5 DEF NumBlobs
  <2>. QED
    BY <1>4, <1>5, <2>4, <2>5 DEF FewInv
<1>. QED
  BY <1>2, <1>7, <1>8, <1>9

--------------------------------------------------------------------------------
(* Places are given *)

LEMMA Removed ==
    ASSUME NEW B, NEW s \in Seq(B), NEW k \in DOMAIN s, NEW t, t = RemoveAt(s, k)
    PROVE  /\ t \in Seq(B) /\ Len(s) \in Nat \ {0} /\ Len(t) = Len(s) - 1
           /\ DOMAIN s = 1 .. Len(s) /\ DOMAIN t = 1 .. Len(s) - 1
           /\ \A j \in DOMAIN t : j < k => j \in DOMAIN s /\ t[j] = s[j]
           /\ \A j \in DOMAIN t : j >= k => j + 1 \in DOMAIN s /\ t[j] = s[j + 1]
<1>. DEFINE front == SubSeq(s, 1, k - 1)
            back == SubSeq(s, k + 1, Len(s))
<1>1. Len(s) \in Nat /\ DOMAIN s = 1 .. Len(s) /\ k \in 1 .. Len(s)
  BY LenProperties
<1>2. \A i \in 1 .. Len(s) : s[i] \in B
  BY <1>1, ElementOfSeq
<1>3. /\ front \in Seq(B) /\ Len(front) = k - 1
      /\ \A i \in 1 .. k - 1 : front[i] = s[i]
  <2>1. k - 1 \in Int /\ \A i \in 1 .. k - 1 : s[i] \in B
    BY <1>1, <1>2
  <2>2. /\ front \in Seq(B) /\ Len(front) = (IF 1 <= k - 1 THEN (k - 1) - 1 + 1 ELSE 0)
        /\ \A i \in 1 .. (k - 1) - 1 + 1 : front[i] = s[1 + i - 1]
    BY <2>1, SubSeqProperties
  <2>. HIDE DEF front
  <2>. QED
    BY <1>1, <2>2
<1>4. /\ back \in Seq(B) /\ Len(back) = Len(s) - k
      /\ \A i \in 1 .. Len(s) - k : back[i] = s[k + i]
  <2>1. k + 1 \in Int /\ Len(s) \in Int /\ \A i \in k + 1 .. Len(s) : s[i] \in B
    BY <1>1, <1>2
  <2>2. /\ back \in Seq(B) /\ Len(back) = (IF k + 1 <= Len(s) THEN Len(s) - (k + 1) + 1 ELSE 0)
        /\ \A i \in 1 .. Len(s) - (k + 1) + 1 : back[i] = s[(k + 1) + i - 1]
    BY <2>1, SubSeqProperties
  <2>. HIDE DEF back
  <2>3. Len(s) - (k + 1) + 1 = Len(s) - k /\ \A i \in 1 .. Len(s) - k : (k + 1) + i - 1 = k + i
    BY <1>1
  <2>4. Len(back) = Len(s) - k
    BY <1>1, <2>2
  <2>5. \A i \in 1 .. Len(s) - k : back[i] = s[k + i]
    BY <2>2, <2>3
  <2>. QED
    BY <2>2, <2>4, <2>5
<1>5. t = front \o back
  BY DEF RemoveAt
<1>. HIDE DEF front, back
<1>6. /\ t \in Seq(B) /\ Len(t) = Len(front) + Len(back)
      /\ \A i \in 1 .. Len(front) + Len(back) : t[i] = IF i <= Len(front) THEN front[i] ELSE back[i - Len(front)]
  <2>1. front \in Seq(B) /\ back \in Seq(B)
    BY <1>3, <1>4
  <2>. QED
    BY <1>5, <2>1, ConcatProperties
<1>7. Len(t) = Len(s) - 1 /\ DOMAIN t = 1 .. Len(s) - 1
  <2>1. DOMAIN t = 1 .. Len(t)
    BY <1>6, LenProperties
  <2>. QED
    BY <1>1, <1>3, <1>4, <1>6, <2>1
<1>8. ASSUME NEW j \in DOMAIN t, j < k PROVE j \in DOMAIN s /\ t[j] = s[j]
  <2>1. j \in 1 .. Len(s) - 1 /\ j \in 1 .. k - 1 /\ j \in 1 .. Len(s)
    BY <1>1, <1>7, <1>8
  <2>2. t[j] = front[j]
    BY <1>1, <1>3, <1>4, <1>6, <2>1
  <2>. QED
    BY <1>1, <1>3, <2>1, <2>2
<1>9. ASSUME NEW j \in DOMAIN t, j >= k PROVE j + 1 \in DOMAIN s /\ t[j] = s[j + 1]
  <2>1. j \in Nat /\ j <= Len(s) - 1 /\ j - (k - 1) \in 1 .. Len(s) - k /\ k + (j - (k - 1)) = j + 1
    BY <1>1, <1>7, <1>9
  <2>2. Len(front) = k - 1 /\ Len(back) = Len(s) - k
    BY <1>3, <1>4
  <2>3. j \in 1 .. Len(front) + Len(back) /\ ~(j <= Len(front))
    BY <1>1, <1>9, <2>1, <2>2
  <2>4. t[j] = back[j - Len(front)]
    BY <1>6, <2>3
  <2>5. t[j] = back[j - (k - 1)]
    BY <2>2, <2>4
  <2>. QED
    BY <1>1, <1>4, <2>1, <2>5
<1>10. Len(s) \in Nat \ {0} /\ DOMAIN s = 1 .. Len(s)
  BY <1>1
<1>11. t \in Seq(B)
  BY <1>6
<1>. HIDE <1>1, <1>6
<1>. QED
  BY <1>7, <1>8, <1>9, <1>10, <1>11

LEMMA AlignedUp ==
    ASSUME NEW x \in Nat
    PROVE  AlignOffset(x) \in Nat /\ x <= AlignOffset(x) /\ AlignOffset(x) <= x + Alignment /\ Alignment \in Nat
<1>1. Alignment \in Nat \ {0}
  BY AlignmentAssumption
<1>2. x % Alignment \in 0 .. Alignment - 1
  BY <1>1
<1>3. Alignment - (x % Alignment) \in Nat
  BY <1>1, <1>2
<1>4. PICK y \in Nat : y = Alignment - (x % Alignment)
  BY <1>3
<1>5. y % Alignment \in 0 .. Alignment - 1
  BY <1>1, <1>4
<1>6. AlignOffset(x) = x + (y % Alignment)
  BY <1>4 DEF AlignOffset
<1>. QED
  BY <1>1, <1>5, <1>6

LEMMA WidenedIs ==
    ASSUME TypeOK, NEW k \in Nat \ {0}, NEW size \in Nat, NEW w, w = Widened(k, size)
    PROVE  /\ w \in Seq(Nat) /\ Len(areas) \in Nat
           /\ Len(w) = Larger(Len(areas), k) /\ DOMAIN w = 1 .. Larger(Len(areas), k)
           /\ k \in DOMAIN w /\ size <= w[k] /\ w[k] \in Nat
           /\ \A i \in DOMAIN areas : i \in DOMAIN w /\ areas[i] \in Nat /\ w[i] \in Nat /\ areas[i] <= w[i]
<1>1. areas \in Seq(Nat) /\ Len(areas) \in Nat /\ DOMAIN areas = 1 .. Len(areas)
  BY LenProperties DEF TypeOK
<1>2. Larger(Len(areas), k) \in Nat /\ Len(areas) <= Larger(Len(areas), k) /\ k <= Larger(Len(areas), k)
  BY <1>1 DEF Larger
<1>3. \A i \in Nat : SizeAt(i) \in Nat
  BY <1>1, ElementOfSeq DEF SizeAt
<1>. DEFINE n == Larger(Len(areas), k)
<1>4. w = [i \in 1 .. n |-> IF i = k THEN Larger(SizeAt(i), size) ELSE SizeAt(i)]
  BY DEF Widened
<1>. HIDE DEF n
<1>5. ASSUME NEW i \in 1 .. n PROVE w[i] \in Nat
  <2>1. i \in Nat
    OBVIOUS
  <2>2. w[i] = IF i = k THEN Larger(SizeAt(i), size) ELSE SizeAt(i)
    BY <1>4
  <2>. QED
    BY <1>3, <2>1, <2>2 DEF Larger
<1>6. w \in [1 .. n -> Nat]
  BY <1>4, <1>5
<1>7. w \in Seq(Nat) /\ Len(w) = n /\ DOMAIN w = 1 .. n
  <2>1. n \in Nat
    BY <1>2 DEF n
  <2>. QED
    BY <1>6, <2>1
<1>8. k \in 1 .. n /\ size <= w[k]
  <2>1. k \in 1 .. n
    BY <1>2 DEF n
  <2>2. w[k] = Larger(SizeAt(k), size)
    BY <1>4, <2>1
  <2>. QED
    BY <1>3, <2>1, <2>2 DEF Larger
<1>9. ASSUME NEW i \in DOMAIN areas PROVE i \in 1 .. n /\ areas[i] \in Nat /\ areas[i] <= w[i]
  <2>1. i \in 1 .. n /\ i \in Nat
    BY <1>1, <1>2 DEF n
  <2>2. SizeAt(i) = areas[i] /\ SizeAt(i) \in Nat
    BY <1>3, <2>1 DEF SizeAt
  <2>3. w[i] = IF i = k THEN Larger(SizeAt(i), size) ELSE SizeAt(i)
    BY <1>4, <2>1
  <2>. QED
    BY <2>1, <2>2, <2>3 DEF Larger
<1>. QED
  BY <1>1, <1>5, <1>7, <1>8, <1>9 DEF n

\* Where the blob that is next is put.
Spot == IF manager = "offsets" THEN <<1, cursor.offset>> ELSE <<cursor.index, 0>>

\* What PlaceBlob does, in the terms of the invariant.
Places(k) ==
    /\ phase = "placing" /\ phase' = "placing" /\ k \in DOMAIN free
    /\ mappings' = With(mappings, free[k].bound, Spot)
    /\ cursor' = [index |-> cursor.index + 1,
                  offset |-> AlignOffset(cursor.offset + free[k].size),
                  needed |-> cursor.needed + free[k].size + Alignment]
    /\ areas' = (IF manager = "offsets" THEN areas ELSE Widened(cursor.index, free[k].size))
    /\ free' = RemoveAt(free, k)
    /\ UNCHANGED <<graph, handles, loops, inFlight, occupied, owners>>

LEMMA BlobPlaced ==
    ASSUME PlaceBlob
    PROVE  \E k : Places(k)
BY DEF PlaceBlob, Places, Spot

LEMMA PlaceMarks ==
    ASSUME NetInv, NEW k, Places(k)
    PROVE  Marked /\ \A g : Over(g) => Over(g)'
<1>1. UNCHANGED <<graph, handles>> /\ ~Configured /\ ~Configured' /\ phase # "mutating" /\ phase' # "mutating"
      /\ UNCHANGED loops
  BY DEF Places, Configured
<1>2. Marked
  BY <1>1, MarkedOther
<1>. QED
  BY <1>1, <1>2, OverKept

\* What is left of the blobs.
LEMMA LeftOver ==
    ASSUME TypeOK, NEW k, Places(k), NEW j \in DOMAIN free
    PROVE  j = k \/ \E i \in DOMAIN free' : free'[i] = free[j]
<1>. DEFINE Blob == [size : Nat, bound : SUBSET Nodes]
<1>1. k \in DOMAIN free /\ free' = RemoveAt(free, k) /\ free \in Seq(Blob)
  BY DEF Places, TypeOK
<1>. HIDE DEF Blob
<1>2. /\ Len(free) \in Nat \ {0} /\ DOMAIN free = 1 .. Len(free) /\ DOMAIN free' = 1 .. Len(free) - 1
      /\ \A i \in DOMAIN free' : i < k => free'[i] = free[i]
      /\ \A i \in DOMAIN free' : i >= k => free'[i] = free[i + 1]
  BY <1>1, Removed
<1>3. CASE j < k
  <2>1. j \in DOMAIN free'
    BY <1>1, <1>2, <1>3
  <2>. QED
    BY <1>2, <1>3, <2>1
<1>4. CASE j > k
  <2>1. j - 1 \in DOMAIN free' /\ j - 1 >= k /\ (j - 1) + 1 = j
    BY <1>1, <1>2, <1>4
  <2>2. free'[j - 1] = free[j]
    BY <1>2, <2>1
  <2>. QED
    BY <2>1, <2>2
<1>. QED
  BY <1>1, <1>2, <1>3, <1>4

\* The blob that is placed.
LEMMA PlacedSets ==
    ASSUME TypeOK, BlobInv, CompleteInv, NEW k, Places(k)
    PROVE  /\ DOMAIN occupied = {} /\ occupied' = occupied
           /\ free[k].size \in Nat /\ Bound(free[k].bound, free[k].size)
           /\ free' \in Seq([size : Nat, bound : SUBSET Nodes])
           /\ Len(free) \in Nat \ {0} /\ Len(free') = Len(free) - 1
           /\ \A j \in DOMAIN free' : j \in Nat
           /\ \A j \in DOMAIN free' : j < k => j \in DOMAIN free /\ free'[j] = free[j]
           /\ \A j \in DOMAIN free' : j >= k => j + 1 \in DOMAIN free /\ free'[j] = free[j + 1]
           /\ k \in Nat
           /\ DOMAIN mappings' = DOMAIN mappings \cup free[k].bound
           /\ \A h \in free[k].bound : mappings'[h] = Spot /\ h \notin DOMAIN mappings
           /\ \A h \in DOMAIN mappings : mappings'[h] = mappings[h]
<1>. DEFINE Blob == [size : Nat, bound : SUBSET Nodes]
<1>1. k \in DOMAIN free /\ free' = RemoveAt(free, k) /\ phase = "placing" /\ occupied' = occupied
      /\ mappings' = With(mappings, free[k].bound, Spot)
  BY DEF Places
<1>2. free \in Seq(Blob)
  BY DEF TypeOK
<1>. HIDE DEF Blob
<1>3. free[k].size \in Nat
  <2>1. k \in 1 .. Len(free)
    BY <1>1, <1>2, LenProperties
  <2>2. free[k] \in Blob
    BY <1>2, <2>1, ElementOfSeq
  <2>. QED
    BY <2>2 DEF Blob
<1>4. /\ free' \in Seq(Blob) /\ Len(free) \in Nat \ {0} /\ Len(free') = Len(free) - 1
      /\ DOMAIN free = 1 .. Len(free) /\ DOMAIN free' = 1 .. Len(free) - 1
      /\ \A j \in DOMAIN free' : j < k => j \in DOMAIN free /\ free'[j] = free[j]
      /\ \A j \in DOMAIN free' : j >= k => j + 1 \in DOMAIN free /\ free'[j] = free[j + 1]
  BY <1>1, <1>2, Removed
<1>5. k \in Nat /\ \A j \in DOMAIN free' : j \in Nat
  BY <1>1, <1>4
<1>7. Bound(free[k].bound, free[k].size) /\ DOMAIN occupied = {}
  BY <1>1 DEF BlobInv, CompleteInv
<1>8. \A h \in free[k].bound : h \notin DOMAIN mappings
  BY <1>7 DEF Bound
<1>9. /\ DOMAIN mappings' = DOMAIN mappings \cup free[k].bound
      /\ \A h \in free[k].bound : mappings'[h] = Spot
      /\ \A h \in DOMAIN mappings : mappings'[h] = mappings[h]
  <2>1. PICK S : S = free[k].bound
    OBVIOUS
  <2>2. mappings' = With(mappings, S, Spot) /\ \A h \in S : h \notin DOMAIN mappings
    BY <1>1, <1>8, <2>1
  <2>3. /\ DOMAIN mappings' = DOMAIN mappings \cup S
        /\ \A h \in S : mappings'[h] = Spot
        /\ \A h \in DOMAIN mappings : mappings'[h] = mappings[h]
    BY <2>2 DEF With
  <2>. QED
    BY <2>1, <2>3
<1>. QED
  BY <1>1, <1>3, <1>4, <1>5, <1>7, <1>8, <1>9 DEF Blob

LEMMA PlaceBlobs ==
    ASSUME NetInv, TypeOK, BlobInv, CompleteInv, NEW k, Places(k)
    PROVE  BlobInv'
<1>1. /\ DOMAIN occupied = {} /\ occupied' = occupied
      /\ \A j \in DOMAIN free' : j \in Nat
      /\ \A j \in DOMAIN free' : j < k => j \in DOMAIN free /\ free'[j] = free[j]
      /\ \A j \in DOMAIN free' : j >= k => j + 1 \in DOMAIN free /\ free'[j] = free[j + 1]
      /\ k \in Nat /\ k \in DOMAIN free
      /\ DOMAIN mappings' = DOMAIN mappings \cup free[k].bound
  BY PlacedSets DEF Places
<1>2. \A g : Over(g) => Over(g)'
  BY PlaceMarks
<1>3. net' = net /\ \A f, g : Apart(f, g)' = Apart(f, g)
  BY Same DEF Places
<1>4. ASSUME NEW j \in DOMAIN free'
      PROVE  \E l \in DOMAIN free : l # k /\ free'[j] = free[l] /\ (l = j \/ l = j + 1) /\ (j < k <=> l = j)
  BY <1>1
<1>5. ASSUME NEW i \in DOMAIN free', NEW j \in DOMAIN free', i # j PROVE free'[i].bound \cap free'[j].bound = {}
  <2>1. PICK l \in DOMAIN free : l # k /\ free'[i] = free[l] /\ (l = i \/ l = i + 1) /\ (i < k <=> l = i)
    BY <1>4
  <2>2. PICK m \in DOMAIN free : m # k /\ free'[j] = free[m] /\ (m = j \/ m = j + 1) /\ (j < k <=> m = j)
    BY <1>4
  <2>3. l # m
    BY <1>1, <1>5, <2>1, <2>2
  <2>. QED
    BY <2>1, <2>2, <2>3 DEF BlobInv
<1>6. ASSUME NEW j \in DOMAIN free' PROVE Bound(free[j].bound, free[j].size)'
  <2>1. PICK l \in DOMAIN free : l # k /\ free'[j] = free[l]
    BY <1>4
  <2>2. Bound(free[l].bound, free[l].size) /\ free[l].bound \cap free[k].bound = {}
    BY <1>1, <2>1 DEF BlobInv
  <2>3. /\ \A g \in free[l].bound : Over(g)' /\ net[g].size <= free[l].size /\ g \notin DOMAIN mappings'
        /\ \A g, h \in free[l].bound : g # h => Apart(g, h)
    BY <1>1, <1>2, <2>2 DEF Bound
  <2>. QED
    BY <1>3, <2>1, <2>3 DEF Bound
<1>. QED
  BY <1>1, <1>5, <1>6 DEF BlobInv

LEMMA PlaceActive ==
    ASSUME TypeOK, BlobInv, CompleteInv, NEW k, Places(k)
    PROVE  Active' \subseteq Active /\ free[k].bound \subseteq Active /\ Active \subseteq Active' \cup free[k].bound
<1>1. /\ DOMAIN occupied = {} /\ occupied' = occupied /\ k \in DOMAIN free
      /\ \A j \in DOMAIN free' : \E i \in DOMAIN free : free'[j] = free[i]
      /\ \A j \in DOMAIN free : j = k \/ \E i \in DOMAIN free' : free'[i] = free[j]
  <2>1. /\ \A j \in DOMAIN free' : j \in Nat
        /\ \A j \in DOMAIN free' : j < k => j \in DOMAIN free /\ free'[j] = free[j]
        /\ \A j \in DOMAIN free' : j >= k => j + 1 \in DOMAIN free /\ free'[j] = free[j + 1]
        /\ k \in Nat
        /\ DOMAIN occupied = {} /\ occupied' = occupied
    BY PlacedSets
  <2>2. \A j \in DOMAIN free' : \E i \in DOMAIN free : free'[j] = free[i]
    BY <2>1
  <2>3. k \in DOMAIN free
    BY DEF Places
  <2>4. \A j \in DOMAIN free : j = k \/ \E i \in DOMAIN free' : free'[i] = free[j]
    BY LeftOver
  <2>. QED
    BY <2>1, <2>2, <2>3, <2>4
<1>2. ASSUME NEW g PROVE (g \in Active) <=> \E j \in DOMAIN free : g \in free[j].bound
  BY <1>1 DEF Active
<1>3. ASSUME NEW g PROVE (g \in Active') <=> \E j \in DOMAIN free' : g \in free'[j].bound
  BY <1>1 DEF Active
<1>. QED
  BY <1>1, <1>2, <1>3

LEMMA PlaceComplete ==
    ASSUME NetInv, TypeOK, BlobInv, CompleteInv, NEW k, Places(k)
    PROVE  CompleteInv'
<1>1. Nodes' = Nodes /\ ConstHandles' = ConstHandles /\ phase' = "placing"
  BY Same DEF Places
<1>2. /\ DOMAIN occupied' = {}
      /\ DOMAIN mappings' = DOMAIN mappings \cup free[k].bound
  BY PlacedSets
<1>3. Active \subseteq Active' \cup free[k].bound
  BY PlaceActive
<1>4. \A h \in Nodes \ ConstHandles : Begun(h)' => Begun(h)
  BY PlaceMarks DEF Marked
<1>5. \A h \in Nodes' \ ConstHandles' : Begun(h)' => h \in Active' \cup DOMAIN mappings'
  BY <1>1, <1>2, <1>3, <1>4 DEF CompleteInv
<1>. QED
  BY <1>1, <1>2, <1>5 DEF CompleteInv

\* The cursor moves past the blob; what lay below it still does, and the blob does too.
LEMMA PlaceBelow ==
    ASSUME NetInv, TypeOK, BlobInv, CompleteInv, PlaceInv, NEW k, Places(k)
    PROVE  /\ \A h \in DOMAIN mappings : Below(h) => Below(h)'
           /\ \A h \in free[k].bound : Below(h)'
           /\ \A h \in free[k].bound : net[h].size \in Nat /\ net[h].size <= free[k].size
           /\ cursor'.index \in Nat \ {0} /\ cursor'.offset \in Nat /\ cursor'.needed \in Nat
           /\ cursor'.offset <= cursor'.needed
<1>1. /\ free[k].size \in Nat /\ Bound(free[k].bound, free[k].size)
      /\ \A h \in free[k].bound : mappings'[h] = Spot
      /\ \A h \in DOMAIN mappings : mappings'[h] = mappings[h]
  BY PlacedSets
<1>2. /\ cursor.index \in Nat \ {0} /\ cursor.offset \in Nat /\ cursor.needed \in Nat
      /\ cursor.offset <= cursor.needed
  BY DEF PlaceInv
<1>3. /\ cursor'.index = cursor.index + 1
      /\ cursor'.offset = AlignOffset(cursor.offset + free[k].size)
      /\ cursor'.needed = cursor.needed + free[k].size + Alignment
      /\ phase' = "placing" /\ UNCHANGED <<graph, handles>>
  BY DEF Places
<1>4. net' = net /\ manager' = manager
  BY <1>3, Same
<1>5. PICK size \in Nat : size = free[k].size
  BY <1>1
<1>6. /\ AlignOffset(cursor.offset + size) \in Nat /\ cursor.offset + size <= AlignOffset(cursor.offset + size)
      /\ AlignOffset(cursor.offset + size) <= cursor.offset + size + Alignment /\ Alignment \in Nat
  BY <1>2, AlignedUp
<1>7. /\ cursor'.offset \in Nat /\ cursor.offset + size <= cursor'.offset
      /\ cursor'.offset <= cursor.offset + size + Alignment /\ cursor'.needed = cursor.needed + size + Alignment
  BY <1>3, <1>5, <1>6
<1>8. \A h \in free[k].bound : net[h].size \in Nat /\ net[h].size <= size
  <2>1. \A h \in free[k].bound : h \in Nodes /\ net[h].size <= size
    BY <1>1, <1>5 DEF Bound, Over
  <2>. QED
    BY <2>1, NetFacts
<1>9. ASSUME NEW h \in DOMAIN mappings, Below(h) PROVE Below(h)'
  <2>1. h \in Nodes /\ net[h].size \in Nat
    BY NetFacts DEF TypeOK
  <2>2. mappings[h] \in (Nat \ {0}) \X Nat
    BY DEF PlaceInv
  <2>3. mappings[h][1] \in Nat /\ mappings[h][2] \in Nat
    BY <2>2
  <2>4. mappings[h][2] + net[h].size <= cursor.offset => mappings[h][2] + net[h].size <= cursor'.offset
    BY <1>2, <1>5, <1>7, <2>1, <2>3
  <2>5. mappings[h][1] < cursor.index => mappings[h][1] < cursor'.index
    BY <1>2, <1>3, <2>3
  <2>. QED
    BY <1>1, <1>3, <1>4, <1>9, <2>4, <2>5 DEF Below
<1>10. ASSUME NEW h \in free[k].bound PROVE Below(h)'
  <2>1. mappings'[h] = Spot
    BY <1>1
  <2>2. CASE manager = "offsets"
    <3>1. mappings'[h][2] = cursor.offset
      BY <2>1, <2>2 DEF Spot
    <3>2. mappings'[h][2] + net[h].size <= cursor'.offset
      BY <1>2, <1>5, <1>7, <1>8, <3>1
    <3>. QED
      BY <1>3, <1>4, <2>2, <3>2 DEF Below
  <2>3. CASE manager # "offsets"
    <3>1. mappings'[h][1] = cursor.index
      BY <2>1, <2>3 DEF Spot
    <3>2. mappings'[h][1] < cursor'.index
      BY <1>2, <1>3, <3>1
    <3>. QED
      BY <1>3, <1>4, <2>3, <3>2 DEF Below
  <2>. QED
    BY <2>2, <2>3
<1>11. cursor'.index \in Nat \ {0} /\ cursor'.needed \in Nat /\ cursor'.offset <= cursor'.needed
  BY <1>2, <1>3, <1>5, <1>6, <1>7
<1>. QED
  BY <1>5, <1>7, <1>8, <1>9, <1>10, <1>11

LEMMA PlacePlace ==
    ASSUME NetInv, TypeOK, BlobInv, CompleteInv, PlaceInv, NEW k, Places(k)
    PROVE  PlaceInv'
<1>. DEFINE S == free[k].bound
<1>1. /\ free[k].size \in Nat /\ Bound(S, free[k].size)
      /\ DOMAIN mappings' = DOMAIN mappings \cup S
      /\ \A h \in S : mappings'[h] = Spot /\ h \notin DOMAIN mappings
      /\ \A h \in DOMAIN mappings : mappings'[h] = mappings[h]
  BY PlacedSets
<1>2. /\ \A h \in DOMAIN mappings : Below(h) => Below(h)'
      /\ \A h \in S : Below(h)'
      /\ \A h \in S : net[h].size \in Nat /\ net[h].size <= free[k].size
      /\ cursor'.index \in Nat \ {0} /\ cursor'.offset \in Nat /\ cursor'.needed \in Nat
      /\ cursor'.offset <= cursor'.needed
  BY PlaceBelow
<1>3. UNCHANGED <<graph, handles>> /\ areas' = (IF manager = "offsets" THEN areas ELSE Widened(cursor.index, free[k].size))
  BY DEF Places
<1>4. net' = net /\ manager' = manager /\ \A f, g : Apart(f, g)' = Apart(f, g)
  BY <1>3, Same
<1>5. \A g : Over(g) => Over(g)'
  BY PlaceMarks
<1>6. Active' \subseteq Active /\ S \subseteq Active
  BY PlaceActive
<1>7. cursor.index \in Nat \ {0} /\ cursor.offset \in Nat
  BY DEF PlaceInv
<1>8. /\ Spot \in (Nat \ {0}) \X Nat
      /\ manager = "offsets" => Spot = <<1, cursor.offset>>
      /\ manager # "offsets" => Spot = <<cursor.index, 0>>
  BY <1>7 DEF Spot
<1>9. PICK size \in Nat : size = free[k].size
  BY <1>1
<1>10. /\ \A i \in DOMAIN areas : i \in DOMAIN areas' /\ areas[i] \in Nat /\ areas'[i] \in Nat /\ areas[i] <= areas'[i]
       /\ manager # "offsets" => cursor.index \in DOMAIN areas' /\ areas'[cursor.index] \in Nat /\ size <= areas'[cursor.index]
  <2>1. CASE manager = "offsets"
    <3>1. \A i \in DOMAIN areas : areas[i] \in Nat
      BY LenProperties, ElementOfSeq DEF TypeOK
    <3>. QED
      BY <1>3, <2>1, <3>1
  <2>2. CASE manager # "offsets"
    <3>1. areas' = Widened(cursor.index, size)
      BY <1>3, <1>9, <2>2
    <3>. QED
      BY <1>7, <2>2, <3>1, WidenedIs
  <2>. QED
    BY <2>1, <2>2
<1>. HIDE DEF S
<1>11. ASSUME NEW h \in DOMAIN mappings'
       PROVE  /\ Over(h)'
              /\ mappings'[h] \in (Nat \ {0}) \X Nat
              /\ manager' = "offsets" => mappings'[h][1] = 1
              /\ \/ /\ mappings'[h][1] \in DOMAIN areas'
                    /\ mappings'[h][2] + net'[h].size <= areas'[mappings'[h][1]]
                 \/ manager' = "offsets" /\ Below(h)'
  <2>1. CASE h \in DOMAIN mappings
    <3>1. /\ Over(h) /\ mappings[h] \in (Nat \ {0}) \X Nat /\ (manager = "offsets" => mappings[h][1] = 1)
          /\ \/ mappings[h][1] \in DOMAIN areas /\ mappings[h][2] + net[h].size <= areas[mappings[h][1]]
             \/ manager = "offsets" /\ Below(h)
      BY <2>1 DEF PlaceInv
    <3>2. h \in Nodes /\ net[h].size \in Nat
      BY <3>1, NetFacts DEF Over
    <3>3. mappings[h][1] \in Nat /\ mappings[h][2] \in Nat
      BY <3>1
    <3>4. mappings[h][1] \in DOMAIN areas /\ mappings[h][2] + net[h].size <= areas[mappings[h][1]] =>
            mappings[h][1] \in DOMAIN areas' /\ mappings[h][2] + net[h].size <= areas'[mappings[h][1]]
      BY <1>10, <3>2, <3>3
    <3>. QED
      BY <1>1, <1>2, <1>4, <1>5, <2>1, <3>1, <3>4
  <2>2. CASE h \in S
    <3>1. Over(h)' /\ mappings'[h] = Spot /\ Below(h)' /\ net[h].size \in Nat /\ net[h].size <= size
      BY <1>1, <1>2, <1>5, <1>9, <2>2 DEF Bound
    <3>2. manager = "offsets" => mappings'[h][1] = 1
      BY <1>8, <3>1
    <3>3. manager # "offsets" => mappings'[h][1] \in DOMAIN areas' /\ mappings'[h][2] + net[h].size <= areas'[mappings'[h][1]]
      <4>1. SUFFICES ASSUME manager # "offsets" PROVE cursor.index \in DOMAIN areas' /\ 0 + net[h].size <= areas'[cursor.index]
        BY <1>8, <3>1
      <4>. QED
        BY <1>9, <1>10, <3>1, <4>1
    <3>. QED
      BY <1>4, <1>8, <3>1, <3>2, <3>3
  <2>. QED
    BY <1>1, <2>1, <2>2
<1>12. ASSUME NEW h \in DOMAIN mappings', NEW g \in Active' PROVE Apart(h, g)' \/ Below(h)'
  <2>1. CASE h \in DOMAIN mappings
    BY <1>2, <1>4, <1>6, <2>1 DEF PlaceInv
  <2>2. CASE h \in S
    BY <1>2, <2>2
  <2>. QED
    BY <1>1, <2>1, <2>2
<1>13. ASSUME NEW g \in DOMAIN mappings, NEW h \in S PROVE Apart(g, h) \/ Beside(g, h)'
  <2>1. Apart(g, h) \/ Below(g)
    BY <1>6 DEF PlaceInv
  <2>2. mappings'[g] = mappings[g] /\ mappings'[h] = Spot
    BY <1>1
  <2>3. CASE Below(g) /\ manager = "offsets"
    BY <1>4, <1>8, <2>2, <2>3 DEF Below, Beside
  <2>4. CASE Below(g) /\ manager # "offsets"
    <3>1. mappings[g][1] < cursor.index /\ mappings'[h][1] = cursor.index
      BY <1>8, <2>2, <2>4 DEF Below
    <3>2. mappings[g] \in (Nat \ {0}) \X Nat
      BY DEF PlaceInv
    <3>3. mappings[g][1] # mappings'[h][1]
      BY <1>7, <3>1, <3>2
    <3>. QED
      BY <2>2, <3>3 DEF Beside
  <2>. QED
    BY <2>1, <2>3, <2>4
<1>14. ASSUME NEW g \in DOMAIN mappings', NEW h \in DOMAIN mappings', g # h PROVE Apart(g, h)' \/ Beside(g, h)'
  <2>1. CASE g \in DOMAIN mappings /\ h \in DOMAIN mappings
    <3>1. Apart(g, h) \/ Beside(g, h)
      BY <1>14, <2>1 DEF PlaceInv
    <3>2. Beside(g, h)' <=> Beside(g, h)
      BY <1>1, <1>4, <2>1 DEF Beside
    <3>. QED
      BY <1>4, <3>1, <3>2
  <2>2. CASE g \in DOMAIN mappings /\ h \in S
    BY <1>4, <1>13, <2>2
  <2>3. CASE g \in S /\ h \in DOMAIN mappings
    <3>1. Beside(h, g)' => Beside(g, h)'
      BY DEF Beside
    <3>. QED
      BY <1>4, <1>13, <2>3, <3>1, ApartSymmetric
  <2>4. CASE g \in S /\ h \in S
    BY <1>1, <1>4, <1>14, <2>4 DEF Bound
  <2>. QED
    BY <1>1, <2>1, <2>2, <2>3, <2>4
<1>. QED
  BY <1>2, <1>11, <1>12, <1>14 DEF PlaceInv

LEMMA PlaceFew ==
    ASSUME NetInv, TypeOK, BlobInv, CompleteInv, PlaceInv, FewInv, NEW k, Places(k)
    PROVE  FewInv'
<1>1. /\ DOMAIN occupied = {} /\ occupied' = occupied
      /\ Len(free) \in Nat \ {0} /\ Len(free') = Len(free) - 1 /\ free[k].size \in Nat
  BY PlacedSets
<1>2. /\ UNCHANGED <<graph, handles>> /\ owners' = owners /\ phase = "placing" /\ phase' = "placing"
      /\ cursor'.index = cursor.index + 1
      /\ areas' = (IF manager = "offsets" THEN areas ELSE Widened(cursor.index, free[k].size))
  BY DEF Places
<1>3. manager' = manager /\ Tasks' = Tasks /\ \A l : LiveAt(l)' = LiveAt(l)
  BY <1>2, Same
<1>4. Cardinality(DOMAIN occupied) = 0 /\ Cardinality(DOMAIN occupied') = 0 /\ cursor.index \in Nat \ {0}
  BY <1>1, FS_EmptySet DEF PlaceInv
<1>5. BlobsNow' = BlobsNow /\ BlobsNow \in Nat /\ BlobsNow >= cursor.index /\ BlobsNow # 0
  BY <1>1, <1>2, <1>4 DEF BlobsNow
<1>6. PICK l \in Tasks : BlobsNow <= Cardinality(LiveAt(l))
  BY <1>5 DEF FewInv
<1>7. Cardinality(LiveAt(l)) \in Nat
  BY LiveFinite, FS_CardinalityType
<1>8. NumBlobs' = NumBlobs \/ NumBlobs' = cursor.index
  <2>1. CASE manager = "offsets"
    BY <1>2, <1>3, <2>1 DEF NumBlobs
  <2>2. CASE manager # "offsets"
    <3>1. Len(areas') = Larger(Len(areas), cursor.index)
      BY <1>1, <1>2, <1>4, <2>2, WidenedIs
    <3>. QED
      BY <1>3, <2>2, <3>1 DEF NumBlobs, Larger
  <2>. QED
    BY <2>1, <2>2
<1>9. cursor.index <= Cardinality(LiveAt(l))
  BY <1>4, <1>5, <1>6, <1>7
<1>10. BlobsNow' = 0 \/ \E m \in Tasks' : BlobsNow' <= Cardinality(LiveAt(m)')
  BY <1>3, <1>5, <1>6
<1>11. NumBlobs' = 0 \/ \E m \in Tasks' : NumBlobs' <= Cardinality(LiveAt(m)')
  <2>1. CASE NumBlobs' = NumBlobs
    BY <1>3, <2>1 DEF FewInv
  <2>2. CASE NumBlobs' = cursor.index
    BY <1>3, <1>9, <2>2
  <2>. QED
    BY <1>8, <2>1, <2>2
<1>. QED
  BY <1>2, <1>10, <1>11 DEF FewInv

LEMMA PlaceBooks ==
    ASSUME NetInv, TypeOK, BooksInv, PlaceBlob
    PROVE  BooksInv'
<1>. USE DEF BooksInv
<1>1. PICK k : Places(k)
  BY BlobPlaced
<1>2. FlightInv'
  <2>1. UNCHANGED <<graph, handles, inFlight, occupied>>
    BY <1>1 DEF Places
  <2>. QED
    BY <1>1, <2>1, PlaceMarks, FlightKept
<1>3. BlobInv' /\ CompleteInv'
  BY <1>1, PlaceBlobs, PlaceComplete
<1>4. PlaceInv' /\ FewInv'
  BY <1>1, PlacePlace, PlaceFew
<1>. QED
  BY <1>2, <1>3, <1>4

--------------------------------------------------------------------------------
(* The places have been given *)

LEMMA FinishPlace ==
    ASSUME NetInv, TypeOK, CompleteInv, PlaceInv, FinishUpdate
    PROVE  PlaceInv'
<1>1. /\ phase = "placing" /\ phase' = "lifetimes" /\ free = <<>> /\ cursor' = cursor /\ mappings' = mappings
      /\ occupied' = occupied /\ free' = free /\ UNCHANGED <<graph, handles, loops>>
      /\ areas' = (IF manager = "offsets" THEN Widened(1, cursor.needed) ELSE areas)
  BY DEF FinishUpdate, blobs
<1>2. net' = net /\ manager' = manager /\ \A f, g : Apart(f, g)' = Apart(f, g)
  BY <1>1, Same
<1>3. DOMAIN occupied = {} /\ DOMAIN free = {}
  BY <1>1 DEF CompleteInv
<1>4. Active' = {}
  <2>1. ASSUME NEW g \in Active' PROVE FALSE
    BY <1>1, <1>3, <2>1 DEF Active
  <2>. QED
    BY <2>1
<1>5. \A g : Over(g) => Over(g)'
  <2>1. Marked
    BY <1>1, MarkedOther DEF Configured
  <2>. QED
    BY <1>1, <2>1, OverKept
<1>6. \A f, g : Beside(f, g)' = Beside(f, g)
  BY <1>1, <1>2 DEF Beside
<1>7. /\ cursor.index \in Nat \ {0} /\ cursor.offset \in Nat /\ cursor.needed \in Nat
      /\ cursor.offset <= cursor.needed
  BY DEF PlaceInv
<1>8. ASSUME NEW h \in DOMAIN mappings
      PROVE  mappings[h][1] \in DOMAIN areas' /\ mappings[h][2] + net[h].size <= areas'[mappings[h][1]]
  <2>1. /\ Over(h) /\ mappings[h] \in (Nat \ {0}) \X Nat /\ (manager = "offsets" => mappings[h][1] = 1)
        /\ \/ mappings[h][1] \in DOMAIN areas /\ mappings[h][2] + net[h].size <= areas[mappings[h][1]]
           \/ manager = "offsets" /\ Below(h)
    BY DEF PlaceInv
  <2>2. h \in Nodes /\ net[h].size \in Nat
    BY <2>1, NetFacts DEF Over
  <2>3. mappings[h][2] \in Nat
    BY <2>1
  <2>4. CASE manager = "offsets"
    <3>1. areas' = Widened(1, cursor.needed) /\ mappings[h][1] = 1
      BY <1>1, <2>1, <2>4
    <3>2. /\ 1 \in DOMAIN areas' /\ cursor.needed <= areas'[1] /\ areas'[1] \in Nat
          /\ \A i \in DOMAIN areas : areas[i] \in Nat /\ areas[i] <= areas'[i]
      <4>1. PICK needed \in Nat : needed = cursor.needed
        BY <1>7
      <4>2. PICK k \in Nat \ {0} : k = 1
        OBVIOUS
      <4>3. areas' = Widened(k, needed)
        BY <3>1, <4>1, <4>2
      <4>4. /\ k \in DOMAIN areas' /\ needed <= areas'[k] /\ areas'[k] \in Nat
            /\ \A i \in DOMAIN areas : areas[i] \in Nat /\ areas[i] <= areas'[i]
        BY <4>3, WidenedIs
      <4>. QED
        BY <4>1, <4>2, <4>4
    <3>3. CASE 1 \in DOMAIN areas /\ mappings[h][2] + net[h].size <= areas[1]
      BY <2>2, <2>3, <3>1, <3>2, <3>3
    <3>4. CASE Below(h)
      <4>1. mappings[h][2] + net[h].size <= cursor.offset
        BY <2>4, <3>4 DEF Below
      <4>. QED
        BY <1>7, <2>2, <2>3, <3>1, <3>2, <4>1
    <3>. QED
      BY <2>1, <3>1, <3>3, <3>4
  <2>5. CASE manager # "offsets"
    BY <1>1, <2>1, <2>5
  <2>. QED
    BY <2>4, <2>5
<1>9. ASSUME NEW h \in DOMAIN mappings
      PROVE  Over(h)' /\ mappings[h] \in (Nat \ {0}) \X Nat /\ (manager = "offsets" => mappings[h][1] = 1)
  BY <1>5 DEF PlaceInv
<1>10. \A g, h \in DOMAIN mappings : g # h => Apart(g, h) \/ Beside(g, h)
  BY DEF PlaceInv
<1>. QED
  BY <1>1, <1>2, <1>4, <1>6, <1>7, <1>8, <1>9, <1>10 DEF PlaceInv

LEMMA FinishFew ==
    ASSUME NetInv, TypeOK, CompleteInv, PlaceInv, FewInv, FinishUpdate
    PROVE  FewInv'
<1>1. /\ phase = "placing" /\ phase' = "lifetimes" /\ free = <<>>
      /\ occupied' = occupied /\ free' = free /\ UNCHANGED <<graph, handles>>
      /\ manager = "offsets" => owners' = Larger(owners, cursor.index - 1)
      /\ manager # "offsets" => areas' = areas
  BY DEF FinishUpdate, blobs
<1>2. manager' = manager /\ Tasks' = Tasks /\ \A l : LiveAt(l)' = LiveAt(l)
  BY <1>1, Same
<1>3. Cardinality(DOMAIN occupied) = 0 /\ Len(free) = 0
  BY <1>1, FS_EmptySet DEF CompleteInv
<1>4. cursor.index - 1 \in Nat
  BY DEF PlaceInv
<1>5. BlobsNow' = 0 /\ BlobsNow = cursor.index - 1
  BY <1>1, <1>3, <1>4 DEF BlobsNow
<1>6. NumBlobs' = NumBlobs \/ NumBlobs' = BlobsNow
  BY <1>1, <1>2, <1>5 DEF NumBlobs, Larger
<1>7. NumBlobs' = 0 \/ \E l \in Tasks : NumBlobs' <= Cardinality(LiveAt(l))
  BY <1>6 DEF FewInv
<1>. QED
  BY <1>1, <1>2, <1>5, <1>7 DEF FewInv

LEMMA FinishBooks ==
    ASSUME NetInv, TypeOK, BooksInv, FinishUpdate
    PROVE  BooksInv'
<1>. USE DEF BooksInv
<1>1. /\ phase = "placing" /\ phase' = "lifetimes" /\ free = <<>> /\ mappings' = mappings
      /\ inFlight' = inFlight /\ occupied' = occupied /\ free' = free /\ UNCHANGED <<graph, handles, loops>>
  BY DEF FinishUpdate, blobs
<1>2. Marked
  BY <1>1, MarkedOther DEF Configured
<1>3. \A g : Over(g) => Over(g)'
  BY <1>1, <1>2, OverKept
<1>4. FlightInv' /\ BlobInv'
  BY <1>1, <1>2, <1>3, FlightKept, BlobKept
<1>5. CompleteInv'
  <2>1. Active' = Active /\ Nodes' = Nodes /\ ConstHandles' = ConstHandles
    BY <1>1, Same DEF Active, Members
  <2>2. \A h \in Nodes \ ConstHandles : Begun(h)' => Begun(h)
    BY <1>2 DEF Marked
  <2>. QED
    BY <1>1, <2>1, <2>2 DEF CompleteInv
<1>. QED
  BY <1>4, <1>5, FinishPlace, FinishFew

--------------------------------------------------------------------------------
(* Before the lifetimes there are no blobs *)

LEMMA Idle ==
    ASSUME NetInv, TypeOK, BooksInv, phase = "mutating"
    PROVE  /\ DOMAIN inFlight = {} /\ DOMAIN occupied = {} /\ free = <<>> /\ DOMAIN mappings = {}
           /\ NumBlobs = 0
<1>. USE DEF BooksInv
<1>1. \A h : ~Begun(h)
  BY DEF Begun, Acquired, Configured
<1>2. DOMAIN inFlight = {} /\ DOMAIN occupied = {}
  BY <1>1 DEF FlightInv
<1>3. free = <<>>
  BY <1>2 DEF CompleteInv
<1>4. DOMAIN mappings = {}
  BY <1>1 DEF PlaceInv, Over
<1>5. NumBlobs = 0
  BY DEF FewInv
<1>. QED
  BY <1>2, <1>3, <1>4, <1>5

LEMMA MutateBooks ==
    ASSUME NetInv, TypeOK, LoopInv, BooksInv, Mutate
    PROVE  BooksInv'
<1>1. /\ phase = "mutating" /\ net' = net /\ manager' = manager
      /\ inFlight' = inFlight /\ occupied' = occupied /\ free' = free /\ cursor' = cursor
      /\ areas' = areas /\ owners' = owners /\ mappings' = mappings
      /\ phase' = "mutating" \/ (phase' = "lifetimes" /\ task' = 0 /\ stage' = "done")
  BY DEF Mutate, LeaveConcat, JoinConcat, CountHandles, NextConcat, graph, blobs, pool, LoopInv
<1>2. /\ DOMAIN inFlight' = {} /\ DOMAIN occupied' = {} /\ free' = <<>> /\ DOMAIN free' = {} /\ DOMAIN mappings' = {}
      /\ NumBlobs' = 0
  BY <1>1, Idle DEF NumBlobs
<1>3. ASSUME NEW h PROVE ~Begun(h)'
  <2>1. ASSUME NEW n \in Tasks', Acquired(n)' PROVE FALSE
    <3>1. n \in Nodes /\ Nodes \subseteq Nat /\ 0 \notin Nodes
      BY <1>1, NetFacts DEF Tasks, Nodes
    <3>. QED
      BY <1>1, <2>1, <3>1 DEF Acquired, Configured
  <2>. QED
    BY <2>1 DEF Begun
<1>4. FlightInv'
  BY <1>2, <1>3 DEF FlightInv
<1>5. BlobInv'
  BY <1>2 DEF BlobInv
<1>6. CompleteInv'
  BY <1>1, <1>2, <1>3 DEF CompleteInv
<1>7. PlaceInv'
  BY <1>1, <1>2 DEF PlaceInv, BooksInv
<1>8. FewInv'
  <2>1. BlobsNow' = 0
    BY <1>1, <1>2, FS_EmptySet DEF BlobsNow
  <2>. QED
    BY <1>2, <2>1 DEF FewInv
<1>. QED
  BY <1>4, <1>5, <1>6, <1>7, <1>8 DEF BooksInv

LEMMA InitBooks ==
    ASSUME Init
    PROVE  BooksInv
<1>1. /\ DOMAIN inFlight = {} /\ DOMAIN occupied = {} /\ free = <<>> /\ DOMAIN free = {} /\ DOMAIN mappings = {}
      /\ phase = "mutating" /\ owners = 0 /\ areas = <<>> /\ Len(areas) = 0 /\ Len(free) = 0
      /\ cursor.index = 1 /\ cursor.offset = 0 /\ cursor.needed = 0
  BY DEF Init
<1>2. \A h : ~Begun(h)
  BY <1>1 DEF Begun, Acquired, Configured
<1>3. FlightInv
  BY <1>1, <1>2 DEF FlightInv
<1>4. BlobInv
  BY <1>1 DEF BlobInv
<1>5. CompleteInv
  BY <1>1, <1>2 DEF CompleteInv
<1>6. PlaceInv
  BY <1>1 DEF PlaceInv
<1>7. FewInv
  <2>1. BlobsNow = 0 /\ NumBlobs = 0
    BY <1>1, FS_EmptySet DEF BlobsNow, NumBlobs
  <2>. QED
    BY <2>1 DEF FewInv
<1>. QED
  BY <1>3, <1>4, <1>5, <1>6, <1>7 DEF BooksInv

--------------------------------------------------------------------------------
(* The lists and the pool stay in order *)

\* Steps of the lifetimes that only move the loops, and the steps of the frames.
Passes == NextTask \/ NextStage \/ SkipHandle
Runs == ReceiveInputs \/ AcquirePool \/ RunTask \/ ReleasePool \/ SendOutputs

LEMMA PassBooks ==
    ASSUME NetInv, TypeOK, LoopInv, BooksInv, Passes
    PROVE  BooksInv'
<1>1. Marked
  BY MarkedNextTask, MarkedNextStage, MarkedSkip DEF Passes, BooksInv
<1>2. phase = "lifetimes" /\ phase' = phase /\ UNCHANGED <<graph, handles, blobs, pool, cursor>>
  BY DEF Passes, NextTask, NextStage, SkipHandle, AtHandle
<1>. QED
  BY <1>1, <1>2, BooksKept

LEMMA PopulateBooks ==
    ASSUME NetInv, TypeOK, LoopInv, BooksInv, Populate
    PROVE  BooksInv'
<1>1. Marked /\ DOMAIN inFlight = {}
  BY MarkedPopulate DEF BooksInv
<1>2. phase = "lifetimes" /\ phase' = "waiting" /\ UNCHANGED <<graph, handles, blobs, pool, cursor>>
  BY DEF Populate
<1>3. DOMAIN occupied = {}
  BY <1>1 DEF TypeOK
<1>. QED
  BY <1>1, <1>2, <1>3, BooksKept

LEMMA RunPhases ==
    ASSUME Runs
    PROVE  /\ Configured /\ Configured' /\ phase' \in {"waiting", "received", "running", "sending"}
           /\ UNCHANGED <<graph, handles, blobs, pool, cursor, stage, slot>>
BY DEF Runs, ReceiveInputs, AcquirePool, RunTask, ReleasePool, SendOutputs, Configured, loops

LEMMA RunBooks ==
    ASSUME NetInv, TypeOK, BooksInv, Runs
    PROVE  BooksInv'
<1>1. Configured /\ Configured' /\ UNCHANGED <<graph, handles, blobs, pool, cursor>>
  BY RunPhases
<1>2. Marked
  BY <1>1, MarkedOther
<1>3. /\ phase # "placing" /\ phase' # "placing" /\ phase' # "mutating"
      /\ DOMAIN occupied = {}
  BY <1>1 DEF Configured, BooksInv, CompleteInv
<1>. QED
  BY <1>1, <1>2, <1>3, BooksKept

LEMMA StepBooks ==
    ASSUME NetInv, TypeOK, ForestInv, LoopInv, BooksInv, Next
    PROVE  BooksInv'
<1>1. CASE Mutate
  BY <1>1, MutateBooks
<1>2. CASE Passes
  BY <1>2, PassBooks
<1>3. CASE AcquireHandle
  BY <1>3, AcquireBooks
<1>4. CASE ReleaseRead
  BY <1>4, ReadBooks
<1>5. CASE ReleaseLast
  BY <1>5, LastBooks
<1>6. CASE PlaceBlob
  BY <1>6, PlaceBooks
<1>7. CASE FinishUpdate
  BY <1>7, FinishBooks
<1>8. CASE Populate
  BY <1>8, PopulateBooks
<1>9. CASE Runs
  BY <1>9, RunBooks
<1>. QED
  BY <1>1, <1>2, <1>3, <1>4, <1>5, <1>6, <1>7, <1>8, <1>9 DEF Next, Configure, Update, Frame, Passes, Runs

--------------------------------------------------------------------------------
(* The graph, the handles and the loops *)

LEMMA StepNet ==
    ASSUME NetInv, Next
    PROVE  NetInv'
<1>1. UNCHANGED graph
  BY DEF Next, Mutate, Configure, Update, Frame, LeaveConcat, JoinConcat, CountHandles, NextTask, NextStage,
         SkipHandle, AcquireHandle, ReleaseRead, ReleaseLast, PlaceBlob, FinishUpdate, Populate, ReceiveInputs,
         AcquirePool, RunTask, ReleasePool, SendOutputs
<1>. QED
  BY <1>1 DEF NetInv, graph

\* All steps but those of the mutator leave the handles as they are, and none comes back to it.
LEMMA StepHandles ==
    ASSUME Next
    PROVE  LeaveConcat \/ JoinConcat \/ (UNCHANGED <<graph, handles>> /\ phase' # "mutating")
<1>1. CASE CountHandles
  BY <1>1 DEF CountHandles
<1>2. CASE Configure
  BY <1>2 DEF Configure, NextTask, NextStage, SkipHandle, AcquireHandle, ReleaseRead, ReleaseLast, AtHandle
<1>3. CASE Update \/ Frame
  BY <1>3 DEF Update, Frame, PlaceBlob, FinishUpdate, Populate, ReceiveInputs, AcquirePool, RunTask, ReleasePool,
              SendOutputs
<1>. QED
  BY <1>1, <1>2, <1>3 DEF Next, Mutate

LEMMA StepForest ==
    ASSUME NetInv, TypeOK, ForestInv, Next
    PROVE  ForestInv'
<1>1. CASE LeaveConcat
  <2>1. task' \in Nat /\ task' < task /\ task \in Nat
    BY <1>1, NextConcatIs, NetFacts DEF LeaveConcat, TypeOK
  <2>2. UNCHANGED <<graph, handles>> /\ phase = "mutating"
    BY <1>1 DEF LeaveConcat, NextConcat
  <2>3. phase' = "mutating" => phase = "mutating" /\ task' \in Nat /\ task' <= task
    BY <2>1, <2>2
  <2>. QED
    BY <2>2, <2>3, ForestKept
<1>2. CASE JoinConcat
  BY <1>2, JoinForest
<1>3. CASE UNCHANGED <<graph, handles>> /\ phase' # "mutating"
  BY <1>3, ForestKept
<1>. QED
  BY <1>1, <1>2, <1>3, StepHandles

LEMMA StepLoop ==
    ASSUME NetInv, TypeOK, LoopInv, Next
    PROVE  LoopInv'
<1>1. CASE Mutate
  BY <1>1 DEF Mutate, LeaveConcat, JoinConcat, CountHandles, NextConcat, LoopInv
<1>2. CASE ~Mutate
  <2>1. Tasks' = Tasks
    <3>1. UNCHANGED <<graph, handles>>
      BY <1>2, StepHandles DEF Mutate
    <3>. QED
      BY <3>1, Same
  <2>2. CASE NextTask
    BY <2>1, <2>2, MarkedNextTask DEF NextTask, LoopInv
  <2>3. CASE NextStage \/ SkipHandle \/ AcquireHandle \/ ReleaseRead
    BY <2>1, <2>3 DEF NextStage, SkipHandle, AcquireHandle, ReleaseRead, AtHandle, LoopInv, Following
  <2>4. CASE ReleaseLast \/ Update \/ Populate
    BY <2>1, <2>4 DEF ReleaseLast, AtHandle, Update, PlaceBlob, FinishUpdate, Populate, LoopInv, loops
  <2>5. CASE Runs
    <3>1. stage' = stage /\ phase' \in {"waiting", "received", "running", "sending"} /\ Configured
      BY <2>5, RunPhases
    <3>2. task' = 0 \/ task' = task \/ task' \in Tasks
      <4>1. CASE RunTask
        <5>1. task' = Min(Remaining) /\ Remaining # {}
          BY <4>1 DEF RunTask
        <5>2. task' \in Remaining
          BY <5>1, TasksFacts, MinIs
        <5>. QED
          BY <5>2 DEF Remaining
      <4>2. CASE ~RunTask
        BY <2>5, <4>2 DEF Runs, ReceiveInputs, AcquirePool, ReleasePool, SendOutputs, loops
      <4>. QED
        BY <4>1, <4>2
    <3>. QED
      BY <2>1, <3>1, <3>2 DEF LoopInv, Configured
  <2>. QED
    BY <1>2, <2>2, <2>3, <2>4, <2>5 DEF Next, Configure, Update, Frame, Runs
<1>. QED
  BY <1>1, <1>2

--------------------------------------------------------------------------------
(* Types *)

LEMMA TypeHandles ==
    ASSUME NetInv, TypeOK, Next
    PROVE  joined' \subseteq OfKind("concat")' /\ parent' \in [Nodes' -> Nodes'] /\ depth' \in [Nodes' -> Nat]
<1>1. CASE UNCHANGED <<graph, handles>>
  BY <1>1, Same DEF TypeOK
<1>2. CASE LeaveConcat
  BY <1>1, <1>2 DEF LeaveConcat
<1>3. CASE JoinConcat
  <2>1. PICK c \in OfKind("concat") : c = task' /\ c \in Nodes
    BY <1>3, NextConcatIs DEF JoinConcat
  <2>2. PICK at \in Begins(net, c) :
          depth' = [n \in Nodes |->
                      IF n \in Ins(c) THEN depth[c] + at[CHOOSE i \in DOMAIN net[c].ins : net[c].ins[i] = n]
                      ELSE depth[n]]
    BY <1>3, <2>1 DEF JoinConcat
  <2>3. /\ parent' = [n \in Nodes |-> IF n \in Ins(c) THEN parent[c] ELSE parent[n]]
        /\ joined' = joined \cup {c} /\ net' = net
    BY <1>3, <2>1 DEF JoinConcat, graph
  <2>4. Nodes' = Nodes /\ OfKind("concat")' = OfKind("concat")
    BY <2>3 DEF Nodes, OfKind
  <2>5. PICK start \in [Ins(c) -> Nat] :
          /\ \A n \in Ins(c) :
               /\ start[n] = at[CHOOSE i \in DOMAIN net[c].ins : net[c].ins[i] = n]
               /\ start[n] + net[n].size <= net[c].size
          /\ \A m, n \in Ins(c) : m # n =>
               start[m] + net[m].size <= start[n] \/ start[n] + net[n].size <= start[m]
          /\ \A x \in 0 .. net[c].size - 1 : \E n \in Ins(c) :
               start[n] <= x /\ x < start[n] + net[n].size
    BY Laid
  <2>6. ASSUME NEW n \in Nodes PROVE depth'[n] = IF n \in Ins(c) THEN depth[c] + start[n] ELSE depth[n]
    <3>1. CASE n \in Ins(c)
      <4>. DEFINE from == at[CHOOSE i \in DOMAIN net[c].ins : net[c].ins[i] = n]
      <4>1. start[n] = from
        BY <2>5, <3>1
      <4>2. depth'[n] = depth[c] + from
        BY <2>2, <3>1
      <4>. QED
        BY <3>1, <4>1, <4>2
    <3>2. CASE n \notin Ins(c)
      BY <2>2, <3>2
    <3>. QED
      BY <3>1, <3>2
  <2>7. \A n \in Nodes : depth[n] \in Nat /\ parent[n] \in Nodes
    BY DEF TypeOK
  <2>8. \A n \in Nodes : depth'[n] \in Nat
    BY <2>1, <2>6, <2>7
  <2>9. depth' \in [Nodes -> Nat]
    BY <2>2, <2>8
  <2>10. parent' \in [Nodes -> Nodes]
    BY <2>1, <2>3, <2>7
  <2>11. joined' \subseteq OfKind("concat")
    BY <2>3 DEF TypeOK
  <2>. QED
    BY <2>4, <2>9, <2>10, <2>11
<1>. QED
  BY <1>1, <1>2, <1>3, StepHandles

LEMMA TypeLoops ==
    ASSUME NetInv, TypeOK, LoopInv, Next
    PROVE  /\ phase' \in {"mutating", "lifetimes", "placing", "waiting", "received", "running", "sending"}
           /\ task' \in 0 .. Len(net') + 1
           /\ stage' \in {"inputs", "output", "release", "done"} /\ slot' \in Nat \ {0}
<1>1. phase \in {"mutating", "lifetimes", "placing", "waiting", "received", "running", "sending"}
      /\ stage \in {"inputs", "output", "release", "done"} /\ slot \in Nat \ {0}
  BY DEF TypeOK
<1>6. /\ phase' \in {"mutating", "lifetimes", "placing", "waiting", "received", "running", "sending"}
      /\ stage' \in {"inputs", "output", "release", "done"} /\ slot' \in Nat \ {0}
  <2>1. CASE Mutate
    BY <1>1, <2>1 DEF Mutate, LeaveConcat, JoinConcat, CountHandles, NextConcat
  <2>2. CASE Configure
    BY <1>1, <2>2 DEF Configure, NextTask, NextStage, SkipHandle, AcquireHandle, ReleaseRead, ReleaseLast, Following
  <2>3. CASE Update \/ Populate
    BY <1>1, <2>3 DEF Update, PlaceBlob, FinishUpdate, Populate, loops
  <2>4. CASE Runs
    BY <1>1, <2>4, RunPhases
  <2>. QED
    BY <2>1, <2>2, <2>3, <2>4 DEF Next, Frame, Runs
<1>7. net' = net
  BY StepHandles, Same DEF LeaveConcat, JoinConcat, graph
<1>8. task' \in 0 .. Len(net) + 1
  <2>1. CASE NextConcat
    <3>1. task' \in Nodes
      BY <2>1, NextConcatIs
    <3>. QED
      BY <3>1, NetFacts
  <2>2. CASE ~NextConcat
    <3>1. LoopInv'
      BY StepLoop
    <3>2. phase' # "mutating"
      BY <2>2, StepHandles DEF LeaveConcat, JoinConcat
    <3>3. task' = 0 \/ task' \in Tasks'
      BY <3>1, <3>2 DEF LoopInv
    <3>4. Tasks' \subseteq Nodes
      BY <1>7 DEF Tasks, Nodes
    <3>. QED
      BY <3>3, <3>4, NetFacts
  <2>. QED
    BY <2>1, <2>2
<1>. QED
  BY <1>6, <1>7, <1>8

LEMMA TypeFree ==
    ASSUME NetInv, TypeOK, ForestInv, LoopInv, BooksInv, Next
    PROVE  free' \in Seq([size : Nat, bound : SUBSET Nodes'])
<1>. USE DEF BooksInv
<1>1. Nodes' = Nodes
  BY StepHandles, Same DEF LeaveConcat, JoinConcat, graph, Nodes
<1>2. CASE AcquireHandle
  <2>1. PICK h : Acquires(h)
    BY <1>2, AcquiresOne
  <2>2. h \in Nodes /\ StartLifetime(h)
    BY <2>1 DEF Acquires
  <2>3. free' \in Seq([size : Nat, bound : SUBSET Nodes])
    BY <2>2, StartFacts
  <2>. QED
    BY <1>1, <2>3
<1>3. CASE ReleaseLast
  <2>1. PICK h : Closes(h)
    BY <1>3, LastCloses
  <2>2. free' \in Seq([size : Nat, bound : SUBSET Nodes])
    BY <2>1, ClosedSets
  <2>. QED
    BY <1>1, <2>2
<1>4. CASE PlaceBlob
  <2>1. PICK k : Places(k)
    BY <1>4, BlobPlaced
  <2>2. free' \in Seq([size : Nat, bound : SUBSET Nodes])
    BY <2>1, PlacedSets
  <2>. QED
    BY <1>1, <2>2
<1>5. CASE free' = free
  BY <1>1, <1>5 DEF TypeOK
<1>6. AcquireHandle \/ ReleaseLast \/ PlaceBlob \/ free' = free
  <2>1. CASE Mutate
    BY <2>1 DEF Mutate, LeaveConcat, JoinConcat, CountHandles, blobs
  <2>2. CASE Configure
    BY <2>2 DEF Configure, NextTask, NextStage, SkipHandle, ReleaseRead, blobs
  <2>3. CASE Update
    BY <2>3 DEF Update, FinishUpdate, blobs
  <2>4. CASE Frame
    BY <2>4 DEF Frame, Populate, ReceiveInputs, AcquirePool, RunTask, ReleasePool, SendOutputs, blobs
  <2>. QED
    BY <2>1, <2>2, <2>3, <2>4 DEF Next
<1>. QED
  BY <1>2, <1>3, <1>4, <1>5, <1>6

LEMMA TypePool ==
    ASSUME NetInv, TypeOK, BooksInv, Next
    PROVE  areas' \in Seq(Nat) /\ owners' \in Nat /\ acquired' \in BOOLEAN /\ frame' \in {0, 1}
<1>1. areas \in Seq(Nat) /\ owners \in Nat /\ acquired \in BOOLEAN /\ frame \in {0, 1}
  BY DEF TypeOK
<1>2. cursor.index \in Nat \ {0} /\ cursor.offset \in Nat /\ cursor.needed \in Nat
  BY DEF BooksInv, PlaceInv
<1>3. CASE PlaceBlob
  <2>1. PICK k : Places(k)
    BY <1>3, BlobPlaced
  <2>2. areas' = (IF manager = "offsets" THEN areas ELSE Widened(cursor.index, free[k].size)) /\ owners' = owners
    BY <2>1 DEF Places
  <2>3. PICK size \in Nat : size = free[k].size
    BY <2>1, PlacedSets DEF BooksInv
  <2>4. \A w : w = Widened(cursor.index, size) => w \in Seq(Nat)
    BY <1>2, WidenedIs
  <2>5. acquired' = acquired /\ frame' = frame
    BY <1>3 DEF PlaceBlob, run
  <2>. QED
    BY <1>1, <2>2, <2>3, <2>4, <2>5
<1>4. CASE FinishUpdate
  <2>1. \/ areas' = areas /\ owners' = owners
        \/ areas' = Widened(1, cursor.needed) /\ owners' = Larger(owners, cursor.index - 1)
    BY <1>4 DEF FinishUpdate
  <2>2. PICK one \in Nat \ {0} : one = 1
    OBVIOUS
  <2>3. PICK needed \in Nat : needed = cursor.needed
    BY <1>2
  <2>4. \A w : w = Widened(one, needed) => w \in Seq(Nat)
    BY WidenedIs
  <2>5. Larger(owners, cursor.index - 1) \in Nat
    BY <1>1, <1>2 DEF Larger
  <2>6. acquired' = acquired /\ frame' = frame
    BY <1>4 DEF FinishUpdate, run
  <2>. QED
    BY <1>1, <2>1, <2>2, <2>3, <2>4, <2>5, <2>6
<1>5. CASE Mutate
  BY <1>1, <1>5 DEF Mutate, LeaveConcat, JoinConcat, CountHandles, pool, run
<1>6. CASE Configure
  BY <1>1, <1>6 DEF Configure, NextTask, NextStage, SkipHandle, AcquireHandle, ReleaseRead, ReleaseLast, pool, run
<1>7. CASE Frame
  <2>1. areas' = areas /\ owners' = owners
    BY <1>7 DEF Frame, Populate, ReceiveInputs, AcquirePool, RunTask, ReleasePool, SendOutputs, pool
  <2>2. acquired' = acquired \/ acquired' = FALSE \/ acquired' = (DOMAIN mappings # {})
    BY <1>7 DEF Frame, Populate, ReceiveInputs, AcquirePool, RunTask, ReleasePool, SendOutputs, run
  <2>3. acquired' \in BOOLEAN
    BY <1>1, <2>2
  <2>4. frame' = frame \/ frame' = 1 - frame
    BY <1>7 DEF Frame, Populate, ReceiveInputs, AcquirePool, RunTask, ReleasePool, SendOutputs, run
  <2>. QED
    BY <1>1, <2>1, <2>3, <2>4
<1>. QED
  BY <1>3, <1>4, <1>5, <1>6, <1>7 DEF Next, Update

LEMMA StepType ==
    ASSUME NetInv, TypeOK, ForestInv, LoopInv, BooksInv, Next
    PROVE  TypeOK'
<1>1. BooksInv'
  BY StepBooks
<1>2. /\ phase' \in {"mutating", "lifetimes", "placing", "waiting", "received", "running", "sending"}
      /\ joined' \subseteq OfKind("concat")' /\ parent' \in [Nodes' -> Nodes'] /\ depth' \in [Nodes' -> Nat]
      /\ task' \in 0 .. Len(net') + 1
      /\ stage' \in {"inputs", "output", "release", "done"} /\ slot' \in Nat \ {0}
      /\ free' \in Seq([size : Nat, bound : SUBSET Nodes'])
      /\ areas' \in Seq(Nat) /\ owners' \in Nat /\ acquired' \in BOOLEAN /\ frame' \in {0, 1}
  BY TypeHandles, TypeLoops, TypeFree, TypePool
<1>3. /\ DOMAIN inFlight' \subseteq Nodes' /\ DOMAIN occupied' = DOMAIN inFlight'
      /\ \A h \in DOMAIN occupied' : IsBlob(occupied[h])'
  BY <1>1 DEF BooksInv, FlightInv, BlobInv
<1>4. ASSUME NEW h \in DOMAIN inFlight' PROVE inFlight'[h] \in Nat \ {0}
  <2>1. inFlight'[h] = Cardinality(Open(h)') /\ Open(h)' # {} /\ Begun(h)'
    BY <1>1 DEF BooksInv, FlightInv
  <2>2. phase' # "mutating"
    BY <2>1 DEF Begun, Acquired, Configured
  <2>3. UNCHANGED <<graph, handles>>
    BY <2>2, StepHandles DEF LeaveConcat, JoinConcat, NextConcat
  <2>4. Open(h)' \in SUBSET Reads(h)
    <3>1. Reads(h)' = Reads(h)
      BY <2>3, Same
    <3>. QED
      BY <3>1 DEF Open
  <2>5. IsFiniteSet(Open(h)')
    BY <2>4, ReadsFinite, FS_Subset
  <2>. QED
    BY <2>1, <2>5, FS_CardinalityType, FS_EmptySet
<1>5. DOMAIN mappings' \subseteq Nodes'
  BY <1>1 DEF BooksInv, PlaceInv, Over
<1>6. ASSUME phase' # "placing", NEW h \in DOMAIN mappings' PROVE mappings'[h] \in (DOMAIN areas') \X Nat
  <2>1. ~Below(h)'
    BY <1>6 DEF Below
  <2>2. mappings'[h] \in (Nat \ {0}) \X Nat /\ mappings'[h][1] \in DOMAIN areas'
    BY <1>1, <2>1 DEF BooksInv, PlaceInv
  <2>. QED
    BY <2>2
<1>. QED
  BY <1>2, <1>3, <1>4, <1>5, <1>6 DEF TypeOK

LEMMA InitOK ==
    ASSUME Init
    PROVE  TypeOK /\ NetInv /\ ForestInv /\ LoopInv /\ BooksInv
<1>1. NetInv
  BY DEF Init, NetInv
<1>2. /\ Len(net) \in Nat /\ Nodes \subseteq Nat
      /\ \A n \in Nodes : n \in Nat /\ net[n].size \in Nat
  BY <1>1, NetFacts
<1>3. TypeOK
  <2>1. /\ phase = "mutating" /\ joined = {} /\ task \in 0 .. Len(net) + 1 /\ stage = "done" /\ slot = 1
        /\ owners = 0 /\ frame = 0
    BY <1>2 DEF Init
  <2>4. acquired \in BOOLEAN
    BY DEF Init
  <2>2. parent \in [Nodes -> Nodes] /\ depth \in [Nodes -> Nat]
    BY DEF Init
  <2>3. /\ DOMAIN inFlight = {} /\ DOMAIN occupied = {} /\ DOMAIN mappings = {}
        /\ free \in Seq([size : Nat, bound : SUBSET Nodes]) /\ areas \in Seq(Nat)
    BY DEF Init
  <2>. QED
    BY <2>1, <2>2, <2>3, <2>4 DEF TypeOK
<1>4. ForestInv
  <2>1. joined = {} /\ parent = [n \in Nodes |-> n] /\ depth = [n \in Nodes |-> 0]
    BY DEF Init
  <2>. QED
    BY <1>2, <2>1 DEF ForestInv
<1>5. LoopInv
  BY DEF Init, LoopInv
<1>. QED
  BY <1>1, <1>3, <1>4, <1>5, InitBooks

--------------------------------------------------------------------------------
(* The memory of a frame *)

\* When the pool is made, the tensors of the tasks that have no memory of their own are in it.
LEMMA AllPlaced ==
    ASSUME NetInv, TypeOK, ForestInv, BooksInv, Configured
    PROVE  DOMAIN inFlight = {} /\ DOMAIN occupied = {} /\ DOMAIN mappings = Managed
<1>. USE DEF BooksInv
<1>1. phase \notin {"lifetimes", "placing"}
  BY DEF Configured
<1>2. DOMAIN occupied = {} /\ DOMAIN inFlight = {} /\ free = <<>>
  BY <1>1 DEF CompleteInv, TypeOK
<1>3. ASSUME NEW h \in Active PROVE FALSE
  BY <1>2, <1>3 DEF Active
<1>4. ASSUME NEW h PROVE Begun(h) <=> \E n \in Tasks : parent[n] = h
  BY DEF Begun, Acquired
<1>5. ASSUME NEW h \in Managed PROVE h \in DOMAIN mappings
  <2>1. h \notin ConstHandles /\ \E n \in Tasks \cup UNION {Ins(k) : k \in Tasks} : h = parent[n]
    BY DEF Managed
  <2>2. PICK n \in Tasks \cup UNION {Ins(k) : k \in Tasks} : h = parent[n]
    BY <2>1
  <2>3. n \in Nodes /\ \E m \in Tasks : parent[m] = h
    <3>1. CASE n \in Tasks
      BY <2>2, <3>1, TasksFacts
    <3>2. CASE n \notin Tasks
      <4>1. PICK k \in Tasks : n \in Ins(k)
        BY <3>2
      <4>2. k \in Nodes
        BY TasksFacts
      <4>3. n \in Nodes
        BY <4>1, <4>2, NetFacts
      <4>4. \E m \in Tasks : m <= n /\ m < k /\ parent[m] = parent[n]
        BY <2>1, <2>2, <4>1, ReadAfterWritten
      <4>. QED
        BY <2>2, <4>3, <4>4
    <3>. QED
      BY <3>1, <3>2
  <2>4. h \in Nodes
    BY <2>2, <2>3 DEF TypeOK
  <2>. QED
    BY <1>3, <1>4, <2>1, <2>3, <2>4 DEF CompleteInv
<1>6. ASSUME NEW h \in DOMAIN mappings PROVE h \in Managed
  <2>1. h \notin ConstHandles /\ Begun(h)
    BY DEF PlaceInv, Over
  <2>2. PICK n \in Tasks : parent[n] = h
    BY <1>4, <2>1
  <2>. QED
    BY <2>1, <2>2 DEF Managed
<1>. QED
  BY <1>2, <1>5, <1>6

\* A tensor has cells: it has memory of its own, or a place.
Reached(n) == n \in Nodes /\ (parent[n] \in ConstHandles \/ parent[n] \in DOMAIN mappings)

LEMMA HomeIs ==
    ASSUME NetInv, TypeOK, BooksInv, NEW n, Reached(n)
    PROVE  /\ n \in Nat /\ parent[n] \in Nodes /\ parent[n] \in Nat /\ parent[n] > 0 /\ depth[n] \in Nat
           /\ net[n].size \in Nat /\ net[n].size > 0
           /\ Home(n)[1] \in Int /\ Home(n)[2] \in Nat
           /\ parent[n] \in ConstHandles => Home(n)[1] = -parent[n] /\ Home(n)[2] = 0
           /\ parent[n] \notin ConstHandles => Home(n)[1] > 0 /\ Home(n) = mappings[parent[n]]
           /\ \A c : c \in Cells(n) <=> \E x \in Extent(n) : c = <<Home(n)[1], Home(n)[2] + x>>
<1>1. n \in Nodes /\ n \in Nat /\ parent[n] \in Nodes /\ depth[n] \in Nat /\ net[n].size \in Nat /\ net[n].size > 0
  BY NetFacts DEF Reached, TypeOK
<1>2. parent[n] \in Nat /\ parent[n] > 0
  BY <1>1, NetFacts
<1>3. parent[n] \in ConstHandles => Home(n) = <<-parent[n], 0>>
  BY DEF Home
<1>4. parent[n] \notin ConstHandles => Home(n) = mappings[parent[n]] /\ mappings[parent[n]] \in (Nat \ {0}) \X Nat
  BY DEF Home, Reached, BooksInv, PlaceInv
<1>5. Home(n)[1] \in Int /\ Home(n)[2] \in Nat
  BY <1>2, <1>3, <1>4
<1>6. parent[n] \notin ConstHandles => Home(n)[1] > 0
  BY <1>4
<1>7. ASSUME NEW c PROVE c \in Cells(n) <=> \E x \in Extent(n) : c = <<Home(n)[1], Home(n)[2] + x>>
  <2>. DEFINE a == Home(n)[1]
              b == Home(n)[2]
              d == depth[n]
              s == net[n].size
  <2>1. b \in Nat /\ d \in Nat /\ s \in Nat
    BY <1>1, <1>5
  <2>2. c \in Cells(n) <=> \E i \in 0 .. s - 1 : c = <<a, b + d + i>>
    BY DEF Cells
  <2>3. Extent(n) = d .. d + s - 1
    BY DEF Extent
  <2>. HIDE DEF a, b, d, s
  <2>4. ASSUME NEW i \in 0 .. s - 1 PROVE d + i \in d .. d + s - 1 /\ b + d + i = b + (d + i)
    BY <2>1
  <2>5. ASSUME NEW x \in d .. d + s - 1 PROVE x - d \in 0 .. s - 1 /\ b + d + (x - d) = b + x
    BY <2>1
  <2>6. (\E i \in 0 .. s - 1 : c = <<a, b + d + i>>) <=> \E x \in d .. d + s - 1 : c = <<a, b + x>>
    BY <2>4, <2>5
  <2>7. c \in Cells(n) <=> \E x \in Extent(n) : c = <<a, b + x>>
    BY <2>2, <2>3, <2>6
  <2>. QED
    BY <2>7 DEF a, b
<1>. QED
  BY <1>1, <1>2, <1>3, <1>4, <1>5, <1>6, <1>7

\* Tensors in use at the same time that are not put together have no cell in common.
LEMMA Separate ==
    ASSUME NetInv, TypeOK, ForestInv, BooksInv, NEW m \in Nodes \ joined, NEW n \in Nodes \ joined, m # n,
           Reached(m), Reached(n), NEW c \in Cells(m), c \in Cells(n)
    PROVE  /\ parent[m] \notin ConstHandles /\ parent[n] \notin ConstHandles /\ parent[m] # parent[n]
           /\ Apart(parent[m], parent[n])
<1>1. /\ parent[m] \in Nat /\ parent[m] > 0 /\ depth[m] \in Nat /\ net[m].size \in Nat
      /\ Home(m)[1] \in Int /\ Home(m)[2] \in Nat
      /\ parent[m] \in ConstHandles => Home(m)[1] = -parent[m] /\ Home(m)[2] = 0
      /\ parent[m] \notin ConstHandles => Home(m)[1] > 0 /\ Home(m) = mappings[parent[m]]
      /\ \E x \in Extent(m) : c = <<Home(m)[1], Home(m)[2] + x>>
  BY HomeIs
<1>2. /\ parent[n] \in Nat /\ parent[n] > 0 /\ depth[n] \in Nat /\ net[n].size \in Nat
      /\ Home(n)[1] \in Int /\ Home(n)[2] \in Nat
      /\ parent[n] \in ConstHandles => Home(n)[1] = -parent[n] /\ Home(n)[2] = 0
      /\ parent[n] \notin ConstHandles => Home(n)[1] > 0 /\ Home(n) = mappings[parent[n]]
      /\ \E x \in Extent(n) : c = <<Home(n)[1], Home(n)[2] + x>>
  BY HomeIs
<1>3. PICK x \in Extent(m) : c = <<Home(m)[1], Home(m)[2] + x>>
  BY <1>1
<1>4. PICK y \in Extent(n) : c = <<Home(n)[1], Home(n)[2] + y>>
  BY <1>2
<1>5. x \in Nat /\ y \in Nat /\ x < depth[m] + net[m].size /\ y < depth[n] + net[n].size
  BY <1>1, <1>2 DEF Extent
<1>6. Home(m)[1] = Home(n)[1] /\ Home(m)[2] + x = Home(n)[2] + y
  BY <1>3, <1>4
<1>7. parent[m] # parent[n]
  <2>1. SUFFICES ASSUME parent[m] = parent[n] PROVE FALSE
    OBVIOUS
  <2>2. Home(m) = Home(n)
    BY <2>1 DEF Home
  <2>3. x = y
    BY <1>1, <1>5, <1>6, <2>2
  <2>4. Extent(m) \cap Extent(n) = {}
    BY <2>1 DEF ForestInv
  <2>. QED
    BY <2>3, <2>4
<1>8. parent[m] \notin ConstHandles /\ parent[n] \notin ConstHandles
  BY <1>1, <1>2, <1>6, <1>7
<1>9. parent[m] \in DOMAIN mappings /\ parent[n] \in DOMAIN mappings
  BY <1>8 DEF Reached
<1>10. ~Beside(parent[m], parent[n])
  <2>. DEFINE a == mappings[parent[m]]
              b == mappings[parent[n]]
  <2>1. a = Home(m) /\ b = Home(n)
    BY <1>1, <1>2, <1>8
  <2>2. depth[m] + net[m].size <= net[parent[m]].size /\ depth[n] + net[n].size <= net[parent[n]].size
    BY DEF ForestInv
  <2>3. net[parent[m]].size \in Nat /\ net[parent[n]].size \in Nat
    BY NetFacts DEF TypeOK
  <2>4. a[1] = b[1] /\ a[2] \in Nat /\ b[2] \in Nat /\ a[2] + x = b[2] + y
    BY <1>1, <1>2, <1>6, <2>1
  <2>5. x < net[parent[m]].size /\ y < net[parent[n]].size
    BY <1>1, <1>2, <1>5, <2>2, <2>3
  <2>. HIDE DEF a, b
  <2>6. ~(a[2] + net[parent[m]].size <= b[2]) /\ ~(b[2] + net[parent[n]].size <= a[2])
    BY <1>5, <2>3, <2>4, <2>5
  <2>. QED
    BY <2>4, <2>6 DEF Beside, a, b
<1>. QED
  BY <1>7, <1>8, <1>9, <1>10 DEF BooksInv, PlaceInv

\* In a frame the tensors keep their places.
LEMMA SamePlaces ==
    ASSUME UNCHANGED <<graph, handles, pool>>
    PROVE  \A n : /\ Home(n)' = Home(n) /\ Cells(n)' = Cells(n)
                  /\ (parent[n] \in ConstHandles \/ acquired' = acquired) => (Accessible(n)' <=> Accessible(n))
<1>1. /\ net' = net /\ parent' = parent /\ depth' = depth /\ mappings' = mappings
      /\ ConstHandles' = ConstHandles /\ Allocated' = Allocated
  BY Same DEF pool
<1>2. ASSUME NEW n PROVE Home(n)' = Home(n)
  BY <1>1 DEF Home
<1>3. ASSUME NEW n PROVE Cells(n)' = Cells(n)
  BY <1>1, <1>2 DEF Cells
<1>4. ASSUME NEW n, parent[n] \in ConstHandles \/ acquired' = acquired PROVE Accessible(n)' <=> Accessible(n)
  BY <1>1, <1>4 DEF Accessible
<1>. QED
  BY <1>2, <1>3, <1>4

LEMMA DirectKept ==
    ASSUME UNCHANGED <<graph, handles, pool, memory, frame>>, NEW n,
           parent[n] \in ConstHandles \/ acquired' = acquired, Direct(n)
    PROVE  Direct(n)'
BY SamePlaces DEF Direct

\* A write of one value: that one is there, and those it does not overlap stay.
LEMMA WrittenOne ==
    ASSUME UNCHANGED <<graph, handles, pool, acquired>>, frame' = frame, NEW t, memory' = Written({t})
    PROVE  /\ Accessible(t) => Direct(t)'
           /\ \A n : Direct(n) /\ Cells(n) \cap Cells(t) = {} => Direct(n)'
<1>1. \A n : Cells(n)' = Cells(n) /\ (Accessible(n)' <=> Accessible(n))
  BY SamePlaces
<1>2. UNION {Cells(n) : n \in {t}} = Cells(t)
  OBVIOUS
<1>3. memory' = [c \in Cells(t) \cup DOMAIN memory |->
                   IF c \in Cells(t) THEN <<CHOOSE n \in {t} : c \in Cells(n), frame'>> ELSE memory[c]]
  BY <1>2 DEF Written
<1>4. ASSUME NEW c \in Cells(t) PROVE c \in DOMAIN memory' /\ memory'[c] = <<t, frame>>
  <2>1. (CHOOSE n \in {t} : c \in Cells(n)) = t
    OBVIOUS
  <2>. QED
    BY <1>3, <2>1
<1>5. ASSUME NEW n, Direct(n), Cells(n) \cap Cells(t) = {}, NEW c \in Cells(n)
      PROVE  c \in DOMAIN memory' /\ memory'[c] = <<n, frame>>
  <2>1. c \notin Cells(t) /\ c \in DOMAIN memory /\ memory[c] = <<n, frame>>
    BY <1>5 DEF Direct
  <2>. QED
    BY <1>3, <2>1
<1>6. Accessible(t) => Direct(t)'
  BY <1>1, <1>4 DEF Direct
<1>7. ASSUME NEW n, Direct(n), Cells(n) \cap Cells(t) = {} PROVE Direct(n)'
  <2>1. Accessible(n)'
    BY <1>1, <1>7 DEF Direct
  <2>2. \A c \in Cells(n) : c \in DOMAIN memory' /\ memory'[c] = <<n, frame>>
    BY <1>5, <1>7
  <2>. QED
    BY <1>1, <2>1, <2>2 DEF Direct
<1>. QED
  BY <1>6, <1>7

\* The inputs have memory of their own, each its own.
LEMMA ReceivedFrame ==
    ASSUME NetInv, TypeOK, ForestInv, BooksInv, ~JoinsUnmanaged, ReceiveInputs
    PROVE  FrameInv'
<1>1. /\ UNCHANGED <<graph, handles, pool, acquired>> /\ phase' = "received"
      /\ memory' = Written({n \in OfKind("input") : Accessible(n)})
  BY DEF ReceiveInputs
<1>2. OfKind("input")' = OfKind("input") /\ \A n : Cells(n)' = Cells(n) /\ (Accessible(n)' <=> Accessible(n))
  BY <1>1, Same, SamePlaces
<1>3. ASSUME NEW n \in OfKind("input")
      PROVE  n \in Nodes \ joined /\ parent[n] \in ConstHandles /\ Accessible(n) /\ Reached(n)
  <2>1. n \in Unmanaged /\ n \in Nodes /\ net[n].kind # "concat"
    BY DEF Unmanaged, OfKind
  <2>2. parent[n] = n /\ n \in Allocated /\ n \in ConstHandles
    BY <2>1, Constants
  <2>3. n \notin joined
    BY <2>1 DEF TypeOK, OfKind
  <2>. QED
    BY <2>1, <2>2, <2>3 DEF Accessible, Reached
<1>4. {n \in OfKind("input") : Accessible(n)} = OfKind("input")
  BY <1>3
<1>5. ASSUME NEW m \in OfKind("input"), NEW n \in OfKind("input"), NEW c \in Cells(m), c \in Cells(n)
      PROVE  m = n
  <2>1. SUFFICES ASSUME m # n PROVE FALSE
    OBVIOUS
  <2>2. m \in Nodes \ joined /\ n \in Nodes \ joined /\ Reached(m) /\ Reached(n) /\ parent[m] \in ConstHandles
    BY <1>3
  <2>3. parent[m] \notin ConstHandles
    BY <1>5, <2>1, <2>2, Separate
  <2>. QED
    BY <2>2, <2>3
<1>. DEFINE cells == UNION {Cells(n) : n \in OfKind("input")}
<1>6. memory' = [c \in cells \cup DOMAIN memory |->
                   IF c \in cells THEN <<CHOOSE n \in OfKind("input") : c \in Cells(n), frame'>> ELSE memory[c]]
  <2>1. PICK ns : ns = OfKind("input")
    OBVIOUS
  <2>2. memory' = Written(ns)
    BY <1>1, <1>4, <2>1
  <2>3. memory' = [c \in (UNION {Cells(n) : n \in ns}) \cup DOMAIN memory |->
                     IF c \in UNION {Cells(n) : n \in ns} THEN <<CHOOSE n \in ns : c \in Cells(n), frame'>> ELSE memory[c]]
    BY <2>2 DEF Written
  <2>. QED
    BY <2>1, <2>3
<1>7. ASSUME NEW n \in OfKind("input"), NEW c \in Cells(n) PROVE c \in cells /\ (CHOOSE m \in OfKind("input") : c \in Cells(m)) = n
  BY <1>5
<1>. HIDE DEF cells
<1>8. ASSUME NEW n \in OfKind("input") PROVE Direct(n)'
  <2>1. \A c \in Cells(n) : c \in DOMAIN memory' /\ memory'[c] = <<n, frame'>>
    BY <1>6, <1>7
  <2>. QED
    BY <1>2, <1>3, <2>1 DEF Direct
<1>. QED
  BY <1>1, <1>2, <1>8 DEF FrameInv

LEMMA AcquiredFrame ==
    ASSUME NetInv, TypeOK, ForestInv, FrameInv, ~JoinsUnmanaged, AcquirePool
    PROVE  FrameInv'
<1>1. /\ UNCHANGED <<graph, handles, pool, memory, frame>> /\ phase = "received" /\ phase' = "running"
      /\ acquired' = (DOMAIN mappings # {}) /\ task' = 0 /\ mappings' = mappings
  BY DEF AcquirePool, pool
<1>2. OfKind("input")' = OfKind("input") /\ Tasks' = Tasks
  BY <1>1, Same
<1>3. ASSUME NEW n \in OfKind("input") PROVE Direct(n)'
  <2>1. parent[n] \in ConstHandles
    BY DEF ConstHandles, Unmanaged, OfKind
  <2>2. Direct(n)
    BY <1>1 DEF FrameInv
  <2>. QED
    BY <1>1, <2>1, <2>2, DirectKept
<1>4. \A n \in Tasks : ~(n <= task')
  <2>1. \A n \in Tasks : n \in Nodes /\ n \in Nat /\ n > 0
    BY TasksFacts, NetFacts
  <2>. QED
    BY <1>1, <2>1
<1>. QED
  BY <1>1, <1>2, <1>3, <1>4 DEF FrameInv

\* A task overwrites nothing that is still in use.
LEMMA TaskFrame ==
    ASSUME NetInv, TypeOK, ForestInv, BooksInv, FrameInv, ~JoinsUnmanaged, RunTask
    PROVE  FrameInv'
<1>1. /\ UNCHANGED <<graph, handles, pool, acquired>> /\ phase = "running" /\ phase' = "running" /\ frame' = frame
      /\ task' = Min(Remaining) /\ Remaining # {} /\ mappings' = mappings /\ acquired' = acquired
      /\ memory' = Written({n \in {task'} : Accessible(n)}) /\ Configured
  BY DEF RunTask, pool, Configured
<1>2. PICK t : t = task'
  OBVIOUS
<1>3. t \in Tasks /\ t \in Nat /\ t > task /\ task \in Nat /\ \A n \in Tasks : n \in Nat /\ (n <= t => n = t \/ n <= task)
  <2>1. t \in Remaining /\ \A k \in Remaining : t <= k
    BY <1>1, <1>2, TasksFacts, MinIs
  <2>2. t \in Tasks /\ t > task /\ \A n \in Tasks : n > task => t <= n
    BY <2>1 DEF Remaining
  <2>3. task \in Nat /\ \A n \in Tasks : n \in Nat
    BY NetFacts, TasksFacts DEF TypeOK
  <2>. QED
    BY <2>2, <2>3
<1>4. DOMAIN mappings = Managed
  BY <1>1, AllPlaced
<1>5. ASSUME NEW n \in Tasks PROVE n \in Nodes \ joined /\ Reached(n) /\ Accessible(n)
  <2>1. n \in Nodes \ joined
    BY TasksFacts
  <2>2. CASE parent[n] \in ConstHandles
    BY <2>1, <2>2, Constants DEF Reached, Accessible
  <2>3. CASE parent[n] \notin ConstHandles
    <3>1. parent[n] \in DOMAIN mappings
      BY <1>4, <2>3 DEF Managed
    <3>2. acquired
      BY <1>1, <3>1 DEF FrameInv
    <3>. QED
      BY <2>1, <2>3, <3>1, <3>2 DEF Reached, Accessible
  <2>. QED
    BY <2>2, <2>3
<1>6. {n \in {task'} : Accessible(n)} = {t}
  BY <1>2, <1>3, <1>5
<1>7. memory' = Written({t})
  BY <1>1, <1>6
<1>8. /\ Accessible(t) => Direct(t)'
      /\ \A n : Direct(n) /\ Cells(n) \cap Cells(t) = {} => Direct(n)'
  BY <1>1, <1>7, WrittenOne
<1>9. OfKind("input")' = OfKind("input") /\ Tasks' = Tasks /\ ConstHandles' = ConstHandles /\ parent' = parent
      /\ \A h : Uses(h)' = Uses(h)
  BY <1>1, Same
<1>10. ASSUME NEW n \in OfKind("input") PROVE Direct(n)'
  <2>1. n \in Nodes /\ net[n].kind = "input" /\ parent[n] \in ConstHandles
    BY DEF ConstHandles, Unmanaged, OfKind
  <2>2. n \in Nodes \ joined /\ n # t /\ Reached(n)
    BY <1>3, <2>1 DEF TypeOK, OfKind, Reached, Tasks
  <2>3. \A c \in Cells(n) : c \notin Cells(t)
    BY <1>3, <1>5, <2>1, <2>2, Separate
  <2>4. Direct(n)
    BY <1>1 DEF FrameInv
  <2>. QED
    BY <1>8, <2>3, <2>4
<1>11. ASSUME NEW n \in Tasks, n <= t, parent[n] \in ConstHandles \/ \E k \in Uses(parent[n]) : t <= k
       PROVE  Direct(n)'
  <2>1. CASE n = t
    BY <1>5, <1>8, <2>1
  <2>2. CASE n # t
    <3>1. n <= task
      BY <1>3, <1>11, <2>2
    <3>2. parent[n] \in ConstHandles \/ \E k \in Uses(parent[n]) : task <= k
      <4>1. ASSUME NEW k \in Uses(parent[n]), t <= k PROVE task <= k
        BY <1>3, <4>1 DEF Uses
      <4>. QED
        BY <1>11, <4>1
    <3>3. Direct(n)
      BY <1>1, <3>1, <3>2 DEF FrameInv
    <3>4. ASSUME NEW c \in Cells(n), c \in Cells(t) PROVE FALSE
      <4>1. /\ parent[n] \notin ConstHandles /\ Apart(parent[n], parent[t])
        BY <1>3, <1>5, <2>2, <3>4, Separate
      <4>2. PICK k \in Uses(parent[n]) : t <= k
        BY <1>11, <4>1
      <4>3. t \in Uses(parent[t]) /\ n \in Uses(parent[n])
        BY <1>3 DEF Uses
      <4>4. k < t \/ t < n
        BY <4>1, <4>2, <4>3 DEF Apart
      <4>5. k \in Nat /\ n \in Nat
        BY <1>3 DEF Uses
      <4>. QED
        BY <1>3, <1>11, <4>2, <4>4, <4>5
    <3>. QED
      BY <1>8, <3>3, <3>4
  <2>. QED
    BY <2>1, <2>2
<1>12. DOMAIN mappings' # {} => acquired'
  BY <1>1 DEF FrameInv
<1>. QED
  BY <1>1, <1>2, <1>9, <1>10, <1>11, <1>12 DEF FrameInv

LEMMA ReleasedFrame ==
    ASSUME NetInv, TypeOK, FrameInv, ReleasePool
    PROVE  FrameInv'
<1>1. /\ UNCHANGED <<graph, handles, pool, memory, frame>> /\ phase = "running" /\ phase' = "sending"
      /\ task' = task /\ Remaining = {}
  BY DEF ReleasePool, loops
<1>2. OfKind("input")' = OfKind("input") /\ Tasks' = Tasks /\ ConstHandles' = ConstHandles /\ parent' = parent
  BY <1>1, Same
<1>3. ASSUME NEW n, parent[n] \in ConstHandles, Direct(n) PROVE Direct(n)'
  BY <1>1, <1>3, DirectKept
<1>4. ASSUME NEW n \in OfKind("input") PROVE Direct(n)'
  <2>1. parent[n] \in ConstHandles
    BY DEF ConstHandles, Unmanaged, OfKind
  <2>2. Direct(n)
    BY <1>1 DEF FrameInv
  <2>. QED
    BY <1>3, <2>1, <2>2
<1>5. ASSUME NEW n \in Tasks, n <= task, parent[n] \in ConstHandles PROVE Direct(n)'
  <2>1. Direct(n)
    BY <1>1, <1>5 DEF FrameInv
  <2>. QED
    BY <1>3, <1>5, <2>1
<1>6. Remaining' = {}
  BY <1>1, <1>2 DEF Remaining
<1>. QED
  BY <1>1, <1>2, <1>4, <1>5, <1>6 DEF FrameInv

LEMMA StepFrame ==
    ASSUME NetInv, TypeOK, ForestInv, BooksInv, FrameInv, ~JoinsUnmanaged, Next
    PROVE  FrameInv'
<1>1. CASE ReceiveInputs
  BY <1>1, ReceivedFrame
<1>2. CASE AcquirePool
  BY <1>2, AcquiredFrame
<1>3. CASE RunTask
  BY <1>3, TaskFrame
<1>4. CASE ReleasePool
  BY <1>4, ReleasedFrame
<1>5. CASE phase' \notin {"received", "running", "sending"}
  BY <1>5 DEF FrameInv
<1>6. ReceiveInputs \/ AcquirePool \/ RunTask \/ ReleasePool \/ phase' \notin {"received", "running", "sending"}
  BY DEF Next, Mutate, Configure, Update, Frame, LeaveConcat, JoinConcat, CountHandles, NextConcat, NextTask,
         NextStage, SkipHandle, AcquireHandle, ReleaseRead, ReleaseLast, AtHandle, PlaceBlob, FinishUpdate, Populate,
         SendOutputs
<1>. QED
  BY <1>1, <1>2, <1>3, <1>4, <1>5, <1>6

--------------------------------------------------------------------------------
(* Steps of other parts of the program *)

LEMMA Unmoved ==
    ASSUME NetInv, TypeOK, ForestInv, LoopInv, BooksInv, UNCHANGED vars
    PROVE  TypeOK' /\ NetInv' /\ ForestInv' /\ LoopInv' /\ BooksInv'
<1>1. /\ UNCHANGED <<graph, handles, loops, pool, cursor>> /\ phase' = phase /\ task' = task /\ stage' = stage
      /\ slot' = slot /\ inFlight' = inFlight /\ occupied' = occupied /\ free' = free /\ cursor' = cursor
      /\ areas' = areas /\ owners' = owners /\ mappings' = mappings /\ acquired' = acquired /\ frame' = frame
  BY DEF vars, loops, blobs, pool, run
<1>2. /\ net' = net /\ manager' = manager /\ joined' = joined /\ parent' = parent /\ depth' = depth
      /\ Nodes' = Nodes /\ Tasks' = Tasks /\ ConstHandles' = ConstHandles /\ OfKind("concat")' = OfKind("concat")
      /\ (\A g, h : Apart(g, h)' = Apart(g, h)) /\ (\A k : LiveAt(k)' = LiveAt(k))
  BY <1>1, Same
<1>3. NetInv' /\ LoopInv'
  BY <1>1, <1>2 DEF NetInv, LoopInv
<1>4. ForestInv'
  <2>1. phase' = "mutating" => phase = "mutating" /\ task' \in Nat /\ task' <= task
    BY <1>1, NetFacts DEF TypeOK
  <2>. QED
    BY <1>1, <2>1, ForestKept
<1>5. TypeOK'
  BY <1>1, <1>2 DEF TypeOK, IsBlob
<1>6. Marked
  <2>1. \A n \in Tasks : Acquired(n)' <=> Acquired(n)
    BY <1>1 DEF Acquired, Configured
  <2>2. \A k \in Tasks : \A j \in DOMAIN net[k].ins : Ahead(<<k, j>>)' <=> Ahead(<<k, j>>)
    BY <1>1 DEF Ahead, Configured
  <2>. QED
    BY <1>1, <2>1, <2>2, MarkedBy
<1>7. \A g : Over(g) => Over(g)'
  BY <1>1, <1>6, OverKept
<1>8. FlightInv' /\ BlobInv'
  BY <1>1, <1>6, <1>7, FlightKept, BlobKept DEF BooksInv
<1>9. Active' = Active
  BY <1>1 DEF Active, Members
<1>10. CompleteInv'
  BY <1>1, <1>2, <1>6, <1>9 DEF BooksInv, CompleteInv, Marked
<1>11. PlaceInv'
  <2>1. \A h : (Below(h)' <=> Below(h)) /\ \A g : Beside(g, h)' <=> Beside(g, h)
    BY <1>1, <1>2 DEF Below, Beside
  <2>. QED
    BY <1>1, <1>2, <1>7, <1>9, <2>1 DEF BooksInv, PlaceInv
<1>12. FewInv'
  <2>1. BlobsNow' = BlobsNow /\ NumBlobs' = NumBlobs
    BY <1>1, <1>2 DEF BlobsNow, NumBlobs
  <2>. QED
    BY <1>1, <1>2, <2>1 DEF BooksInv, FewInv
<1>. QED
  BY <1>3, <1>4, <1>5, <1>8, <1>10, <1>11, <1>12 DEF BooksInv

LEMMA UnmovedFrame ==
    ASSUME NetInv, FrameInv, UNCHANGED vars
    PROVE  FrameInv'
<1>1. /\ UNCHANGED <<graph, handles, pool, memory, frame>> /\ phase' = phase /\ task' = task
      /\ mappings' = mappings /\ acquired' = acquired
  BY DEF vars, loops, pool, run
<1>2. OfKind("input")' = OfKind("input") /\ Tasks' = Tasks /\ ConstHandles' = ConstHandles /\ parent' = parent
      /\ \A h : Uses(h)' = Uses(h)
  BY <1>1, Same
<1>3. \A n : Direct(n) => Direct(n)'
  BY <1>1, DirectKept
<1>4. Remaining' = Remaining
  BY <1>1, <1>2 DEF Remaining
<1>. QED
  BY <1>1, <1>2, <1>3, <1>4 DEF FrameInv

--------------------------------------------------------------------------------
(* What the runs check *)

\* Direct parts are enough: what is put together in place is filled by its parts.
LEMMA Whole ==
    ASSUME NetInv, TypeOK, ForestInv, BooksInv, NEW i \in Nodes,
           \A m \in Nodes \ joined : m <= i /\ parent[m] = parent[i] => Direct(m)
    PROVE  Holds(i)
<1>. DEFINE ns == {m \in 1 .. i : parent[m] = parent[i]}
<1>1. Nodes = 1 .. Len(net) /\ Len(net) \in Nat /\ i \in Nat
  BY NetFacts
<1>2. ns \in SUBSET (1 .. i) /\ i \in ns /\ \A m \in ns : m \in Nodes /\ m <= i /\ parent[m] = parent[i]
  BY <1>1
<1>3. \A m : m \in Nodes /\ m <= i /\ parent[m] = parent[i] => m \in ns
  BY <1>1
<1>. HIDE DEF ns
<1>4. ASSUME NEW m \in ns \ joined
      PROVE  Accessible(m) /\ \A c \in Cells(m) : c \in DOMAIN memory /\ memory[c] = <<m, frame>>
  <2>1. Direct(m)
    BY <1>2
  <2>. QED
    BY <2>1 DEF Direct
<1>5. PICK n \in Nodes \ joined : n <= i /\ parent[n] = parent[i]
  BY Leaf
<1>6. parent[i] \in ConstHandles \/ parent[i] \in DOMAIN mappings
  BY <1>5 DEF Direct, Accessible
<1>7. ASSUME NEW m \in ns \cap joined
      PROVE  Ins(m) \subseteq ns /\ Cells(m) = UNION {Cells(j) : j \in Ins(m)}
  <2>1. /\ m \in Nodes /\ m <= i /\ parent[m] = parent[i] /\ m \in joined
        /\ \A j \in Ins(m) : parent[j] = parent[m]
        /\ Extent(m) = UNION {Extent(j) : j \in Ins(m)}
    BY <1>2 DEF ForestInv
  <2>2. \A j \in Ins(m) : j \in Nodes /\ j \in Nat /\ j < m
    BY <2>1, NetFacts
  <2>3. \A j \in Ins(m) : j \in ns
    BY <1>1, <1>3, <2>1, <2>2
  <2>4. \A j \in Ins(m) : Reached(j) /\ Home(j) = Home(m)
    BY <1>6, <2>1, <2>2 DEF Reached, Home
  <2>5. \A c : c \in Cells(m) <=> \E x \in Extent(m) : c = <<Home(m)[1], Home(m)[2] + x>>
    BY <1>6, <2>1, HomeIs DEF Reached
  <2>6. \A j \in Ins(m) : \A c : c \in Cells(j) <=> \E x \in Extent(j) : c = <<Home(m)[1], Home(m)[2] + x>>
    <3>1. ASSUME NEW j \in Ins(m) PROVE \A c : c \in Cells(j) <=> \E x \in Extent(j) : c = <<Home(j)[1], Home(j)[2] + x>>
      BY <2>4, HomeIs
    <3>. QED
      BY <2>4, <3>1
  <2>7. \A x : x \in Extent(m) <=> \E j \in Ins(m) : x \in Extent(j)
    BY <2>1
  <2>8. \A c : c \in Cells(m) <=> \E j \in Ins(m) : c \in Cells(j)
    BY <2>5, <2>6, <2>7
  <2>. QED
    BY <2>3, <2>8
<1>. QED
  BY <1>2, <1>4, <1>7 DEF Holds

LEMMA InputsHeld ==
    ASSUME NetInv, TypeOK, ForestInv, BooksInv, FrameInv
    PROVE  InputsIntact
<1>1. SUFFICES ASSUME phase = "running", task \in Tasks, NEW i \in Ins(task) PROVE Holds(i)
  BY DEF InputsIntact
<1>2. i \in Nodes /\ i \in Nat /\ i < task /\ task \in Nat
  BY <1>1, NetFacts, TasksFacts
<1>3. ASSUME NEW m \in Nodes \ joined, m <= i, parent[m] = parent[i] PROVE Direct(m)
  <2>1. CASE m \in OfKind("input")
    BY <1>1, <2>1 DEF FrameInv
  <2>2. CASE m \notin OfKind("input")
    <3>1. m \in Tasks /\ m \in Nat /\ m <= task
      BY <1>2, <1>3, <2>2, NetFacts DEF Tasks
    <3>2. task \in Uses(parent[m])
      BY <1>1, <1>3 DEF Uses
    <3>. QED
      BY <1>1, <1>2, <3>1, <3>2 DEF FrameInv
  <2>. QED
    BY <2>1, <2>2
<1>. QED
  BY <1>2, <1>3, Whole

LEMMA SentHeld ==
    ASSUME NetInv, TypeOK, ForestInv, BooksInv, FrameInv, ~JoinsUnmanaged
    PROVE  SentIntact
<1>1. SUFFICES ASSUME phase = "sending", NEW n \in Nodes, net[n].sent PROVE Holds(n)
  BY DEF SentIntact
<1>2. parent[n] \in ConstHandles
  BY <1>1 DEF ConstHandles, Unmanaged
<1>3. ASSUME NEW m \in Nodes \ joined, m <= n, parent[m] = parent[n] PROVE Direct(m)
  <2>1. CASE m \in OfKind("input")
    BY <1>1, <2>1 DEF FrameInv
  <2>2. CASE m \notin OfKind("input")
    <3>1. m \in Tasks /\ m \in Nat
      BY <1>3, <2>2, NetFacts DEF Tasks
    <3>2. Remaining = {} /\ task \in Nat
      BY <1>1, NetFacts DEF FrameInv, TypeOK
    <3>3. m <= task
      BY <3>1, <3>2 DEF Remaining
    <3>. QED
      BY <1>1, <1>2, <1>3, <3>1, <3>3 DEF FrameInv
  <2>. QED
    BY <2>1, <2>2
<1>. QED
  BY <1>3, Whole

LEMMA Fits ==
    ASSUME BooksInv
    PROVE  WithinPool
BY DEF BooksInv, PlaceInv, Below, WithinPool

LEMMA Few ==
    ASSUME NetInv, TypeOK, ForestInv, LoopInv, BooksInv
    PROVE  FewestBlobs
<1>1. SUFFICES ASSUME Managed # {} PROVE \E k \in Tasks : NumBlobs <= Cardinality(LiveAt(k))
  BY DEF FewestBlobs
<1>2. Tasks # {}
  BY <1>1 DEF Managed
<1>3. CASE NumBlobs = 0
  <2>1. PICK k \in Tasks : TRUE
    BY <1>2
  <2>2. Cardinality(LiveAt(k)) \in Nat
    BY LiveFinite, FS_CardinalityType
  <2>. QED
    BY <1>3, <2>2
<1>. QED
  BY <1>3 DEF BooksInv, FewInv

--------------------------------------------------------------------------------
(* Theorems *)

\* What holds whatever the mutator joins.
PackingInv == TypeOK /\ NetInv /\ ForestInv /\ LoopInv /\ BooksInv

LEMMA Packing ==
    Spec => []PackingInv
<1>1. Init => PackingInv
  BY InitOK DEF PackingInv
<1>2. PackingInv /\ [Next]_vars => PackingInv'
  <2>1. SUFFICES ASSUME PackingInv, [Next]_vars PROVE PackingInv'
    OBVIOUS
  <2>. USE DEF PackingInv
  <2>2. CASE Next
    BY <2>1, <2>2, StepType, StepNet, StepForest, StepLoop, StepBooks
  <2>3. CASE UNCHANGED vars
    BY <2>1, <2>3, Unmoved
  <2>. QED
    BY <2>1, <2>2, <2>3
<1>. QED
  BY <1>1, <1>2, PTL DEF Spec

\* With the inputs and the sent values left out of joins, the memory of a frame too.
MemoryInv == PackingInv /\ FrameInv

LEMMA Frames ==
    ASSUME ~JoinsUnmanaged
    PROVE  Spec => []MemoryInv
<1>1. Init => MemoryInv
  <2>1. Init => FrameInv
    BY DEF Init, FrameInv
  <2>. QED
    BY <2>1, InitOK DEF MemoryInv, PackingInv
<1>2. MemoryInv /\ [Next]_vars => MemoryInv'
  <2>1. SUFFICES ASSUME MemoryInv, [Next]_vars PROVE MemoryInv'
    OBVIOUS
  <2>. USE DEF MemoryInv, PackingInv
  <2>2. CASE Next
    BY <2>1, <2>2, StepType, StepNet, StepForest, StepLoop, StepBooks, StepFrame
  <2>3. CASE UNCHANGED vars
    BY <2>1, <2>3, Unmoved, UnmovedFrame
  <2>. QED
    BY <2>1, <2>2, <2>3
<1>. QED
  BY <1>1, <1>2, PTL DEF Spec

\* Lifetimes and mappings are of handles of this graph, and lead to areas of the pool: a handle that
\* is released is in flight (tensors_in_flight in configure_handle_lifetime).
THEOREM MemoryTyping == Spec => []TypeOK
<1>1. PackingInv => TypeOK
  BY DEF PackingInv
<1>. QED
  BY <1>1, Packing, PTL

\* When GraphContext::finalize makes the pool no lifetime is open, for every order of writes and
\* reads: what populate asserts.
THEOREM Finalized == Spec => []AllFinalized
<1>1. PackingInv => AllFinalized
  BY AllPlaced DEF PackingInv, AllFinalized, Configured
<1>. QED
  BY <1>1, Packing, PTL

\* Every tensor lies within its area of the pool, whatever the sizes and the alignment: the sum that
\* OffsetLifetimeManager asks for covers the gaps its offsets leave.
THEOREM Within == Spec => []WithinPool
<1>1. PackingInv => WithinPool
  BY Fits DEF PackingInv
<1>. QED
  BY <1>1, Packing, PTL

\* The blobs that start_lifetime and end_lifetime hand on are never more than the tensors in use at
\* one of the tasks.
THEOREM Fewest == Spec => []FewestBlobs
<1>1. PackingInv => FewestBlobs
  BY Few DEF PackingInv
<1>. QED
  BY <1>1, Packing, PTL

\* A task reads what was computed from this frame, as long as inputs and sent values are not joined
\* in place: no tensor is given the memory of another before its last reader has run.
THEOREM InputsKept ==
    ASSUME ~JoinsUnmanaged
    PROVE  Spec => []InputsIntact
<1>1. MemoryInv => InputsIntact
  BY InputsHeld DEF MemoryInv, PackingInv
<1>. QED
  BY <1>1, Frames, PTL

\* What call_all_senders sends, after the pool has been released, was computed from this frame.
THEOREM SentKept ==
    ASSUME ~JoinsUnmanaged
    PROVE  Spec => []SentIntact
<1>1. MemoryInv => SentIntact
  BY SentHeld DEF MemoryInv, PackingInv
<1>. QED
  BY <1>1, Frames, PTL

================================================================================
