-------------------------- MODULE OrderPartitionProofs --------------------------
(* Proofs about OrderPartition: whatever the order string, the graphs partition the  *)
(* layers, in order, each on its processing element.                                  *)
EXTENDS OrderPartition, TLAPS

Inv == TypeOK /\ PartitionInv

\* The graphs gs place the letters before first.
Fits(gs, first) ==
    /\ gs \in Seq(GraphRecords)
    /\ Placed(gs, first) /\ Ordered(gs) /\ Alternating(gs)
    /\ \A k \in DOMAIN gs : gs[k].start <= gs[k].end /\ gs[k].end < first

EndsOn(gs, letter) == gs # <<>> /\ gs[Len(gs)].PE = letter

\* A graph for the letters first to last, all the same, extends what gs places.
LEMMA Adding ==
    ASSUME NEW gs, NEW first \in Nat, NEW last \in Nat, NEW letter \in Letters,
           NEW target \in Targets,
           Fits(gs, first), ~EndsOn(gs, letter), first <= last,
           \A j \in first .. last : Letter(j) = letter
    PROVE  /\ Fits(Append(gs, GraphOf(first, last, letter, target)), last + 1)
           /\ EndsOn(Append(gs, GraphOf(first, last, letter, target)), letter)
<1>. DEFINE n == Len(gs)
            g == GraphOf(first, last, letter, target)
            more == Append(gs, g)
<1>1. gs \in Seq(GraphRecords)
  BY DEF Fits
<1>2. g \in GraphRecords /\ g.start = first /\ g.end = last /\ g.PE = letter
  BY DEF GraphOf, GraphRecords
<1>. HIDE DEF g
<1>3. /\ n \in Nat /\ DOMAIN gs = 1 .. n /\ DOMAIN more = 1 .. n + 1
      /\ more \in Seq(GraphRecords) /\ Len(more) = n + 1
      /\ more[n + 1] = g /\ \A k \in 1 .. n : more[k] = gs[k]
  BY <1>1, <1>2
<1>4. \A k \in 1 .. n : gs[k].start \in Nat /\ gs[k].end \in Nat
  <2>1. \A k \in 1 .. n : gs[k] \in GraphRecords
    BY <1>1, <1>3
  <2>. QED
    BY <2>1 DEF GraphRecords
<1>. HIDE DEF more, n
<1>5. \A k \in 1 .. n : gs[k].start <= gs[k].end /\ gs[k].end < first
  BY <1>3 DEF Fits
<1>6. Placed(more, last + 1)
  <2>. SUFFICES ASSUME NEW j \in 0 .. (last + 1) - 1
       PROVE  \E k \in DOMAIN more :
                  j \in more[k].start .. more[k].end /\ more[k].PE = Letter(j)
    BY DEF Placed
  <2>1. CASE j < first
    <3>1. PICK k \in 1 .. n : j \in gs[k].start .. gs[k].end /\ gs[k].PE = Letter(j)
      BY <1>3, <2>1 DEF Fits, Placed
    <3>. QED
      BY <1>3, <3>1
  <2>2. CASE ~(j < first)
    BY <1>2, <1>3, <2>2
  <2>. QED
    BY <2>1, <2>2
<1>7. Ordered(more)
  BY <1>2, <1>3, <1>4, <1>5 DEF Ordered, Fits
<1>8. Alternating(more)
  <2>. SUFFICES ASSUME NEW k \in 1 .. n PROVE more[k].PE # more[k + 1].PE
    BY <1>3 DEF Alternating
  <2>1. CASE k < n
    <3>1. gs[k].PE # gs[k + 1].PE
      BY <1>3, <2>1 DEF Fits, Alternating, n
    <3>2. more[k] = gs[k] /\ more[k + 1] = gs[k + 1]
      BY <1>3, <2>1
    <3>. QED
      BY <3>1, <3>2
  <2>2. CASE k = n
    <3>1. gs # <<>> /\ gs[n].PE # letter
      BY <1>3, <2>2 DEF EndsOn, n
    <3>. QED
      BY <1>2, <1>3, <2>2, <3>1
  <2>. QED
    BY <1>3, <2>1, <2>2
<1>9. \A k \in DOMAIN more : more[k].start <= more[k].end /\ more[k].end < last + 1
  BY <1>2, <1>3, <1>4, <1>5
<1>10. EndsOn(more, letter)
  BY <1>2, <1>3 DEF EndsOn
<1>. QED
  BY <1>3, <1>6, <1>7, <1>8, <1>9, <1>10 DEF Fits, more, g

\* The order is a sequence of letters.
LEMMA OrderLetters ==
    ASSUME NEW o \in Orders
    PROVE  /\ Len(o) \in Nat
           /\ \A k \in 0 .. Len(o) - 1 : o[k + 1] \in Letters
<1>1. o \in Seq(Letters)
  BY OrdersAssumption
<1>2. Len(o) \in Nat /\ \A k \in 1 .. Len(o) : o[k] \in Letters
  BY <1>1
<1>3. \A k \in 0 .. Len(o) - 1 : k + 1 \in 1 .. Len(o)
  BY <1>2
<1>. QED
  BY <1>2, <1>3

LEMMA InitInv == Init => Inv
<1>. SUFFICES ASSUME Init PROVE Inv
  OBVIOUS
<1>1. /\ order \in Orders /\ Layers \in Nat
      /\ \A k \in 0 .. Layers - 1 : Letter(k) \in Letters
      /\ Layers = 0 <=> order = <<>>
  <2>1. order \in Orders /\ order \in Seq(Letters)
    BY OrdersAssumption DEF Init
  <2>. QED
    BY <2>1, OrderLetters DEF Layers, Letter
<1>2. i = 1 /\ start = 0 /\ graphs = <<>> /\ (order # <<>> => PE = Letter(0))
  BY DEF Init
<1>3. PE \in Letters
  BY <1>1, OrdersAssumption DEF Init
<1>4. TypeOK
  BY <1>1, <1>2, <1>3 DEF TypeOK
<1>5. Ordered(graphs) /\ Alternating(graphs) /\ Placed(graphs, 0)
  BY <1>2 DEF Ordered, Alternating, Placed
<1>6. PartitionInv
  BY <1>1, <1>2, <1>5 DEF PartitionInv, Done
<1>. QED
  BY <1>4, <1>6 DEF Inv

\* What a step has to establish.
LEMMA Stepping ==
    ASSUME order \in Orders, order' = order, i' \in Nat, i' > 0, start' \in Nat, PE' \in Letters,
           IF i' < Layers
             THEN /\ Fits(graphs', start') /\ ~EndsOn(graphs', PE') /\ start' < i'
                  /\ \A j \in start' .. i' - 1 : Letter(j) = PE'
             ELSE Fits(graphs', Layers)
    PROVE  Inv'
<1>1. Layers \in Nat /\ Layers' = Layers /\ \A k : (Letter(k))' = Letter(k)
  BY OrderLetters DEF Layers, Letter
<1>2. TypeOK'
  <2>1. graphs' \in Seq(GraphRecords)
    BY DEF Fits
  <2>2. i' \in Nat \ {0}
    OBVIOUS
  <2>. QED
    BY <2>1, <2>2 DEF TypeOK, GraphRecords, Targets
<1>3. CASE i' < Layers
  <2>1. ~Done'
    BY <1>1, <1>3 DEF Done
  <2>2. Placed(graphs, start)'
    BY <1>1, <1>3 DEF Fits, Placed
  <2>. QED
    BY <1>1, <1>2, <1>3, <2>1, <2>2 DEF Inv, PartitionInv, Fits, EndsOn
<1>4. CASE ~(i' < Layers)
  <2>1. Done'
    BY <1>1, <1>4 DEF Done
  <2>2. Placed(graphs, Layers)'
    BY <1>1, <1>4 DEF Fits, Placed
  <2>. QED
    BY <1>2, <1>4, <2>1, <2>2 DEF Inv, PartitionInv, Fits
<1>. QED
  BY <1>3, <1>4

LEMMA NextInv == Inv /\ [Next]_vars => Inv'
<1>. SUFFICES ASSUME Inv, [Next]_vars PROVE Inv'
  OBVIOUS
<1>1. /\ Layers \in Nat /\ \A k \in 0 .. Layers - 1 : Letter(k) \in Letters
      /\ i \in Nat /\ i > 0 /\ start \in Nat /\ PE \in Letters
      /\ graphs \in Seq(GraphRecords) /\ order \in Orders
  <2>1. TypeOK
    BY DEF Inv
  <2>. QED
    BY <2>1, OrderLetters DEF TypeOK, Layers, Letter
<1>2. ASSUME i < Layers
      PROVE  /\ Fits(graphs, start) /\ ~EndsOn(graphs, PE) /\ start < i
             /\ \A j \in start .. i - 1 : Letter(j) = PE
  <2>1. PartitionInv /\ ~Done
    BY <1>1, <1>2 DEF Inv, Done
  <2>. QED
    BY <1>1, <2>1 DEF PartitionInv, Fits, EndsOn
<1>3. \A letter : TargetsOf(letter) \subseteq Targets
  BY DEF TargetsOf, Targets
<1>4. CASE Continue
  <2>1. /\ i < Layers - 1 /\ Letter(i) = PE
        /\ i' = i + 1 /\ start' = start /\ PE' = PE /\ graphs' = graphs /\ order' = order
    BY <1>4 DEF Continue
  <2>. QED
    BY <1>1, <1>2, <2>1, Stepping
<1>5. CASE Cut
  <2>1. /\ i < Layers - 1 /\ Letter(i) # PE /\ i - 1 \in Nat /\ Letter(i) \in Letters
        /\ i' = i + 1 /\ start' = i /\ PE' = Letter(i) /\ order' = order
    BY <1>1, <1>5 DEF Cut
  <2>2. PICK target \in TargetsOf(PE) :
            graphs' = Append(graphs, GraphOf(start, i - 1, PE, target))
    BY <1>5 DEF Cut, AddGraph
  <2>3. Fits(graphs', (i - 1) + 1) /\ EndsOn(graphs', PE)
    BY <1>1, <1>2, <1>3, <2>1, <2>2, Adding
  <2>4. Fits(graphs', i) /\ ~EndsOn(graphs', Letter(i))
    BY <1>1, <2>1, <2>3 DEF EndsOn
  <2>. QED
    BY <1>1, <2>1, <2>4, Stepping
<1>6. CASE Close
  <2>1. /\ i = Layers - 1 /\ Letter(i) = PE /\ Layers = i + 1
        /\ i' = i + 1 /\ start' = start /\ PE' = PE /\ order' = order
    BY <1>1, <1>6 DEF Close
  <2>2. PICK target \in TargetsOf(PE) :
            graphs' = Append(graphs, GraphOf(start, i, PE, target))
    BY <1>6 DEF Close, AddGraph
  <2>3. Fits(graphs', i + 1)
    BY <1>1, <1>2, <1>3, <2>1, <2>2, Adding
  <2>. QED
    BY <1>1, <2>1, <2>3, Stepping
<1>7. CASE CutAndClose
  <2>1. /\ i = Layers - 1 /\ Letter(i) # PE /\ Layers = i + 1
        /\ i - 1 \in Nat /\ Letter(i) \in Letters
        /\ i' = i + 1 /\ start' = i /\ PE' = Letter(i) /\ order' = order
    BY <1>1, <1>7 DEF CutAndClose
  <2>2. PICK target \in TargetsOf(PE), lastTarget \in TargetsOf(Letter(i)) :
            graphs' = graphs \o << GraphOf(start, i - 1, PE, target),
                                   GraphOf(i, i, Letter(i), lastTarget) >>
    BY <1>7 DEF CutAndClose
  <2>. DEFINE first == Append(graphs, GraphOf(start, i - 1, PE, target))
  <2>3. Fits(first, (i - 1) + 1) /\ EndsOn(first, PE)
    BY <1>1, <1>2, <1>3, <2>1, Adding
  <2>4. graphs' = Append(first, GraphOf(i, i, Letter(i), lastTarget))
    <3>1. \A g, h : graphs \o <<g, h>> = Append(Append(graphs, g), h)
      BY <1>1
    <3>. QED
      BY <2>2, <3>1
  <2>. HIDE DEF first
  <2>5. Fits(first, i) /\ ~EndsOn(first, Letter(i))
    BY <1>1, <2>1, <2>3 DEF EndsOn
  <2>6. Fits(graphs', i + 1)
    BY <1>1, <1>3, <2>1, <2>4, <2>5, Adding
  <2>. QED
    BY <1>1, <2>1, <2>6, Stepping
<1>8. CASE UNCHANGED vars
  BY <1>8 DEF vars, Inv, TypeOK, PartitionInv, Done, Layers, Letter, Placed
<1>. QED
  BY <1>4, <1>5, <1>6, <1>7, <1>8 DEF Next

LEMMA InvAlways == Spec => []Inv
  BY InitInv, NextInv, PTL DEF Spec

\* The loop of config_pipeline compares letters that exist, for an empty order too: PE is
\* always a letter, start a layer number that was never decremented below the first, and
\* what add_graph gets is a range, a letter and a target.
THEOREM PartitionTyping == Spec => []TypeOK
<1>1. Inv => TypeOK
  BY DEF Inv
<1>. QED
  BY <1>1, InvAlways, PTL

\* The graphs config_pipeline adds follow the order of the layers, without overlap.
THEOREM Partition == Spec => []GraphsInOrder
<1>1. Inv => GraphsInOrder
  BY DEF Inv, PartitionInv, GraphsInOrder
<1>. QED
  BY <1>1, InvAlways, PTL

\* Neighbouring graphs run on different processing elements: no cut is made where the
\* letter stays the same, in the last two steps of the loop either.
THEOREM NeighboursApart == Spec => []NeighboursDiffer
<1>1. Inv => NeighboursDiffer
  BY DEF Inv, PartitionInv, NeighboursDiffer
<1>. QED
  BY <1>1, InvAlways, PTL

\* If no order has a single letter, every layer of every order ends up in a graph that
\* runs on its processing element.
THEOREM Placement ==
    ASSUME \A o \in Orders : Len(o) # 1
    PROVE  Spec => []EveryLayerPlaced
<1>1. Inv => EveryLayerPlaced
  BY DEF Inv, TypeOK, PartitionInv, EveryLayerPlaced, Layers
<1>. QED
  BY <1>1, InvAlways, PTL
================================================================================
