----------------------------- MODULE GovernorProofs -----------------------------
(***************************************************************************)
(* Theorems about Governor, for mappings and networks of any length and    *)
(* any number of requests and frames.                                      *)
(***************************************************************************)
EXTENDS Governor, FiniteSetTheorems, NaturalsInduction, WellFoundedInduction, TLAPS

--------------------------------------------------------------------------------
(* Numbers in ascending order *)

\* How many members of S there are up to x.
Rank(S, x) == Cardinality({y \in S : y <= x})

LEMMA Least ==
    ASSUME NEW S \in SUBSET Nat, S # {}
    PROVE  \E m \in S : \A y \in S : m <= y
<1>. DEFINE Less == {p \in Nat \X Nat : p[1] < p[2]}
<1>1. IsWellFoundedOn(Less, Nat)
  BY NatLessThanWellFounded DEF OpToRel
<1>2. PICK m \in S : \A y \in S : <<y, m>> \notin Less
  <2>. HIDE DEF Less
  <2>. QED
    BY <1>1, WFMin
<1>3. ASSUME NEW y \in S PROVE m <= y
  <2>1. <<y, m>> \notin Less /\ y \in Nat /\ m \in Nat
    BY <1>2
  <2>. QED
    BY <2>1
<1>. QED
  BY <1>3

LEMMA RankRange ==
    ASSUME NEW S \in SUBSET Nat, IsFiniteSet(S), NEW x \in S
    PROVE  Rank(S, x) \in 1 .. Cardinality(S)
<1>. DEFINE X == {z \in S : z <= x}
<1>1. X \subseteq S /\ x \in X
  <2>1. x \in Nat
    OBVIOUS
  <2>. QED
    BY <2>1
<1>. HIDE DEF X
<1>2. /\ IsFiniteSet(X) /\ Cardinality(X) <= Cardinality(S)
      /\ Cardinality(X) \in Nat /\ Cardinality(S) \in Nat
  BY <1>1, FS_Subset, FS_CardinalityType
<1>3. Cardinality(X) # 0
  BY <1>1, <1>2, FS_EmptySet
<1>4. Cardinality(X) \in 1 .. Cardinality(S)
  BY <1>2, <1>3
<1>. QED
  BY <1>4 DEF X, Rank

\* The larger member has the larger rank.
LEMMA RankOrder ==
    ASSUME NEW S \in SUBSET Nat, IsFiniteSet(S), NEW x \in S, NEW y \in S
    PROVE  /\ Rank(S, x) \in Nat /\ Rank(S, y) \in Nat /\ x \in Nat /\ y \in Nat
           /\ x <= y <=> Rank(S, x) <= Rank(S, y)
<1>1. ASSUME NEW a \in S, NEW b \in S, a < b
      PROVE  Rank(S, a) < Rank(S, b)
  <2>. DEFINE A == {z \in S : z <= a}
              B == {z \in S : z <= b}
  <2>1. a \in Nat /\ b \in Nat
    OBVIOUS
  <2>2. ASSUME NEW z \in A PROVE z \in B
    <3>1. z \in Nat /\ z <= a
      OBVIOUS
    <3>. QED
      BY <1>1, <2>1, <3>1
  <2>3. b \in B /\ b \notin A /\ B \subseteq S
    BY <1>1, <2>1
  <2>. HIDE DEF A, B
  <2>4. IsFiniteSet(B) /\ A # B /\ A \subseteq B
    BY <2>2, <2>3, FS_Subset
  <2>5. Cardinality(A) < Cardinality(B)
    <3>1. IsFiniteSet(A) /\ Cardinality(A) <= Cardinality(B) /\ (Cardinality(A) = Cardinality(B) => A = B)
      BY <2>4, FS_Subset
    <3>2. Cardinality(A) \in Nat /\ Cardinality(B) \in Nat
      BY <2>4, <3>1, FS_CardinalityType
    <3>. QED
      BY <2>4, <3>1, <3>2
  <2>. QED
    BY <2>5 DEF A, B, Rank
<1>2. Rank(S, x) \in Nat /\ Rank(S, y) \in Nat /\ x \in Nat /\ y \in Nat
  <2>1. Rank(S, x) \in 1 .. Cardinality(S) /\ Rank(S, y) \in 1 .. Cardinality(S)
    BY RankRange
  <2>2. Cardinality(S) \in Nat
    BY FS_CardinalityType
  <2>. QED
    BY <2>1, <2>2
<1>3. CASE x < y
  BY <1>1, <1>2, <1>3
<1>4. CASE y < x
  BY <1>1, <1>2, <1>4
<1>5. CASE x = y
  BY <1>2, <1>5
<1>. QED
  BY <1>2, <1>3, <1>4, <1>5

\* Each rank is some member's: one more than the ranks below it is that of the least
\* member that has none of them.
LEMMA RankExists ==
    ASSUME NEW S \in SUBSET Nat, IsFiniteSet(S)
    PROVE  \A i \in 1 .. Cardinality(S) : \E x \in S : Rank(S, x) = i
<1>. DEFINE Missing == {i \in 1 .. Cardinality(S) : \A x \in S : Rank(S, x) # i}
<1>1. SUFFICES ASSUME Missing # {} PROVE FALSE
  OBVIOUS
<1>2. Missing \in SUBSET Nat /\ Cardinality(S) \in Nat
  BY FS_CardinalityType
<1>3. PICK i \in Missing : \A j \in Missing : i <= j
  <2>. HIDE DEF Missing
  <2>. QED
    BY <1>1, <1>2, Least
<1>4. i \in 1 .. Cardinality(S) /\ i \in Nat /\ \A x \in S : Rank(S, x) # i
  BY <1>2
<1>5. ASSUME NEW j \in 1 .. i - 1 PROVE \E x \in S : Rank(S, x) = j
  <2>1. j \notin Missing /\ j \in 1 .. Cardinality(S)
    BY <1>2, <1>3, <1>4
  <2>. QED
    BY <2>1
<1>. HIDE DEF Missing
<1>. DEFINE Low == {y \in S : Rank(S, y) < i}
            High == S \ Low
<1>6. IsFiniteSet(Low) /\ Cardinality(Low) = i - 1
  <2>1. CASE i = 1
    <3>1. ASSUME NEW y \in S PROVE ~(Rank(S, y) < 1)
      <4>1. Rank(S, y) \in 1 .. Cardinality(S)
        BY RankRange
      <4>. QED
        BY <1>2, <4>1
    <3>2. Low = {}
      BY <2>1, <3>1
    <3>. QED
      BY <2>1, <3>2, FS_EmptySet
  <2>2. CASE i # 1
    <3>1. i - 1 \in 1 .. i - 1
      BY <1>4, <2>2
    <3>2. PICK x \in S : Rank(S, x) = i - 1
      BY <1>5, <3>1
    <3>3. ASSUME NEW y \in S PROVE Rank(S, y) < i <=> y <= x
      <4>1. /\ Rank(S, y) \in Nat /\ Rank(S, x) \in Nat
            /\ y <= x <=> Rank(S, y) <= Rank(S, x)
        BY RankOrder
      <4>. QED
        BY <1>4, <3>2, <4>1
    <3>4. Low = {y \in S : y <= x} /\ Low \subseteq S
      BY <3>3
    <3>. HIDE DEF Low
    <3>. QED
      BY <3>2, <3>4, FS_Subset DEF Rank
  <2>. QED
    BY <2>1, <2>2
<1>7. High # {} /\ High \in SUBSET Nat
  <2>1. Cardinality(Low) # Cardinality(S)
    BY <1>2, <1>4, <1>6
  <2>2. Low # S
    BY <2>1
  <2>. QED
    BY <2>2
<1>8. PICK m \in High : \A y \in High : m <= y
  <2>. HIDE DEF High
  <2>. QED
    BY <1>7, Least
<1>9. ASSUME NEW y \in S PROVE y <= m <=> y \in Low \cup {m}
  <2>1. /\ Rank(S, y) \in Nat /\ Rank(S, m) \in Nat /\ y \in Nat /\ m \in Nat
        /\ y <= m <=> Rank(S, y) <= Rank(S, m)
    BY RankOrder
  <2>2. ~(Rank(S, m) < i)
    OBVIOUS
  <2>3. CASE y \in Low
    BY <1>4, <2>1, <2>2, <2>3
  <2>4. CASE y \in High
    <3>1. m <= y
      BY <1>8, <2>4
    <3>. QED
      BY <2>1, <2>4, <3>1
  <2>. QED
    BY <2>3, <2>4
<1>10. {y \in S : y <= m} = Low \cup {m} /\ m \notin Low
  <2>1. Low \cup {m} \subseteq S /\ m \notin Low
    OBVIOUS
  <2>. HIDE DEF Low
  <2>. QED
    BY <1>9, <2>1
<1>11. Rank(S, m) = i
  <2>. HIDE DEF Low
  <2>1. Cardinality(Low \cup {m}) = Cardinality(Low) + 1
    BY <1>6, <1>10, FS_AddElement
  <2>2. Cardinality(Low \cup {m}) = i
    BY <1>4, <1>6, <2>1
  <2>. QED
    BY <1>10, <2>2 DEF Rank
<1>. QED
  BY <1>4, <1>11

\* Ascending(S) lists the members of S, each once, from the smallest on.
LEMMA AscendingIs ==
    ASSUME NEW S \in SUBSET Nat, IsFiniteSet(S)
    PROVE  /\ Ascending(S) \in [1 .. Cardinality(S) -> S] /\ Ascending(S) \in Seq(S)
           /\ Cardinality(S) \in Nat /\ Len(Ascending(S)) = Cardinality(S)
           /\ \A i, j \in 1 .. Cardinality(S) : i < j => Ascending(S)[i] < Ascending(S)[j]
           /\ \A x \in S : \E i \in 1 .. Cardinality(S) : Ascending(S)[i] = x
<1>. DEFINE A == Ascending(S)
<1>1. Cardinality(S) \in Nat
  BY FS_CardinalityType
<1>2. \A i \in 1 .. Cardinality(S) : A[i] \in S /\ Rank(S, A[i]) = i
  <2>1. ASSUME NEW i \in 1 .. Cardinality(S) PROVE A[i] \in S /\ Rank(S, A[i]) = i
    <3>1. A[i] = CHOOSE x \in S : Rank(S, x) = i
      BY DEF Ascending, Rank
    <3>2. \E x \in S : Rank(S, x) = i
      BY RankExists
    <3>. QED
      BY <3>1, <3>2
  <2>. QED
    BY <2>1
<1>3. A \in [1 .. Cardinality(S) -> S]
  <2>1. A = [i \in 1 .. Cardinality(S) |-> A[i]]
    BY DEF Ascending
  <2>. HIDE DEF A
  <2>. QED
    BY <1>2, <2>1
<1>. HIDE DEF A
<1>4. A \in Seq(S) /\ Len(A) = Cardinality(S)
  BY <1>1, <1>3
<1>5. ASSUME NEW i \in 1 .. Cardinality(S), NEW j \in 1 .. Cardinality(S), i < j
      PROVE  A[i] < A[j]
  <2>1. A[i] \in S /\ A[j] \in S /\ Rank(S, A[i]) = i /\ Rank(S, A[j]) = j
    BY <1>2
  <2>2. /\ A[i] \in Nat /\ A[j] \in Nat
        /\ A[j] <= A[i] <=> Rank(S, A[j]) <= Rank(S, A[i])
    BY <2>1, RankOrder
  <2>. QED
    BY <1>1, <1>5, <2>1, <2>2
<1>6. ASSUME NEW x \in S PROVE \E i \in 1 .. Cardinality(S) : A[i] = x
  <2>1. PICK i \in 1 .. Cardinality(S) : Rank(S, x) = i
    BY RankRange
  <2>2. A[i] \in S /\ Rank(S, A[i]) = Rank(S, x)
    BY <1>2, <2>1
  <2>3. ASSUME NEW a \in S, Rank(S, a) = Rank(S, x) PROVE a = x
    <3>1. /\ a \in Nat /\ x \in Nat /\ Rank(S, a) \in Nat /\ Rank(S, x) \in Nat
          /\ a <= x <=> Rank(S, a) <= Rank(S, x)
      BY RankOrder
    <3>2. x <= a <=> Rank(S, x) <= Rank(S, a)
      BY RankOrder
    <3>. QED
      BY <2>3, <3>1, <3>2
  <2>. QED
    BY <2>2, <2>3
<1>. QED
  BY <1>1, <1>3, <1>4, <1>5, <1>6 DEF A

\* x comes in the place that its rank says.
LEMMA PlaceIsRank ==
    ASSUME NEW S \in SUBSET Nat, IsFiniteSet(S)
    PROVE  /\ \A i \in 1 .. Cardinality(S) : Ascending(S)[i] \in S /\ Rank(S, Ascending(S)[i]) = i
           /\ \A x \in S : Rank(S, x) \in 1 .. Cardinality(S) /\ Ascending(S)[Rank(S, x)] = x
           /\ \A x, y \in S : Rank(S, x) = Rank(S, y) => x = y
<1>1. ASSUME NEW i \in 1 .. Cardinality(S)
      PROVE  Ascending(S)[i] \in S /\ Rank(S, Ascending(S)[i]) = i
  <2>1. Ascending(S)[i] = CHOOSE x \in S : Rank(S, x) = i
    BY DEF Ascending, Rank
  <2>2. \E x \in S : Rank(S, x) = i
    BY RankExists
  <2> QED
    BY <2>1, <2>2
<1>2. ASSUME NEW x \in S, NEW y \in S, Rank(S, x) = Rank(S, y)
      PROVE  x = y
  <2>1. /\ Rank(S, x) \in Nat /\ Rank(S, y) \in Nat /\ x \in Nat /\ y \in Nat
        /\ x <= y <=> Rank(S, x) <= Rank(S, y)
    BY RankOrder
  <2>2. y <= x <=> Rank(S, y) <= Rank(S, x)
    BY RankOrder
  <2> QED
    BY <1>2, <2>1, <2>2
<1>3. ASSUME NEW x \in S
      PROVE  Rank(S, x) \in 1 .. Cardinality(S) /\ Ascending(S)[Rank(S, x)] = x
  <2>1. Rank(S, x) \in 1 .. Cardinality(S)
    BY RankRange
  <2> DEFINE y == Ascending(S)[Rank(S, x)]
  <2>2. y \in S /\ Rank(S, y) = Rank(S, x)
    BY <1>1, <2>1
  <2> HIDE DEF y
  <2>3. y = x
    BY <1>2, <2>2
  <2> QED
    BY <2>1, <2>3 DEF y
<1> QED
  BY <1>1, <1>2, <1>3

\* A function that keeps the order maps the list of its domain to that of its range.
LEMMA ListedAlike ==
    ASSUME NEW S \in SUBSET Nat, IsFiniteSet(S), NEW T \in SUBSET Nat, NEW f \in [S -> T],
           \A x, y \in S : x < y => f[x] < f[y],
           \A z \in T : \E x \in S : f[x] = z
    PROVE  /\ IsFiniteSet(T) /\ Cardinality(T) = Cardinality(S)
           /\ \A x \in S : Rank(T, f[x]) = Rank(S, x)
           /\ \A i \in 1 .. Cardinality(S) : Ascending(T)[i] = f[Ascending(S)[i]]
<1>1. \A x \in S : x \in Nat /\ f[x] \in T /\ f[x] \in Nat
  OBVIOUS
<1>2. ASSUME NEW x \in S, NEW y \in S
      PROVE  /\ x <= y <=> f[x] <= f[y]
             /\ f[x] = f[y] => x = y
  <2>1. CASE x < y
    BY <2>1, <1>1
  <2>2. CASE y < x
    BY <2>2, <1>1
  <2>3. CASE x = y
    BY <2>3, <1>1
  <2> QED
    BY <2>1, <2>2, <2>3, <1>1
<1>3. IsFiniteSet(T) /\ Cardinality(T) = Cardinality(S)
  <2>1. f \in Bijection(S, T)
    BY <1>2 DEF Bijection, Injection, Surjection, IsInjective
  <2> QED
    BY <2>1, FS_Bijection DEF ExistsBijection
<1>4. ASSUME NEW x \in S
      PROVE  Rank(T, f[x]) = Rank(S, x)
  <2> DEFINE A == {y \in S : y <= x}
             B == {z \in T : z <= f[x]}
             h == [y \in A |-> f[y]]
  <2>1. \A y \in A : y \in S /\ f[y] \in B
    BY <1>1, <1>2
  <2>2. \A z \in B : \E y \in A : f[y] = z
    <3> SUFFICES ASSUME NEW z \in T, z <= f[x]
                 PROVE  \E y \in A : f[y] = z
      OBVIOUS
    <3>1. PICK y \in S : f[y] = z
      OBVIOUS
    <3>2. y \in A
      BY <1>2, <3>1
    <3> QED
      BY <3>1, <3>2
  <2>3. IsFiniteSet(A)
    <3>1. A \subseteq S
      OBVIOUS
    <3> QED
      BY <3>1, FS_Subset
  <2> HIDE DEF A, B
  <2>4. h \in [A -> B] /\ \A y, z \in A : h[y] = h[z] => y = z
    BY <1>2, <2>1
  <2>5. \A z \in B : \E y \in A : h[y] = z
    BY <2>2
  <2> HIDE DEF h
  <2>6. h \in Bijection(A, B)
    BY <2>4, <2>5 DEF Bijection, Injection, Surjection, IsInjective
  <2>7. Cardinality(B) = Cardinality(A)
    BY <2>3, <2>6, FS_Bijection DEF ExistsBijection
  <2> QED
    BY <2>7 DEF A, B, Rank
<1>5. ASSUME NEW i \in 1 .. Cardinality(S)
      PROVE  Ascending(T)[i] = f[Ascending(S)[i]]
  <2> DEFINE x == Ascending(S)[i]
  <2>1. x \in S /\ Rank(S, x) = i
    BY PlaceIsRank
  <2> HIDE DEF x
  <2>2. Rank(T, f[x]) = i /\ f[x] \in T
    BY <1>1, <1>4, <2>1
  <2>3. Ascending(T)[i] = f[x]
    BY <1>3, <2>2, PlaceIsRank
  <2> QED
    BY <2>3 DEF x
<1> QED
  BY <1>3, <1>4, <1>5

--------------------------------------------------------------------------------
(* The tasks of a mapping *)

\* What the command line has set.
SetUp ==
    /\ order \in Orders /\ network \in Networks /\ powerMode \in PowerModes
    /\ tasks = WorkloadTasks(order, network)

\* The number of a task among those that a network may have.
PartNumber(part) == CASE part \in {"head", "npu"} -> 0
                      [] part = "tail"            -> 1
                      [] part = "after"           -> 2
Number(t) == (3 * tasks[t].layer) + PartNumber(tasks[t].part)

\* The parts of layer l that are tasks, by number.
LEMMA PartsAre ==
    ASSUME NEW o, NEW net, NEW l, NEW k \in Nat, k < Len(LayerTasks(o, net, l))
    PROVE  /\ o[l] = "N" => OpensGraph(o, l) /\ k = 0 /\ LayerTasks(o, net, l)[k + 1] = "npu"
           /\ o[l] # "N" =>
                \/ k = 0 /\ LayerTasks(o, net, l)[k + 1] = "head"
                \/ k = 1 /\ LayerTasks(o, net, l)[k + 1] = "tail"
                \/ /\ k = 2 /\ LayerTasks(o, net, l)[k + 1] = "after"
                   /\ net = "trailing" /\ l < Len(o)
<1>1. CASE o[l] = "N"
  <2>1. OpensGraph(o, l) /\ LayerTasks(o, net, l) = <<"npu">>
    <3>1. LayerTasks(o, net, l) \in {<<"npu">>, <<>>}
      BY <1>1 DEF LayerTasks
    <3> QED
      BY <1>1 DEF LayerTasks
  <2>2. k = 0
    BY <2>1
  <2> QED
    BY <1>1, <2>1, <2>2
<1>2. CASE o[l] # "N"
  <2>1. CASE net = "trailing" /\ l < Len(o)
    <3>1. LayerTasks(o, net, l) = <<"head", "tail", "after">>
      BY <1>2, <2>1 DEF LayerTasks
    <3>2. k \in {0, 1, 2}
      BY <3>1
    <3> QED
      BY <1>2, <2>1, <3>1, <3>2
  <2>2. CASE ~(net = "trailing" /\ l < Len(o))
    <3>1. LayerTasks(o, net, l) = <<"head", "tail">>
      BY <1>2, <2>2 DEF LayerTasks
    <3>2. k \in {0, 1}
      BY <3>1
    <3> QED
      BY <1>2, <3>1, <3>2
  <2> QED
    BY <2>1, <2>2
<1> QED
  BY <1>1, <1>2

\* The tasks are those of the layers, one layer after the other.
LEMMA TasksAre ==
    ASSUME SetUp
    PROVE  LET S == TaskNumbers(order, network) IN
           /\ S \in SUBSET Nat /\ IsFiniteSet(S) /\ Cardinality(S) \in Nat
           /\ Tasks = 1 .. Cardinality(S) /\ Len(tasks) = Cardinality(S)
           /\ \A t \in Tasks :
                /\ tasks[t].layer \in 1 .. Len(order) /\ tasks[t].letter = order[tasks[t].layer]
                /\ tasks[t].letter = "N" => /\ OpensGraph(order, tasks[t].layer)
                                            /\ tasks[t].part = "npu"
                /\ tasks[t].letter # "N" =>
                     \/ tasks[t].part \in {"head", "tail"}
                     \/ tasks[t].part = "after" /\ network = "trailing" /\ tasks[t].layer < Len(order)
                /\ Number(t) = Ascending(S)[t]
<1> DEFINE S == TaskNumbers(order, network)
           numbers == Ascending(S)
<1>1. order \in Seq(Letters) /\ Len(order) \in Nat
  BY OrdersAssumption DEF SetUp
<1>2. S \in SUBSET (3 .. 3 * Len(order) + 2) /\ S \in SUBSET Nat
  BY <1>1 DEF TaskNumbers
<1>3. IsFiniteSet(S) /\ Cardinality(S) \in Nat
  <2>1. IsFiniteSet(3 .. 3 * Len(order) + 2)
    BY <1>1, FS_Interval
  <2> HIDE DEF S
  <2> QED
    BY <1>2, <2>1, FS_Subset, FS_CardinalityType
<1>4. DOMAIN numbers = 1 .. Cardinality(S) /\ \A t \in 1 .. Cardinality(S) : numbers[t] \in S
  BY <1>2, <1>3, AscendingIs
<1>5. /\ Tasks = 1 .. Cardinality(S) /\ Len(tasks) = Cardinality(S)
      /\ \A t \in Tasks :
           tasks[t] = [layer |-> numbers[t] \div 3, letter |-> order[numbers[t] \div 3],
                       part |-> LayerTasks(order, network, numbers[t] \div 3)[(numbers[t] % 3) + 1]]
  <2>1. tasks = [t \in 1 .. Cardinality(S) |->
                  [layer |-> numbers[t] \div 3, letter |-> order[numbers[t] \div 3],
                   part |-> LayerTasks(order, network, numbers[t] \div 3)[(numbers[t] % 3) + 1]]]
    BY <1>4 DEF SetUp, WorkloadTasks
  <2> HIDE DEF S, numbers
  <2>2. Tasks = 1 .. Cardinality(S)
    BY <2>1 DEF Tasks
  <2>3. Len(tasks) = Cardinality(S)
    BY <2>1, <1>3
  <2> QED
    BY <2>1, <2>2, <2>3
<1>6. ASSUME NEW t \in Tasks
      PROVE  /\ tasks[t].layer \in 1 .. Len(order) /\ tasks[t].letter = order[tasks[t].layer]
             /\ tasks[t].letter = "N" => /\ OpensGraph(order, tasks[t].layer)
                                         /\ tasks[t].part = "npu"
             /\ tasks[t].letter # "N" =>
                  \/ tasks[t].part \in {"head", "tail"}
                  \/ tasks[t].part = "after" /\ network = "trailing" /\ tasks[t].layer < Len(order)
             /\ Number(t) = numbers[t]
  <2> DEFINE n == numbers[t]
             l == n \div 3
             k == n % 3
  <2>1. n \in 3 .. 3 * Len(order) + 2 /\ k < Len(LayerTasks(order, network, l))
    <3>1. n \in S
      BY <1>4, <1>5
    <3> QED
      BY <3>1 DEF TaskNumbers
  <2>2. tasks[t].layer = l /\ tasks[t].letter = order[l]
        /\ tasks[t].part = LayerTasks(order, network, l)[k + 1]
    BY <1>5
  <2> HIDE DEF numbers
  <2>3. l \in 1 .. Len(order) /\ k \in Nat /\ n = (3 * l) + k
    BY <1>1, <2>1
  <2> HIDE DEF n, l, k
  <2>4. /\ order[l] = "N" => /\ OpensGraph(order, l) /\ k = 0
                             /\ LayerTasks(order, network, l)[k + 1] = "npu"
        /\ order[l] # "N" =>
             \/ k = 0 /\ LayerTasks(order, network, l)[k + 1] = "head"
             \/ k = 1 /\ LayerTasks(order, network, l)[k + 1] = "tail"
             \/ /\ k = 2 /\ LayerTasks(order, network, l)[k + 1] = "after"
                /\ network = "trailing" /\ l < Len(order)
    BY <2>1, <2>3, PartsAre
  <2>5. Number(t) = n
    BY <2>2, <2>3, <2>4 DEF Number, PartNumber
  <2> QED
    BY <2>2, <2>3, <2>4, <2>5 DEF n
<1> QED
  BY <1>2, <1>3, <1>5, <1>6

\* The number of a task is of one layer and one part.
LEMMA NumberIs ==
    ASSUME SetUp, NEW t \in Tasks
    PROVE  /\ tasks[t].layer \in Nat /\ PartNumber(tasks[t].part) \in 0 .. 2
           /\ Number(t) = (3 * tasks[t].layer) + PartNumber(tasks[t].part) /\ Number(t) \in Nat
           /\ PartNumber(tasks[t].part) = 0 <=> tasks[t].part \in {"head", "npu"}
           /\ PartNumber(tasks[t].part) = 1 <=> tasks[t].part = "tail"
<1>1. tasks[t].layer \in 1 .. Len(order) /\ tasks[t].part \in {"head", "tail", "after", "npu"}
  BY TasksAre
<1>2. tasks[t].layer \in Nat
  BY <1>1, OrdersAssumption DEF SetUp
<1>3. /\ PartNumber(tasks[t].part) \in 0 .. 2
      /\ PartNumber(tasks[t].part) = 0 <=> tasks[t].part \in {"head", "npu"}
      /\ PartNumber(tasks[t].part) = 1 <=> tasks[t].part = "tail"
  BY <1>1 DEF PartNumber
<1>4. Number(t) = (3 * tasks[t].layer) + PartNumber(tasks[t].part)
  BY DEF Number
<1> QED
  BY <1>2, <1>3, <1>4

LEMMA LayerOfNumber ==
    ASSUME SetUp, NEW t \in Tasks, NEW l \in Nat, NEW k \in 0 .. 2, Number(t) = (3 * l) + k
    PROVE  tasks[t].layer = l /\ PartNumber(tasks[t].part) = k
<1> DEFINE a == tasks[t].layer
           m == PartNumber(tasks[t].part)
<1>1. a \in Nat /\ m \in 0 .. 2 /\ Number(t) = (3 * a) + m
  BY NumberIs
<1> HIDE DEF a, m
<1>2. (3 * a) + m = (3 * l) + k
  BY <1>1
<1>3. a = l /\ m = k
  BY <1>1, <1>2
<1> QED
  BY <1>3 DEF a, m

LEMMA NumbersAscend ==
    ASSUME SetUp, NEW s \in Tasks, NEW t \in Tasks
    PROVE  /\ Number(s) <= Number(t) => tasks[s].layer <= tasks[t].layer
           /\ tasks[s].layer < tasks[t].layer => Number(s) < Number(t)
<1> DEFINE a == tasks[s].layer
           m == PartNumber(tasks[s].part)
           b == tasks[t].layer
           k == PartNumber(tasks[t].part)
<1>1. /\ a \in Nat /\ m \in 0 .. 2 /\ Number(s) = (3 * a) + m
      /\ b \in Nat /\ k \in 0 .. 2 /\ Number(t) = (3 * b) + k
  BY NumberIs
<1> HIDE DEF a, m, b, k
<1>2. (Number(s) <= Number(t) => a <= b) /\ (a < b => Number(s) < Number(t))
  BY <1>1
<1> QED
  BY <1>2 DEF a, b

\* A number whose part its layer has is that of a task.
LEMMA NumberTaken ==
    ASSUME SetUp, NEW l \in 1 .. Len(order), NEW k \in 0 .. 2, k < Len(LayerTasks(order, network, l))
    PROVE  \E t \in Tasks : Number(t) = (3 * l) + k
<1> DEFINE S == TaskNumbers(order, network)
           n == (3 * l) + k
<1>1. /\ S \in SUBSET Nat /\ IsFiniteSet(S) /\ Tasks = 1 .. Cardinality(S)
      /\ \A t \in Tasks : Number(t) = Ascending(S)[t]
  BY TasksAre
<1>2. Len(order) \in Nat
  BY OrdersAssumption DEF SetUp
<1>3. n \in 3 .. 3 * Len(order) + 2 /\ n \div 3 = l /\ n % 3 = k
  BY <1>2
<1> HIDE DEF n
<1>4. n \in S
  BY <1>3 DEF TaskNumbers
<1> HIDE DEF S
<1>5. PICK t \in 1 .. Cardinality(S) : Ascending(S)[t] = n
  BY <1>1, <1>4, AscendingIs
<1> QED
  BY <1>1, <1>5 DEF n

\* The tasks of a layer that has some, and in which order tasks come.
LEMMA TaskOrder ==
    ASSUME SetUp
    PROVE  /\ \A s, t \in Tasks : /\ s < t <=> Number(s) < Number(t)
                                  /\ s <= t => tasks[s].layer <= tasks[t].layer
           /\ \A t \in Tasks : Number(t) \in Nat /\ t \in Nat /\ tasks[t].layer \in Nat
           /\ \A l \in 1 .. Len(order) :
                /\ order[l] # "N" =>
                     /\ \E t \in Tasks : tasks[t].layer = l /\ tasks[t].part = "head"
                     /\ \E t \in Tasks : tasks[t].layer = l /\ tasks[t].part = "tail"
                /\ order[l] = "N" /\ OpensGraph(order, l) =>
                     \E t \in Tasks : tasks[t].layer = l /\ tasks[t].part = "npu"
<1> DEFINE S == TaskNumbers(order, network)
<1>1. /\ S \in SUBSET Nat /\ IsFiniteSet(S) /\ Cardinality(S) \in Nat
      /\ Tasks = 1 .. Cardinality(S)
      /\ \A t \in Tasks : Number(t) = Ascending(S)[t]
  BY TasksAre
<1>2. \A t \in Tasks : /\ tasks[t].part \in {"head", "tail", "after", "npu"}
                       /\ tasks[t].letter = order[tasks[t].layer]
                       /\ tasks[t].letter = "N" <=> tasks[t].part = "npu"
  BY TasksAre
<1>3. \A t \in Tasks : tasks[t].layer \in Nat /\ Number(t) \in Nat
  BY NumberIs
<1> HIDE DEF S
<1>4. ASSUME NEW s \in Tasks, NEW t \in Tasks
      PROVE  /\ s < t <=> Number(s) < Number(t)
             /\ s <= t => tasks[s].layer <= tasks[t].layer
  <2>1. s < t => Number(s) < Number(t)
    BY <1>1, AscendingIs
  <2>2. t < s => Number(t) < Number(s)
    BY <1>1, AscendingIs
  <2>3. s < t <=> Number(s) < Number(t)
    BY <1>1, <1>3, <2>1, <2>2
  <2>4. s < t => tasks[s].layer <= tasks[t].layer
    BY <1>3, <2>1, NumbersAscend
  <2> QED
    BY <1>1, <1>3, <2>3, <2>4
<1>6. ASSUME NEW l \in 1 .. Len(order), order[l] # "N"
      PROVE  /\ \E t \in Tasks : tasks[t].layer = l /\ tasks[t].part = "head"
             /\ \E t \in Tasks : tasks[t].layer = l /\ tasks[t].part = "tail"
  <2>1. LayerTasks(order, network, l) \in {<<"head", "tail">>, <<"head", "tail", "after">>}
    BY <1>6 DEF LayerTasks
  <2>2. 0 < Len(LayerTasks(order, network, l)) /\ 1 < Len(LayerTasks(order, network, l))
    BY <2>1
  <2>3. PICK s \in Tasks : Number(s) = (3 * l) + 0
    BY <2>2, NumberTaken
  <2>4. PICK t \in Tasks : Number(t) = (3 * l) + 1
    BY <2>2, NumberTaken
  <2>5. tasks[s].layer = l /\ PartNumber(tasks[s].part) = 0
    BY <2>3, LayerOfNumber
  <2>6. tasks[t].layer = l /\ PartNumber(tasks[t].part) = 1
    BY <2>4, LayerOfNumber
  <2>7. tasks[s].part = "head" /\ tasks[t].part = "tail"
    BY <2>5, <2>6, <1>2, <1>6 DEF PartNumber
  <2> QED
    BY <2>5, <2>6, <2>7
<1>7. ASSUME NEW l \in 1 .. Len(order), order[l] = "N", OpensGraph(order, l)
      PROVE  \E t \in Tasks : tasks[t].layer = l /\ tasks[t].part = "npu"
  <2>1. LayerTasks(order, network, l) = <<"npu">>
    BY <1>7 DEF LayerTasks
  <2>2. 0 < Len(LayerTasks(order, network, l))
    BY <2>1
  <2>3. PICK s \in Tasks : Number(s) = (3 * l) + 0
    BY <2>2, NumberTaken
  <2>4. tasks[s].layer = l
    BY <2>3, LayerOfNumber
  <2> QED
    BY <2>4, <1>2, <1>7
<1>8. \A t \in Tasks : t \in Nat
  BY <1>1
<1> QED
  BY <1>3, <1>4, <1>6, <1>7, <1>8

\* The second task of a layer comes right after the first.
LEMMA TailNext ==
    ASSUME SetUp, NEW t \in Tasks, tasks[t].part = "head"
    PROVE  /\ t + 1 \in Tasks /\ tasks[t + 1].part = "tail"
           /\ tasks[t + 1].layer = tasks[t].layer /\ tasks[t + 1].letter = tasks[t].letter
<1>1. /\ Tasks = 1 .. Len(tasks) /\ Len(tasks) \in Nat
      /\ \A s \in Tasks : /\ tasks[s].layer \in 1 .. Len(order)
                          /\ tasks[s].part \in {"head", "tail", "after", "npu"}
                          /\ tasks[s].letter = order[tasks[s].layer]
                          /\ tasks[s].letter = "N" <=> tasks[s].part = "npu"
  BY TasksAre
<1>2. tasks[t].layer \in Nat
  BY NumberIs
<1>3. PICK s \in Tasks : tasks[s].layer = tasks[t].layer /\ tasks[s].part = "tail"
  <2> DEFINE l == tasks[t].layer
  <2>1. l \in 1 .. Len(order) /\ order[l] # "N"
    BY <1>1
  <2> HIDE DEF l
  <2>2. \E s \in Tasks : tasks[s].layer = l /\ tasks[s].part = "tail"
    BY <2>1, TaskOrder
  <2> QED
    BY <2>2 DEF l
<1>5. Number(t) = (3 * tasks[t].layer) + 0 /\ Number(s) = (3 * tasks[t].layer) + 1
  BY <1>3 DEF Number, PartNumber
<1>6. s > t
  BY <1>1, <1>2, <1>5, TaskOrder
<1>7. t + 1 \in Tasks /\ t + 1 <= s
  BY <1>1, <1>6
<1>8. Number(t) < Number(t + 1) /\ Number(t + 1) <= Number(s) /\ Number(t + 1) \in Nat
  <2>1. Number(t) < Number(t + 1)
    BY <1>1, <1>7, TaskOrder
  <2>2. ~(Number(s) < Number(t + 1))
    BY <1>1, <1>7, TaskOrder
  <2>3. Number(t + 1) \in Nat /\ Number(s) \in Nat
    BY <1>7, TaskOrder
  <2> QED
    BY <2>1, <2>2, <2>3
<1>9. Number(t + 1) = (3 * tasks[t].layer) + 1
  BY <1>2, <1>5, <1>8
<1>10. tasks[t + 1].layer = tasks[t].layer /\ PartNumber(tasks[t + 1].part) = 1
  BY <1>2, <1>7, <1>9, LayerOfNumber
<1>11. tasks[t + 1].part = "tail"
  BY <1>1, <1>7, <1>10 DEF PartNumber
<1> QED
  BY <1>1, <1>7, <1>10, <1>11

\* There is a task, and the last one ends a layer.
LEMMA LastTaskEnds ==
    ASSUME SetUp
    PROVE  Len(tasks) \in Nat \ {0} /\ Tasks = 1 .. Len(tasks) /\ Ending(Len(tasks))
<1>1. /\ Tasks = 1 .. Len(tasks) /\ Len(tasks) \in Nat
      /\ \A s \in Tasks : /\ tasks[s].layer \in 1 .. Len(order)
                          /\ tasks[s].part \in {"head", "tail", "after", "npu"}
                          /\ tasks[s].part = "after" => /\ tasks[s].layer < Len(order)
                                                        /\ order[tasks[s].layer] # "N"
  BY TasksAre
<1>2. Len(order) \in Nat \ {0}
  BY OrdersAssumption DEF SetUp
<1>3. ASSUME NEW l \in 1 .. Len(order), order[l] # "N" \/ OpensGraph(order, l)
      PROVE  \E t \in Tasks : tasks[t].layer = l
  BY <1>3, TaskOrder
<1>4. \E t \in Tasks : tasks[t].layer = 1
  BY <1>2, <1>3 DEF OpensGraph
<1>5. Len(tasks) \in Nat \ {0} /\ Len(tasks) \in Tasks
  BY <1>1, <1>4
<1> DEFINE t == Len(tasks)
<1>6. tasks[t].part # "head"
  BY <1>1, <1>5, TailNext
<1>7. tasks[t].part # "after"
  <2> SUFFICES ASSUME tasks[t].part = "after"
               PROVE  FALSE
    OBVIOUS
  <2> DEFINE l == tasks[t].layer + 1
  <2>1. l \in 1 .. Len(order) /\ (order[l] # "N" \/ OpensGraph(order, l)) /\ tasks[t].layer \in Nat
    BY <1>1, <1>2, <1>5 DEF OpensGraph
  <2>2. PICK s \in Tasks : tasks[s].layer = l
    BY <1>3, <2>1
  <2>3. s <= t
    BY <1>1
  <2>4. tasks[s].layer <= tasks[t].layer
    BY <1>5, <2>3, TaskOrder
  <2> QED
    BY <2>1, <2>2, <2>4
<1> QED
  BY <1>1, <1>5, <1>6, <1>7 DEF Ending

--------------------------------------------------------------------------------
(* The pin *)

\* The tasks of a frame before task k that end a phase.
Passed(k) == {s \in Tasks : Ending(s) /\ ~SideLayer(s) /\ s < k}

\* What set_GPIO_tasks leaves in the tasks.
Switching ==
    phase \in {"between", "ready", "running", "frameDone"} =>
        IF powerMode = "whole"
          THEN startSwitch = {1} /\ endSwitch = {Len(tasks)}
          ELSE /\ \A t \in Tasks : t \in startSwitch <=> Starting(t) /\ ~SideLayer(t)
               /\ \A t \in Tasks : t \in endSwitch <=> Ending(t) /\ ~SideLayer(t)

\* Where the pin is low, and the falling edges so far.
Falling ==
    /\ phase = "ready" =>
         IF powerMode = "whole"
           THEN (pin = 0 <=> cur > 1) /\ falls = 1 - pin
           ELSE /\ pin = 0 <=> cur > 1 /\ ~Ending(cur - 1) /\ ~SideLayer(cur - 1)
                /\ falls = Cardinality(Passed(cur)) + (1 - pin)
    /\ phase = "running" =>
         IF powerMode = "whole"
           THEN pin = 0 /\ falls = 1
           ELSE /\ pin = 0 <=> ~SideLayer(cur)
                /\ falls = Cardinality(Passed(cur)) + (1 - pin)
    /\ phase = "frameDone" =>
         falls = IF powerMode = "whole" THEN 1 ELSE Cardinality(Passed(Len(tasks) + 1))

\* TypeOK but for the falling edges, whose bound follows from Falling.
Typing ==
    /\ governor \subseteq Tasks /\ startSwitch \subseteq Tasks /\ endSwitch \subseteq Tasks
    /\ freq \in [Tasks -> [Resources -> AllLevels \cup {-1}]]
    /\ registers \in [Resources -> 0 .. MaxGpu]
    /\ pin \in {0, 1}
    /\ request.form \in Forms
    /\ entered \in 0 .. MaxRequests[network]
    /\ frame \in 1 .. Warmup + Runs
    /\ cur \in Tasks
    /\ phase \in {"prompt", "between", "ready", "running", "frameDone", "terminated"}

FallsBounded == falls \in 0 .. Len(tasks)

PinInv == SetUp /\ Typing /\ Switching /\ Falling /\ FallsBounded

\* What comes after a task that does not end a layer is of the same layer, or of a
\* trailing network; a side layer's tasks are all on the side.
LEMMA SideKept ==
    ASSUME SetUp, NEW t \in Tasks, t > 1, ~Ending(t - 1)
    PROVE  t - 1 \in Tasks /\ (SideLayer(t - 1) <=> SideLayer(t))
<1>1. Tasks = 1 .. Len(tasks) /\ Len(tasks) \in Nat
  BY LastTaskEnds
<1>2. t - 1 \in Tasks /\ (t - 1) + 1 = t
  BY <1>1
<1>3. tasks[t - 1].part = "head" \/ network = "trailing"
  BY <1>2, TasksAre DEF Ending
<1>4. CASE tasks[t - 1].part = "head"
  <2>1. tasks[t].layer = tasks[t - 1].layer /\ tasks[t].letter = tasks[t - 1].letter
    BY <1>2, <1>4, TailNext
  <2> QED
    BY <1>2, <2>1 DEF SideLayer
<1>5. CASE network = "trailing"
  BY <1>2, <1>5 DEF SideLayer
<1> QED
  BY <1>3, <1>4, <1>5

\* One more task passed.
LEMMA PassedNext ==
    ASSUME SetUp, NEW t \in Tasks
    PROVE  /\ IsFiniteSet(Passed(t)) /\ Cardinality(Passed(t)) \in 0 .. t - 1
           /\ Ending(t) /\ ~SideLayer(t) =>
                Cardinality(Passed(t + 1)) = Cardinality(Passed(t)) + 1
           /\ ~(Ending(t) /\ ~SideLayer(t)) => Passed(t + 1) = Passed(t)
<1>1. Tasks = 1 .. Len(tasks) /\ Len(tasks) \in Nat
  BY LastTaskEnds
<1>2. Passed(t) \subseteq 1 .. t - 1
  BY <1>1 DEF Passed
<1>3. IsFiniteSet(1 .. t - 1) /\ Cardinality(1 .. t - 1) = t - 1
  <2> DEFINE n == t - 1
  <2>1. n \in Nat
    BY <1>1
  <2> HIDE DEF n
  <2>2. IsFiniteSet(1 .. n) /\ Cardinality(1 .. n) = n
    BY <2>1, FS_Interval
  <2> QED
    BY <2>2 DEF n
<1>4. IsFiniteSet(Passed(t)) /\ Cardinality(Passed(t)) \in 0 .. t - 1
  <2>1. IsFiniteSet(Passed(t)) /\ Cardinality(Passed(t)) <= t - 1
    BY <1>2, <1>3, FS_Subset
  <2>2. Cardinality(Passed(t)) \in Nat
    BY <2>1, FS_CardinalityType
  <2> QED
    BY <1>1, <2>1, <2>2
<1>5. ASSUME Ending(t), ~SideLayer(t)
      PROVE  Cardinality(Passed(t + 1)) = Cardinality(Passed(t)) + 1
  <2>1. Passed(t + 1) = Passed(t) \cup {t} /\ t \notin Passed(t)
    BY <1>1, <1>5 DEF Passed
  <2> QED
    BY <1>4, <2>1, FS_AddElement
<1>6. ASSUME ~(Ending(t) /\ ~SideLayer(t))
      PROVE  Passed(t + 1) = Passed(t)
  BY <1>1, <1>6 DEF Passed
<1> QED
  BY <1>4, <1>5, <1>6

\* The first task is the first that starts, and has nothing before it.
LEMMA FirstTask ==
    ASSUME SetUp
    PROVE  1 \in Tasks /\ Starting(1) /\ Cardinality(Passed(1)) = 0
<1>1. 1 \in Tasks /\ Tasks = 1 .. Len(tasks) /\ Len(tasks) \in Nat
  BY LastTaskEnds
<1>2. Passed(1) = {}
  BY <1>1 DEF Passed
<1> QED
  BY <1>1, <1>2, FS_EmptySet DEF Starting, FirstOfGraph

\* Nothing that the command line set changes.
LEMMA ConfigKept ==
    ASSUME SetUp, UNCHANGED config
    PROVE  /\ SetUp' /\ Tasks' = Tasks /\ Len(tasks)' = Len(tasks)
           /\ \A k : Passed(k)' = Passed(k)
           /\ \A t : /\ Ending(t)' <=> Ending(t)
                     /\ SideLayer(t)' <=> SideLayer(t)
                     /\ Starting(t)' <=> Starting(t)
BY DEF SetUp, config, Tasks, Passed, Ending, SideLayer, Starting, FirstOfGraph

LEMMA BeginFramePin ==
    ASSUME PinInv, BeginFrame
    PROVE  PinInv'
<1> USE DEF PinInv
<1>1. SetUp' /\ Tasks' = Tasks
  BY ConfigKept DEF BeginFrame
<1>2. Typing'
  BY FirstTask DEF BeginFrame, Typing, taskState, config, Tasks
<1>3. Switching'
  <2>1. phase = "between" /\ UNCHANGED <<powerMode, tasks, startSwitch, endSwitch>>
    BY DEF BeginFrame, taskState, config
  <2> QED
    BY <2>1, ConfigKept DEF Switching, BeginFrame
<1>4. Falling'
  <2>1. phase' = "ready" /\ pin' = 1 /\ falls' = 0 /\ cur' = 1 /\ UNCHANGED config
    BY DEF BeginFrame
  <2>2. Cardinality(Passed(cur)') = 0
    BY <2>1, FirstTask, ConfigKept DEF Passed
  <2> QED
    BY <2>1, <2>2 DEF Falling
<1>5. FallsBounded'
  BY LastTaskEnds DEF BeginFrame, FallsBounded, config
<1> QED
  BY <1>1, <1>2, <1>3, <1>4, <1>5

LEMMA StartTaskPin ==
    ASSUME PinInv, StartTask
    PROVE  PinInv'
<1> USE DEF PinInv
<1>1. SetUp' /\ Tasks' = Tasks /\ Tasks = 1 .. Len(tasks) /\ Len(tasks) \in Nat \ {0}
  BY ConfigKept, LastTaskEnds DEF StartTask
<1>2. Typing'
  BY DEF StartTask, Typing, taskState, config, Tasks
<1>3. Switching'
  <2>1. phase = "ready" /\ UNCHANGED <<powerMode, tasks, startSwitch, endSwitch>>
    BY DEF StartTask, taskState, config
  <2> QED
    BY <2>1, ConfigKept DEF Switching, StartTask
<1>4. cur \in Tasks /\ cur \in Nat /\ pin \in {0, 1} /\ Cardinality(Passed(cur)) \in 0 .. cur - 1
  BY <1>1, PassedNext DEF Typing
<1>5. /\ UNCHANGED <<config, cur>> /\ phase' = "running" /\ phase = "ready"
      /\ pin' = IF cur \in startSwitch THEN 0 ELSE pin
      /\ falls' = IF cur \in startSwitch THEN falls + pin ELSE falls
  BY DEF StartTask
<1>6. CASE powerMode = "whole"
  <2>1. startSwitch = {1} /\ (pin = 0 <=> cur > 1) /\ falls = 1 - pin
    BY <1>5, <1>6 DEF Switching, Falling
  <2>2. pin' = 0 /\ falls' = 1
    BY <1>1, <1>4, <1>5, <2>1
  <2> QED
    BY <1>1, <1>2, <1>3, <1>5, <1>6, <2>2 DEF Falling, FallsBounded, config
<1>7. CASE powerMode # "whole"
  <2>1. /\ cur \in startSwitch <=> Starting(cur) /\ ~SideLayer(cur)
        /\ pin = 0 <=> cur > 1 /\ ~Ending(cur - 1) /\ ~SideLayer(cur - 1)
        /\ falls = Cardinality(Passed(cur)) + (1 - pin)
    BY <1>4, <1>5, <1>7 DEF Switching, Falling
  <2>2. cur > 1 /\ ~Ending(cur - 1) => (SideLayer(cur - 1) <=> SideLayer(cur))
    BY <1>4, SideKept
  <2>3. pin' = 0 <=> ~SideLayer(cur)
    <3>1. CASE cur \in startSwitch
      BY <1>5, <2>1, <3>1
    <3>2. CASE cur \notin startSwitch
      <4>1. SideLayer(cur) => pin # 0
        BY <2>1, <2>2
      <4>2. ~SideLayer(cur) => cur > 1 /\ ~Ending(cur - 1)
        BY <1>1, <1>4, <2>1, <3>2 DEF Starting, FirstOfGraph
      <4> QED
        BY <1>5, <2>1, <2>2, <3>2, <4>1, <4>2
    <3> QED
      BY <3>1, <3>2
  <2>4. falls' = Cardinality(Passed(cur)) + (1 - pin') /\ pin' \in {0, 1}
    BY <1>4, <1>5, <2>1
  <2>5. Passed(cur)' = Passed(cur) /\ (SideLayer(cur)' <=> SideLayer(cur))
    BY <1>5 DEF Passed, config, Ending, SideLayer, Tasks
  <2>6. Falling'
    BY <1>5, <1>7, <2>3, <2>4, <2>5 DEF Falling, config
  <2>7. falls' \in 0 .. Len(tasks)
    BY <1>1, <1>4, <2>4
  <2> QED
    BY <1>1, <1>2, <1>3, <1>5, <2>6, <2>7 DEF FallsBounded, config
<1> QED
  BY <1>6, <1>7

\* commit_freq writes levels that the resources have.
LEMMA CommittedLevels ==
    ASSUME Typing, NEW f \in [Resources -> AllLevels \cup {-1}]
    PROVE  Committed(f) \in [Resources -> 0 .. MaxGpu]
<1> DEFINE kept == [r \in Resources |-> IF f[r] > -1 THEN f[r] ELSE registers[r]]
<1>1. kept \in [Resources -> 0 .. MaxGpu]
  <2>1. ASSUME NEW r \in Resources
        PROVE  (IF f[r] > -1 THEN f[r] ELSE registers[r]) \in 0 .. MaxGpu
    <3>1. f[r] \in (0 .. MaxGpu) \cup {-1}
      BY LevelsAssumption
    <3>2. registers[r] \in 0 .. MaxGpu
      BY DEF Typing
    <3>3. MaxGpu \in Nat
      BY LevelsAssumption
    <3> QED
      BY <3>1, <3>2, <3>3
  <2> QED
    BY <2>1
<1> HIDE DEF kept
<1>2. [kept EXCEPT !["G"] = MaxGpu - @] \in [Resources -> 0 .. MaxGpu]
  BY <1>1, LevelsAssumption DEF Resources
<1> QED
  BY <1>2 DEF Committed, kept

LEMMA FinishTaskPin ==
    ASSUME PinInv, FinishTask
    PROVE  PinInv'
<1> USE DEF PinInv
<1>1. /\ SetUp' /\ Tasks' = Tasks /\ Tasks = 1 .. Len(tasks) /\ Len(tasks) \in Nat \ {0}
      /\ Ending(Len(tasks))
  BY ConfigKept, LastTaskEnds DEF FinishTask
<1>2. Typing'
  <2>1. cur \in Tasks /\ registers' \in [Resources -> 0 .. MaxGpu]
    BY CommittedLevels DEF FinishTask, Typing
  <2>2. cur' \in Tasks /\ phase' \in {"ready", "frameDone"} /\ pin' \in {0, 1}
    BY <1>1, <2>1 DEF FinishTask, Typing
  <2>3. UNCHANGED <<config, taskState, request, entered, frame>>
    BY DEF FinishTask
  <2> QED
    BY <1>1, <2>1, <2>2, <2>3 DEF Typing, taskState, config
<1>3. Switching'
  <2>1. phase = "running" /\ UNCHANGED <<powerMode, tasks, startSwitch, endSwitch>>
    BY DEF FinishTask, taskState, config
  <2> QED
    BY <2>1, ConfigKept DEF Switching, FinishTask
<1>4. cur \in Tasks /\ cur \in Nat /\ pin \in {0, 1} /\ cur <= Len(tasks)
  BY <1>1 DEF Typing
<1>5. /\ UNCHANGED <<config, falls>> /\ phase = "running"
      /\ pin' = IF cur \in endSwitch THEN 1 ELSE pin
      /\ cur < Len(tasks) => cur' = cur + 1 /\ phase' = "ready"
      /\ ~(cur < Len(tasks)) => cur = Len(tasks) /\ phase' = "frameDone"
  BY <1>4 DEF FinishTask, Typing
<1>6. FallsBounded'
  BY <1>5 DEF FallsBounded, config
<1>7. CASE powerMode = "whole"
  <2>1. endSwitch = {Len(tasks)} /\ pin = 0 /\ falls = 1
    BY <1>5, <1>7 DEF Switching, Falling
  <2>2. cur < Len(tasks) => pin' = 0 /\ cur' > 1
    BY <1>1, <1>4, <1>5, <2>1
  <2>3. Falling'
    BY <1>1, <1>5, <1>7, <2>1, <2>2 DEF Falling, config
  <2> QED
    BY <1>1, <1>2, <1>3, <1>6, <2>3
<1>8. CASE powerMode # "whole"
  <2>1. /\ cur \in endSwitch <=> Ending(cur) /\ ~SideLayer(cur)
        /\ pin = 0 <=> ~SideLayer(cur)
        /\ falls = Cardinality(Passed(cur)) + (1 - pin)
    BY <1>4, <1>5, <1>8 DEF Switching, Falling
  <2>2. /\ pin' \in {0, 1} /\ (pin' = 0 <=> ~Ending(cur) /\ ~SideLayer(cur))
        /\ falls = Cardinality(Passed(cur + 1)) + (1 - pin')
    <3>1. CASE Ending(cur) /\ ~SideLayer(cur)
      <4>1. pin = 0 /\ pin' = 1
        BY <1>5, <2>1, <3>1
      <4>2. Cardinality(Passed(cur + 1)) = Cardinality(Passed(cur)) + 1
        BY <1>4, <3>1, PassedNext
      <4>3. Cardinality(Passed(cur)) \in Nat
        BY <1>4, PassedNext
      <4> QED
        BY <2>1, <3>1, <4>1, <4>2, <4>3
    <3>2. CASE ~(Ending(cur) /\ ~SideLayer(cur))
      <4>1. pin' = pin
        BY <1>5, <2>1, <3>2
      <4>2. Passed(cur + 1) = Passed(cur)
        BY <1>4, <3>2, PassedNext
      <4> QED
        BY <1>4, <2>1, <3>2, <4>1, <4>2
    <3> QED
      BY <3>1, <3>2
  <2>3. CASE cur < Len(tasks)
    <3>1. cur' = cur + 1 /\ phase' = "ready" /\ cur' > 1 /\ cur' - 1 = cur
      <4>1. cur' = cur + 1 /\ phase' = "ready"
        BY <1>5, <2>3
      <4>2. cur \in Nat /\ cur >= 1
        BY <1>1, <1>4
      <4> QED
        BY <4>1, <4>2
    <3>2. /\ Passed(cur)' = Passed(cur + 1)
          /\ Ending(cur - 1)' <=> Ending(cur)
          /\ SideLayer(cur - 1)' <=> SideLayer(cur)
      BY <1>5, <3>1 DEF Passed, config, Ending, SideLayer, Tasks
    <3>3. Falling'
      BY <1>5, <1>8, <2>2, <3>1, <3>2 DEF Falling, config
    <3> QED
      BY <1>1, <1>2, <1>3, <1>6, <3>3
  <2>4. CASE ~(cur < Len(tasks))
    <3>1. cur = Len(tasks) /\ phase' = "frameDone" /\ pin' = 1
      BY <1>1, <1>5, <2>2, <2>4
    <3>2. Passed(Len(tasks) + 1)' = Passed(cur + 1)
      BY <1>5, <3>1 DEF Passed, config, Ending, SideLayer, Tasks
    <3>3. Cardinality(Passed(cur + 1)) \in Nat
      <4>1. Cardinality(Passed(cur)) \in Nat
        BY <1>4, PassedNext
      <4> QED
        BY <1>4, <4>1, PassedNext
    <3>4. Falling'
      BY <1>5, <1>8, <2>2, <3>1, <3>2, <3>3 DEF Falling, config
    <3> QED
      BY <1>1, <1>2, <1>3, <1>6, <3>4
  <2> QED
    BY <2>3, <2>4
<1> QED
  BY <1>7, <1>8

LEMMA FinishFramePin ==
    ASSUME PinInv, FinishFrame
    PROVE  PinInv'
<1> USE DEF PinInv
<1>1. SetUp' /\ Tasks' = Tasks
  BY ConfigKept DEF FinishFrame
<1>2. Typing'
  <2>1. pin' \in {0, 1} /\ phase' \in {"prompt", "between"} /\ UNCHANGED <<config, taskState, registers, request, entered, cur>>
    BY DEF FinishFrame, Typing
  <2>2. frame' \in 1 .. Warmup + Runs
    BY FramesAssumption DEF FinishFrame, Typing
  <2> QED
    BY <1>1, <2>1, <2>2 DEF Typing, taskState, config
<1>3. Switching'
  <2>1. phase = "frameDone" /\ UNCHANGED <<powerMode, tasks, startSwitch, endSwitch>>
    BY DEF FinishFrame, taskState, config
  <2> QED
    BY <2>1, ConfigKept DEF Switching, FinishFrame
<1>4. Falling' /\ FallsBounded'
  BY DEF FinishFrame, Falling, FallsBounded, config
<1> QED
  BY <1>1, <1>2, <1>3, <1>4

\* The tasks that govern are tasks.
LEMMA GovernorsAreTasks ==
    ASSUME SetUp, Typing, NEW form
    PROVE  GovernorTasks(form) \subseteq Tasks /\ Governing(form) \subseteq Tasks
<1>1. Len(tasks) \in Tasks
  BY LastTaskEnds
<1>2. GovernorTasks(form) \subseteq Tasks
  BY <1>1 DEF GovernorTasks
<1> QED
  BY <1>2 DEF Governing, Typing

\* The elements that are not skipped, in their order.
LEMMA KeptElements ==
    ASSUME NEW letters, NEW leftover, NEW n \in Nat, NEW levels, Len(levels) = n
    PROVE  LET K == Kept(letters, levels, leftover) IN
           /\ K \in SUBSET Nat /\ IsFiniteSet(K)
           /\ DOMAIN Ascending(K) = 1 .. Cardinality(K) /\ Cardinality(K) \in Nat
           /\ \A u \in DOMAIN Ascending(K) : Ascending(K)[u] \in K /\ Ascending(K)[u] \in 1 .. n
<1> DEFINE K == Kept(letters, levels, leftover)
<1>1. K \subseteq 1 .. n /\ K \in SUBSET Nat
  BY DEF Kept
<1>2. IsFiniteSet(1 .. n)
  BY FS_Interval
<1> HIDE DEF K
<1>3. IsFiniteSet(K) /\ Cardinality(K) \in Nat
  BY <1>1, <1>2, FS_Subset, FS_CardinalityType
<1>4. DOMAIN Ascending(K) = 1 .. Cardinality(K) /\ \A u \in 1 .. Cardinality(K) : Ascending(K)[u] \in K
  BY <1>1, <1>3, AscendingIs
<1>5. /\ K \in SUBSET Nat /\ IsFiniteSet(K)
      /\ DOMAIN Ascending(K) = 1 .. Cardinality(K) /\ Cardinality(K) \in Nat
      /\ \A u \in DOMAIN Ascending(K) : Ascending(K)[u] \in K /\ Ascending(K)[u] \in 1 .. n
  BY <1>1, <1>3, <1>4
<1> QED
  BY <1>5 DEF K

\* Every entry of governor_freqs is levels of all the resources.
LEMMA FreqMapLevels ==
    ASSUME NEW form, NEW n \in Nat, NEW levels \in [1 .. n -> Levels], NEW leftover,
           NEW t \in DOMAIN FreqMap(form, levels, leftover)
    PROVE  FreqMap(form, levels, leftover)[t] \in [Resources -> AllLevels]
<1> DEFINE letters == LettersOf(form)
           governors == Ascending(GovernorTasks(form))
           K == Kept(letters, levels, leftover)
           kept == Ascending(K)
           Unit(s) == CHOOSE u \in DOMAIN kept : GovernorOf(governors, u - 1) = s
           G == {GovernorOf(governors, u - 1) : u \in DOMAIN kept}
<1>1. Len(levels) = n
  OBVIOUS
<1>2. \A u \in DOMAIN kept : kept[u] \in 1 .. n
  BY <1>1, KeptElements
<1>3. FreqMap(form, levels, leftover) = [s \in G |-> Read(letters[kept[Unit(s)]], levels[kept[Unit(s)]])]
  BY DEF FreqMap
<1> HIDE DEF letters, governors, kept
<1>4. t \in G
  BY <1>3
<1>5. Unit(t) \in DOMAIN kept
  BY <1>4
<1> HIDE DEF Unit, G
<1>6. levels[kept[Unit(t)]] \in Levels
  BY <1>2, <1>5
<1>7. \A p, level : level \in Levels => Read(p, level) \in [Resources -> AllLevels]
  BY DEF Read, AllLevels
<1> QED
  BY <1>3, <1>4, <1>6, <1>7

\* What a request may be.
LEMMA RequestIs ==
    ASSUME EnterUnits("layers") \/ EnterUnits("graphs") \/ EnterOne
    PROVE  \E form \in Forms : \E n \in Nat : \E levels \in [1 .. n -> Levels \cup {0}] :
             \E leftover \in Leftovers \cup {"other"} :
               /\ Enter(form, levels, leftover)
               /\ form \in {"layers", "graphs"} =>
                    /\ levels \in [1 .. n -> Levels] /\ n \in 1 .. Len(LettersOf(form))
                    /\ leftover \in Leftovers
               /\ form = "all" => n = 1
<1> DEFINE G(form, n, levels, leftover) ==
             /\ Enter(form, levels, leftover)
             /\ form \in {"layers", "graphs"} =>
                  /\ levels \in [1 .. n -> Levels] /\ n \in 1 .. Len(LettersOf(form))
                  /\ leftover \in Leftovers
             /\ form = "all" => n = 1
<1>1. ASSUME NEW form \in {"layers", "graphs"}, EnterUnits(form)
      PROVE  \E n \in Nat : \E levels \in [1 .. n -> Levels \cup {0}] :
               \E leftover \in Leftovers \cup {"other"} : G(form, n, levels, leftover)
  <2>0. PICK n \in 1 .. Len(LettersOf(form)) :
          \E levels \in [1 .. n -> Levels], leftover \in Leftovers : Enter(form, levels, leftover)
    BY <1>1 DEF EnterUnits
  <2>1. PICK levels \in [1 .. n -> Levels], leftover \in Leftovers : Enter(form, levels, leftover)
    BY <2>0
  <2>2. n \in Nat /\ levels \in [1 .. n -> Levels \cup {0}] /\ G(form, n, levels, leftover)
    BY <2>1
  <2> HIDE DEF G
  <2> QED
    BY <2>2
<1>2. ASSUME NEW level \in Levels \cup {0}, Enter("all", <<level>>, "other")
      PROVE  \E n \in Nat : \E levels \in [1 .. n -> Levels \cup {0}] :
               \E leftover \in Leftovers \cup {"other"} : G("all", n, levels, leftover)
  <2>1. <<level>> \in [1 .. 1 -> Levels \cup {0}] /\ G("all", 1, <<level>>, "other")
    BY <1>2
  <2> HIDE DEF G
  <2> QED
    BY <2>1
<1>3. ASSUME Enter("unparsable", <<>>, "other")
      PROVE  \E n \in Nat : \E levels \in [1 .. n -> Levels \cup {0}] :
               \E leftover \in Leftovers \cup {"other"} : G("unparsable", n, levels, leftover)
  <2>1. <<>> \in [1 .. 0 -> Levels \cup {0}] /\ G("unparsable", 0, <<>>, "other")
    BY <1>3
  <2> HIDE DEF G
  <2> QED
    BY <2>1
<1> HIDE DEF G
<1>4. \E form \in Forms : \E n \in Nat : \E levels \in [1 .. n -> Levels \cup {0}] :
        \E leftover \in Leftovers \cup {"other"} : G(form, n, levels, leftover)
  BY <1>1, <1>2, <1>3 DEF EnterOne, Forms
<1> QED
  BY <1>4 DEF G

LEMMA EnterPin ==
    ASSUME PinInv, NEW form \in Forms, NEW n \in Nat, NEW levels \in [1 .. n -> Levels \cup {0}],
           NEW leftover, Enter(form, levels, leftover),
           form \in {"layers", "graphs"} => levels \in [1 .. n -> Levels],
           form = "all" => n = 1
    PROVE  PinInv'
<1> USE DEF PinInv
<1> DEFINE map == GovernorFreqs(form, levels, leftover)
<1>1. SetUp' /\ Tasks' = Tasks
  BY ConfigKept DEF Enter
<1>2. \A t \in DOMAIN map : form # "unparsable" => map[t] \in [Resources -> AllLevels]
  <2>1. CASE form = "all"
    <3>1. levels[1] \in AllLevels
      BY <2>1 DEF AllLevels
    <3>2. map = [t \in {Len(tasks)} |-> [r \in Resources |-> levels[1]]]
      BY <2>1 DEF GovernorFreqs
    <3> HIDE DEF map
    <3> QED
      BY <3>1, <3>2
  <2>2. CASE form \in {"layers", "graphs"}
    <3>1. map = FreqMap(form, levels, leftover)
      BY <2>2 DEF GovernorFreqs
    <3> HIDE DEF map
    <3> QED
      BY <2>2, <3>1, FreqMapLevels
  <2> QED
    BY <2>1, <2>2 DEF Forms
<1>3. /\ UNCHANGED <<config, registers, pin, falls, cur>> /\ phase = "prompt"
      /\ governor' = Governing(form) /\ governor' \subseteq Tasks
      /\ request'.form = form /\ frame' = 1 /\ entered < MaxRequests[network] /\ entered' = entered + 1
      /\ phase' \in {"terminated", "between"}
      /\ phase' = "terminated" => UNCHANGED <<freq, startSwitch, endSwitch>>
      /\ phase' = "between" =>
           /\ form # "unparsable" => Governing(form) \subseteq DOMAIN map
           /\ freq' = [t \in Tasks |-> IF form # "unparsable" /\ t \in Governing(form)
                                         THEN map[t] ELSE freq[t]]
           /\ SetSwitches
  BY GovernorsAreTasks DEF Enter
<1> HIDE DEF map
<1>4. freq' \in [Tasks -> [Resources -> AllLevels \cup {-1}]]
  <2>1. CASE phase' = "terminated"
    BY <1>3, <2>1 DEF Typing
  <2>2. CASE phase' = "between"
    <3>1. ASSUME NEW t \in Tasks
          PROVE  (IF form # "unparsable" /\ t \in Governing(form) THEN map[t] ELSE freq[t])
                    \in [Resources -> AllLevels \cup {-1}]
      <4>1. CASE form # "unparsable" /\ t \in Governing(form)
        <5>1. map[t] \in [Resources -> AllLevels]
          BY <1>2, <1>3, <2>2, <4>1
        <5> QED
          BY <4>1, <5>1
      <4>2. CASE ~(form # "unparsable" /\ t \in Governing(form))
        BY <4>2 DEF Typing
      <4> QED
        BY <4>1, <4>2
    <3> QED
      BY <1>3, <2>2, <3>1
  <2> QED
    BY <1>3, <2>1, <2>2
<1>5. startSwitch' \subseteq Tasks /\ endSwitch' \subseteq Tasks
  <2>1. 1 \in Tasks /\ Len(tasks) \in Tasks
    BY FirstTask, LastTaskEnds
  <2> QED
    BY <1>3, <2>1 DEF SetSwitches, Typing
<1>6. entered' \in 0 .. MaxRequests[network]
  BY <1>3, RequestsAssumption DEF Typing, SetUp
<1>7. Typing'
  <2>1. frame' \in 1 .. Warmup + Runs
    BY <1>3, FramesAssumption
  <2> QED
    BY <1>1, <1>3, <1>4, <1>5, <1>6, <2>1 DEF Typing, config
<1>8. Switching'
  <2>1. CASE phase' = "between"
    <3>1. SetSwitches /\ UNCHANGED config
      BY <1>3, <2>1
    <3>2. CASE powerMode = "whole"
      BY <3>1, <3>2 DEF SetSwitches, Switching, config
    <3>3. CASE powerMode # "whole"
      <4>1. /\ \A t \in Tasks : t \in startSwitch' <=> Starting(t) /\ ~SideLayer(t)
            /\ \A t \in Tasks : t \in endSwitch' <=> Ending(t) /\ ~SideLayer(t)
        BY <3>1, <3>3 DEF SetSwitches
      <4> QED
        BY <1>1, <3>1, <3>3, <4>1, ConfigKept DEF Switching, config
    <3> QED
      BY <3>2, <3>3
  <2> QED
    BY <1>3, <2>1 DEF Switching
<1>9. Falling' /\ FallsBounded'
  BY <1>3 DEF Falling, FallsBounded, config
<1> QED
  BY <1>1, <1>7, <1>8, <1>9

LEMMA InitPin ==
    ASSUME Init
    PROVE  PinInv
<1>1. SetUp
  BY DEF Init, SetUp
<1>2. 1 \in Tasks /\ Len(tasks) \in Nat
  BY <1>1, FirstTask, LastTaskEnds
<1>3. 1 \in 1 .. Warmup + Runs
  BY FramesAssumption
<1>4. MaxRequests[network] \in Nat
  BY <1>1, RequestsAssumption DEF SetUp
<1>5. registers \in [Resources -> 0 .. MaxGpu]
  BY LevelsAssumption DEF Init
<1>6. freq \in [Tasks -> [Resources -> AllLevels \cup {-1}]]
  BY DEF Init
<1>7. Typing
  BY <1>2, <1>3, <1>4, <1>5, <1>6 DEF Init, Typing, Forms
<1> QED
  BY <1>1, <1>2, <1>7 DEF Init, PinInv, Switching, Falling, FallsBounded

LEMMA PinStep == PinInv /\ [Next]_vars => PinInv'
<1> SUFFICES ASSUME PinInv, [Next]_vars
             PROVE  PinInv'
  OBVIOUS
<1>1. CASE EnterUnits("layers") \/ EnterUnits("graphs") \/ EnterOne
  BY <1>1, RequestIs, EnterPin
<1>2. CASE BeginFrame
  BY <1>2, BeginFramePin
<1>3. CASE StartTask
  BY <1>3, StartTaskPin
<1>4. CASE FinishTask
  BY <1>4, FinishTaskPin
<1>5. CASE FinishFrame
  BY <1>5, FinishFramePin
<1>6. CASE UNCHANGED vars
  <2>1. UNCHANGED config /\ UNCHANGED taskState
        /\ UNCHANGED <<registers, pin, falls, request, entered, frame, cur, phase>>
    BY <1>6 DEF vars
  <2>2. SetUp' /\ Tasks' = Tasks
    BY <2>1, ConfigKept DEF PinInv
  <2>3. Typing' /\ FallsBounded'
    BY <2>1, <2>2 DEF PinInv, Typing, FallsBounded, config, taskState
  <2>4. Switching'
    BY <2>1, ConfigKept DEF PinInv, Switching, config, taskState
  <2>5. Falling'
    BY <2>1 DEF PinInv, Falling, config, Passed, Tasks, Ending, SideLayer
  <2> QED
    BY <2>2, <2>3, <2>4, <2>5 DEF PinInv
<1> QED
  BY <1>1, <1>2, <1>3, <1>4, <1>5, <1>6 DEF Next

LEMMA PinAlways == Spec => []PinInv
<1>1. Init => PinInv
  BY InitPin
<1> QED
  BY <1>1, PinStep, PTL DEF Spec

\* The variables keep their types, whatever is entered: every level a request leaves in a
\* task, and every register commit_freq writes, is a level that the resource has, and the
\* pin falls no more often in a frame than there are tasks (set_freq_map, commit_freq).
THEOREM GovernorTyping == Spec => []TypeOK
<1>1. PinInv => TypeOK
  BY DEF PinInv, Typing, FallsBounded, TypeOK
<1> QED
  BY <1>1, PinAlways, PTL

\* The power meter sees one phase per layer or per frame (set_GPIO_tasks): the switches
\* of starting and of ending tasks are chosen from different tables, and still alternate.
THEOREM OnePhaseEach == Spec => []PhasesPerFrame
<1>1. PinInv => PhasesPerFrame
  <2> SUFFICES ASSUME PinInv, phase = "frameDone"
               PROVE  falls = IF powerMode = "whole" THEN 1
                              ELSE Cardinality({t \in Tasks : Ending(t) /\ ~SideLayer(t)})
    BY DEF PhasesPerFrame
  <2>1. Tasks = 1 .. Len(tasks) /\ Len(tasks) \in Nat
    BY LastTaskEnds DEF PinInv
  <2>2. Passed(Len(tasks) + 1) = {t \in Tasks : Ending(t) /\ ~SideLayer(t)}
    BY <2>1 DEF Passed
  <2> QED
    BY <2>2 DEF PinInv, Falling
<1> QED
  BY <1>1, PinAlways, PTL

--------------------------------------------------------------------------------
(* The task that governs before a task *)

\* Governor g is the last before task t, or the last of the frame before.
Precedes(C, g, t) ==
    \/ g < t /\ \A h \in C : h < t => h <= g
    \/ \A h \in C : t <= h /\ h <= g

\* The members of S up to t.
UpTo(S, t) == {s \in S : s <= t}

\* The position GovernorOf picks for a unit.
LEMMA Wraps ==
    ASSUME NEW N \in Nat \ {0}, NEW u \in 1 .. N
    PROVE  ((N - 1 + (u - 1)) % N) + 1 = IF u = 1 THEN N ELSE u - 1
<1>1. CASE u = 1
  <2>1. (N - 1) % N = N - 1
    OBVIOUS
  <2> QED
    BY <1>1, <2>1
<1>2. CASE u # 1
  <2>1. (N + (u - 2)) % N = u - 2
    BY <1>2
  <2>2. N - 1 + (u - 1) = N + (u - 2)
    OBVIOUS
  <2> QED
    BY <1>2, <2>1, <2>2
<1> QED
  BY <1>1, <1>2

\* One unit after the other: what closes a unit comes right before what opens the next.
\* The unit of t is one after that which the governor before t closes, around the frame.
LEMMA UnitAfter ==
    ASSUME NEW n \in Nat \ {0}, NEW O \in SUBSET (1 .. n), 1 \in O,
           NEW C, C = {t \in 1 .. n : t = n \/ t + 1 \in O}
    PROVE  /\ C \in SUBSET Nat /\ IsFiniteSet(C) /\ n \in C
           /\ O \in SUBSET Nat /\ IsFiniteSet(O)
           /\ Cardinality(C) = Cardinality(O) /\ Cardinality(C) \in Nat \ {0}
           /\ \A t \in 1 .. n, g \in C : Precedes(C, g, t) =>
                /\ Cardinality(UpTo(O, t)) \in 1 .. Cardinality(O)
                /\ Rank(C, g) = IF Cardinality(UpTo(O, t)) = 1 THEN Cardinality(C)
                                ELSE Cardinality(UpTo(O, t)) - 1
<1> DEFINE D == C \ {n}
           E == O \ {1}
           f == [t \in D |-> t + 1]
<1>1. IsFiniteSet(1 .. n)
  BY FS_Interval
<1>2. /\ C \in SUBSET (1 .. n) /\ C \in SUBSET Nat /\ n \in C /\ O \in SUBSET Nat
      /\ D \in SUBSET (1 .. n) /\ D \in SUBSET Nat /\ E \in SUBSET (1 .. n) /\ E \in SUBSET Nat
  OBVIOUS
<1>3. IsFiniteSet(C) /\ IsFiniteSet(O) /\ IsFiniteSet(D) /\ IsFiniteSet(E)
  BY <1>1, <1>2, FS_Subset
<1>4. \A t \in 1 .. n : t \in D <=> t < n /\ t + 1 \in O
  OBVIOUS
<1>5. f \in [D -> E] /\ \A x, y \in D : x < y => f[x] < f[y]
  BY <1>2, <1>4
<1>6. \A z \in E : \E x \in D : f[x] = z
  <2> SUFFICES ASSUME NEW z \in E
               PROVE  z - 1 \in D /\ f[z - 1] = z
    OBVIOUS
  <2> QED
    BY <1>2, <1>4
<1>7. /\ Cardinality(E) = Cardinality(D)
      /\ \A x \in D : Rank(E, x + 1) = Rank(D, x)
  <2> HIDE DEF D, E
  <2>1. \A x \in D : f[x] = x + 1
    OBVIOUS
  <2> HIDE DEF f
  <2> QED
    BY <1>2, <1>3, <1>5, <1>6, <2>1, ListedAlike
<1>8. /\ Cardinality(C) = Cardinality(D) + 1 /\ Cardinality(O) = Cardinality(E) + 1
      /\ Cardinality(D) \in Nat
  <2>1. /\ Cardinality(C \ {n}) = IF n \in C THEN Cardinality(C) - 1 ELSE Cardinality(C)
        /\ Cardinality(O \ {1}) = IF 1 \in O THEN Cardinality(O) - 1 ELSE Cardinality(O)
    <3>1. \A S, x : IsFiniteSet(S) =>
             Cardinality(S \ {x}) = IF x \in S THEN Cardinality(S) - 1 ELSE Cardinality(S)
      BY FS_RemoveElement
    <3> QED
      BY <1>3, <3>1
  <2>2. Cardinality(C) \in Nat /\ Cardinality(O) \in Nat /\ Cardinality(D) \in Nat
    BY <1>3, FS_CardinalityType
  <2>3. Cardinality(D) = Cardinality(C) - 1 /\ Cardinality(E) = Cardinality(O) - 1
    BY <1>2, <2>1
  <2> HIDE DEF D, E
  <2> QED
    BY <2>2, <2>3
<1>9. ASSUME NEW t \in 1 .. n, NEW g \in C, g < t, \A h \in C : h < t => h <= g
      PROVE  /\ Cardinality(UpTo(O, t)) = Rank(C, g) + 1
             /\ Rank(C, g) \in 1 .. Cardinality(C) /\ Cardinality(UpTo(O, t)) <= Cardinality(O)
  <2>1. g \in D /\ g + 1 \in E
    BY <1>2, <1>9
  <2>2. {c \in C : c <= g} = {d \in D : d <= g}
    BY <1>2, <2>1
  <2>3. UpTo(O, t) = {e \in E : e <= g + 1} \cup {1} /\ 1 \notin {e \in E : e <= g + 1}
    <3>1. ASSUME NEW e \in E, e <= t
          PROVE  e <= g + 1
      <4>1. e - 1 \in C /\ e - 1 < t
        BY <1>2, <1>4, <3>1
      <4> QED
        BY <1>2, <1>9, <4>1
    <3>2. \A e : e \in UpTo(O, t) <=> e = 1 \/ (e \in E /\ e <= t)
      BY <1>2 DEF UpTo
    <3>3. \A e \in E : e <= t <=> e <= g + 1
      <4> SUFFICES ASSUME NEW e \in E, e <= g + 1
                   PROVE  e <= t
        BY <3>1
      <4>1. e \in Nat /\ g \in Nat /\ t \in Nat
        BY <1>2
      <4> HIDE DEF E
      <4> QED
        BY <4>1, <1>9
    <3>4. 1 \notin E
      OBVIOUS
    <3> HIDE DEF E
    <3> QED
      BY <3>2, <3>3, <3>4
  <2>4. IsFiniteSet({e \in E : e <= g + 1})
    BY <1>3, FS_Subset
  <2>5. Cardinality(UpTo(O, t)) = Rank(E, g + 1) + 1
    BY <2>3, <2>4, FS_AddElement DEF Rank
  <2>6. Rank(C, g) = Rank(D, g)
    BY <2>2 DEF Rank
  <2>7. Rank(C, g) \in 1 .. Cardinality(C)
    BY <1>2, <1>3, RankRange
  <2>8. Rank(E, g + 1) \in 1 .. Cardinality(E)
    BY <1>2, <1>3, <2>1, RankRange
  <2> HIDE DEF D, E
  <2> QED
    BY <1>7, <1>8, <2>1, <2>5, <2>6, <2>7, <2>8
<1>10. ASSUME NEW t \in 1 .. n, NEW g \in C, \A h \in C : t <= h /\ h <= g
       PROVE  Cardinality(UpTo(O, t)) = 1 /\ Rank(C, g) = Cardinality(C)
  <2>1. g = n
    BY <1>2, <1>10
  <2>2. {c \in C : c <= g} = C
    BY <1>2, <2>1
  <2>3. UpTo(O, t) = {1}
    <3>1. ASSUME NEW e \in E, e <= t
          PROVE  FALSE
      <4>1. e - 1 \in C /\ e - 1 < t
        BY <1>2, <1>4, <3>1
      <4> QED
        BY <1>2, <1>10, <4>1
    <3>2. \A e : e \in UpTo(O, t) <=> e = 1 \/ (e \in E /\ e <= t)
      BY <1>2 DEF UpTo
    <3> HIDE DEF E
    <3> QED
      BY <3>1, <3>2
  <2> QED
    BY <2>2, <2>3, FS_Singleton DEF Rank
<1> HIDE DEF D, E, f
<1>11. Cardinality(C) = Cardinality(O) /\ Cardinality(C) \in Nat \ {0}
  BY <1>7, <1>8
<1>12. ASSUME NEW t \in 1 .. n, NEW g \in C, Precedes(C, g, t)
       PROVE  /\ Cardinality(UpTo(O, t)) \in 1 .. Cardinality(O)
              /\ Rank(C, g) = IF Cardinality(UpTo(O, t)) = 1 THEN Cardinality(C)
                              ELSE Cardinality(UpTo(O, t)) - 1
  BY <1>9, <1>10, <1>11, <1>12 DEF Precedes
<1> QED
  BY <1>2, <1>3, <1>11, <1>12

\* Which unit's levels a governor gets when every unit has some: those of the unit after it.
LEMMA LevelsOfNext ==
    ASSUME NEW form \in {"layers", "graphs"}, NEW levels, NEW leftover,
           NEW C \in SUBSET Nat, C = GovernorTasks(form), IsFiniteSet(C),
           NEW K \in SUBSET Nat, K = Kept(LettersOf(form), levels, leftover), IsFiniteSet(K),
           Cardinality(K) = Cardinality(C), Cardinality(C) \in Nat \ {0}
    PROVE  LET N == Cardinality(C)
               e(u) == Ascending(K)[u]
           IN  /\ DOMAIN FreqMap(form, levels, leftover) = C
               /\ \A g \in C, u \in 1 .. N : Rank(C, g) = (IF u = 1 THEN N ELSE u - 1) =>
                    FreqMap(form, levels, leftover)[g] = Read(LettersOf(form)[e(u)], levels[e(u)])
<1> DEFINE letters == LettersOf(form)
           governors == Ascending(C)
           kept == Ascending(K)
           N == Cardinality(C)
           Unit(t) == CHOOSE u \in DOMAIN kept : GovernorOf(governors, u - 1) = t
           G == {GovernorOf(governors, u - 1) : u \in DOMAIN kept}
<1>1. FreqMap(form, levels, leftover) = [t \in G |-> Read(letters[kept[Unit(t)]], levels[kept[Unit(t)]])]
  BY DEF FreqMap
<1>2. /\ Len(governors) = N /\ \A i \in 1 .. N : governors[i] \in C /\ Rank(C, governors[i]) = i
      /\ \A g \in C : Rank(C, g) \in 1 .. N /\ governors[Rank(C, g)] = g
  BY AscendingIs, PlaceIsRank
<1>3. DOMAIN kept = 1 .. N
  BY AscendingIs
<1> HIDE DEF governors, kept, letters
<1>4. \A u \in 1 .. N : GovernorOf(governors, u - 1) = governors[IF u = 1 THEN N ELSE u - 1]
  BY <1>2, Wraps DEF GovernorOf
<1>5. \A u \in 1 .. N : /\ GovernorOf(governors, u - 1) \in C
                        /\ Rank(C, GovernorOf(governors, u - 1)) = (IF u = 1 THEN N ELSE u - 1)
  BY <1>2, <1>4
<1>6. \A u, v \in 1 .. N : (IF u = 1 THEN N ELSE u - 1) = (IF v = 1 THEN N ELSE v - 1) => u = v
  OBVIOUS
<1>7. ASSUME NEW g \in C, NEW u \in 1 .. N, Rank(C, g) = (IF u = 1 THEN N ELSE u - 1)
      PROVE  g \in G /\ Unit(g) = u
  <2>1. GovernorOf(governors, u - 1) = g
    BY <1>2, <1>4, <1>7
  <2>2. \A v \in 1 .. N : GovernorOf(governors, v - 1) = g => v = u
    BY <1>5, <1>6, <1>7
  <2> QED
    BY <1>3, <2>1, <2>2
<1>8. \A g \in C : \E u \in 1 .. N : Rank(C, g) = (IF u = 1 THEN N ELSE u - 1)
  <2> SUFFICES ASSUME NEW g \in C
               PROVE  \E u \in 1 .. N : Rank(C, g) = (IF u = 1 THEN N ELSE u - 1)
    OBVIOUS
  <2>1. CASE Rank(C, g) = N
    BY <1>2, <2>1
  <2>2. CASE Rank(C, g) # N
    <3> DEFINE u == Rank(C, g) + 1
    <3>1. u \in 1 .. N /\ u # 1 /\ u - 1 = Rank(C, g)
      BY <1>2, <2>2
    <3> QED
      BY <3>1
  <2> QED
    BY <2>1, <2>2
<1>9. G = C
  <2>1. C \subseteq G
    BY <1>7, <1>8
  <2>2. G \subseteq C
    BY <1>3, <1>5
  <2> QED
    BY <2>1, <2>2
<1> HIDE DEF G, Unit
<1>10. ASSUME NEW g \in C, NEW u \in 1 .. N, Rank(C, g) = (IF u = 1 THEN N ELSE u - 1)
       PROVE  FreqMap(form, levels, leftover)[g] = Read(letters[kept[u]], levels[kept[u]])
  BY <1>1, <1>7, <1>9, <1>10
<1> QED
  BY <1>1, <1>9, <1>10 DEF letters, kept

--------------------------------------------------------------------------------
(* Layers, graphs and their tasks *)

Openings == {l \in 1 .. Len(order) : OpensGraph(order, l)}
Firsts   == {t \in Tasks : FirstOfGraph(t)}

\* The layers that have tasks, and the first and the ending task of each.
Visible == {l \in 1 .. Len(order) : order[l] # "N" \/ OpensGraph(order, l)}
Openers == {t \in Tasks : tasks[t].part \in {"head", "npu"}}
Enders  == {t \in Tasks : Ending(t)}

LEMMA TasksTyped ==
    ASSUME SetUp
    PROVE  /\ Tasks = 1 .. Len(tasks) /\ Len(tasks) \in Nat \ {0} /\ Len(order) \in Nat \ {0}
           /\ \A t \in Tasks : /\ t \in Nat /\ tasks[t].layer \in 1 .. Len(order)
                               /\ tasks[t].letter = order[tasks[t].layer]
                               /\ tasks[t].part \in {"head", "tail", "after", "npu"}
                               /\ tasks[t].letter = "N" <=> tasks[t].part = "npu"
                               /\ tasks[t].part = "after" => network = "trailing"
                               /\ tasks[t].layer \in Visible
           /\ IsFiniteSet(Tasks) /\ IsFiniteSet(1 .. Len(order))
<1>1. Tasks = 1 .. Len(tasks) /\ Len(tasks) \in Nat \ {0}
  BY LastTaskEnds
<1>2. Len(order) \in Nat \ {0}
  BY OrdersAssumption DEF SetUp
<1>3. IsFiniteSet(1 .. Len(tasks)) /\ IsFiniteSet(1 .. Len(order))
  BY <1>1, <1>2, FS_Interval
<1>4. \A t \in Tasks : /\ tasks[t].layer \in 1 .. Len(order)
                       /\ tasks[t].letter = order[tasks[t].layer]
                       /\ tasks[t].part \in {"head", "tail", "after", "npu"}
                       /\ tasks[t].letter = "N" <=> tasks[t].part = "npu"
                       /\ tasks[t].letter = "N" => OpensGraph(order, tasks[t].layer)
                       /\ tasks[t].part = "after" => network = "trailing"
  BY TasksAre
<1> QED
  BY <1>1, <1>2, <1>3, <1>4 DEF Visible

LEMMA PartialSets ==
    ASSUME SetUp
    PROVE  /\ \A S \in SUBSET Tasks : S \in SUBSET Nat /\ IsFiniteSet(S)
           /\ \A S \in SUBSET (1 .. Len(order)) : S \in SUBSET Nat /\ IsFiniteSet(S)
<1>1. Tasks \in SUBSET Nat /\ 1 .. Len(order) \in SUBSET Nat
  BY TasksTyped
<1>2. IsFiniteSet(Tasks) /\ IsFiniteSet(1 .. Len(order))
  BY TasksTyped
<1>3. \A S, T : IsFiniteSet(S) /\ T \in SUBSET S => IsFiniteSet(T)
  BY FS_Subset
<1> QED
  BY <1>1, <1>2, <1>3

\* A layer without tasks goes on with the NPU graph before it.
LEMMA NoTask ==
    ASSUME SetUp, NEW l \in 1 .. Len(order), \A t \in Tasks : tasks[t].layer # l
    PROVE  l > 1 /\ order[l] = order[l - 1]
<1>1. order[l] = "N" /\ ~OpensGraph(order, l)
  BY TaskOrder
<1> QED
  BY <1>1 DEF OpensGraph

\* The layers between those of two tasks in a row.
LEMMA Between ==
    ASSUME SetUp, NEW t \in Tasks, t > 1, NEW l \in tasks[t - 1].layer .. tasks[t].layer - 1
    PROVE  order[l] = tasks[t - 1].letter
<1> DEFINE a == tasks[t - 1].layer
           b == tasks[t].layer
           Bad == {m \in a .. b - 1 : order[m] # tasks[t - 1].letter}
<1>1. t - 1 \in Tasks /\ a \in 1 .. Len(order) /\ b \in 1 .. Len(order) /\ order[a] = tasks[t - 1].letter
  BY TasksTyped
<1>2. ASSUME NEW s \in Tasks
      PROVE  tasks[s].layer <= a \/ tasks[s].layer >= b
  <2>1. s <= t - 1 \/ t <= s
    BY TasksTyped
  <2> QED
    BY <1>1, <2>1, TaskOrder
<1> SUFFICES ASSUME Bad # {}
             PROVE  FALSE
  OBVIOUS
<1>3. Len(order) \in Nat
  BY TasksTyped
<1> HIDE DEF a, b
<1>4. Bad \in SUBSET Nat
  BY <1>1
<1>5. PICK m \in Bad : \A y \in Bad : m <= y
  <2> HIDE DEF Bad
  <2> QED
    BY <1>4, Least
<1>6. m \in a .. b - 1 /\ order[m] # tasks[t - 1].letter /\ m # a
  BY <1>1, <1>5
<1>7. m - 1 \in a .. b - 1 /\ m - 1 < m /\ m \in 1 .. Len(order) /\ m > a /\ m < b
  BY <1>1, <1>3, <1>6
<1>8. order[m - 1] = tasks[t - 1].letter
  <2>1. m - 1 \notin Bad
    BY <1>5, <1>7
  <2> QED
    BY <1>7, <2>1
<1>9. \A s \in Tasks : tasks[s].layer # m
  <2> SUFFICES ASSUME NEW s \in Tasks, tasks[s].layer = m
               PROVE  FALSE
    OBVIOUS
  <2>1. m <= a \/ m >= b
    BY <1>2
  <2> QED
    BY <1>1, <1>7, <2>1
<1>10. order[m] = order[m - 1]
  BY <1>7, <1>9, NoTask
<1> QED
  BY <1>6, <1>8, <1>10

\* The graphs in the order of layers and their first tasks are the same.
LEMMA FirstsOpen ==
    ASSUME SetUp
    PROVE  /\ Firsts \in SUBSET Nat /\ IsFiniteSet(Firsts) /\ 1 \in Firsts
           /\ Openings \in SUBSET Nat /\ IsFiniteSet(Openings)
           /\ \A t \in Firsts : tasks[t].layer \in Openings
           /\ \A s, t \in Firsts : s < t => tasks[s].layer < tasks[t].layer
           /\ \A l \in Openings : \E t \in Firsts : tasks[t].layer = l
<1>1. Firsts \in SUBSET Nat /\ IsFiniteSet(Firsts) /\ Openings \in SUBSET Nat /\ IsFiniteSet(Openings)
  <2>1. Firsts \in SUBSET Tasks /\ Openings \in SUBSET (1 .. Len(order))
    BY DEF Firsts, Openings
  <2> QED
    BY <2>1, PartialSets
<1>2. 1 \in Firsts
  BY TasksTyped DEF Firsts, FirstOfGraph
<1>3. ASSUME NEW t \in Tasks, t > 1
      PROVE  /\ t - 1 \in Tasks /\ t \in Nat
             /\ tasks[t - 1].layer <= tasks[t].layer
             /\ tasks[t - 1].layer \in Nat /\ tasks[t].layer \in Nat
             /\ tasks[t - 1].layer = tasks[t].layer => tasks[t].letter = tasks[t - 1].letter
             /\ tasks[t - 1].layer < tasks[t].layer =>
                  order[tasks[t].layer - 1] = tasks[t - 1].letter
  <2>1. t - 1 \in Tasks /\ t \in Nat
    BY <1>3, TasksTyped
  <2>2. /\ tasks[t - 1].layer <= tasks[t].layer
        /\ tasks[t - 1].layer \in Nat /\ tasks[t].layer \in Nat
    BY <2>1, TaskOrder
  <2>3. tasks[t - 1].layer = tasks[t].layer => tasks[t].letter = tasks[t - 1].letter
    BY <2>1, TasksTyped
  <2>4. ASSUME tasks[t - 1].layer < tasks[t].layer
        PROVE  order[tasks[t].layer - 1] = tasks[t - 1].letter
    <3>1. tasks[t].layer - 1 \in tasks[t - 1].layer .. tasks[t].layer - 1
      BY <2>2, <2>4
    <3> QED
      BY <1>3, <3>1, Between
  <2> QED
    BY <2>1, <2>2, <2>3, <2>4
<1>4. ASSUME NEW s \in Tasks, NEW t \in Firsts, s < t
      PROVE  tasks[s].layer < tasks[t].layer
  <2>1. t \in Tasks /\ t > 1 /\ s <= t - 1
    BY <1>4, TasksTyped DEF Firsts
  <2>2. tasks[t].letter # tasks[t - 1].letter
    BY <2>1 DEF Firsts, FirstOfGraph
  <2>3. tasks[t - 1].layer < tasks[t].layer
    BY <1>3, <2>1, <2>2
  <2>4. tasks[s].layer <= tasks[t - 1].layer /\ tasks[s].layer \in Nat
    BY <1>3, <2>1, TaskOrder
  <2> QED
    BY <1>3, <2>1, <2>3, <2>4
<1>5. ASSUME NEW t \in Firsts
      PROVE  tasks[t].layer \in Openings
  <2>1. t \in Tasks /\ tasks[t].layer \in 1 .. Len(order) /\ tasks[t].letter = order[tasks[t].layer]
    BY TasksTyped DEF Firsts
  <2>2. CASE t = 1
    <3>1. 1 \in 1 .. Len(order) /\ (order[1] # "N" \/ OpensGraph(order, 1))
      BY TasksTyped DEF OpensGraph
    <3>2. PICK s \in Tasks : tasks[s].layer = 1
      BY <3>1, TaskOrder
    <3>3. 1 <= s
      BY TasksTyped
    <3>4. tasks[1].layer <= 1
      BY <2>1, <2>2, <3>2, <3>3, TaskOrder
    <3>5. tasks[t].layer = 1
      BY <2>1, <2>2, <3>4
    <3> QED
      BY <2>1, <3>5 DEF Openings, OpensGraph
  <2>3. CASE t # 1
    <3>1. t > 1 /\ tasks[t].letter # tasks[t - 1].letter
      BY <2>1, <2>3, TasksTyped DEF Firsts, FirstOfGraph
    <3>2. tasks[t - 1].layer < tasks[t].layer
      BY <1>3, <2>1, <3>1
    <3>3. order[tasks[t].layer - 1] = tasks[t - 1].letter
      BY <1>3, <2>1, <3>1, <3>2
    <3> QED
      BY <2>1, <3>1, <3>3 DEF Openings, OpensGraph
  <2> QED
    BY <2>2, <2>3
<1>6. ASSUME NEW l \in Openings
      PROVE  \E t \in Firsts : tasks[t].layer = l
  <2>1. l \in 1 .. Len(order) /\ OpensGraph(order, l) /\ l \in Nat
    BY <1>1 DEF Openings
  <2> DEFINE Of == {t \in Tasks : tasks[t].layer = l}
  <2>2. Of # {}
    BY <2>1, TaskOrder
  <2>3. Of \in SUBSET Nat
    BY TasksTyped
  <2>4. PICK t \in Of : \A s \in Of : t <= s
    <3> HIDE DEF Of
    <3> QED
      BY <2>2, <2>3, Least
  <2>5. t \in Tasks /\ tasks[t].layer = l /\ tasks[t].letter = order[l]
    BY <2>4, TasksTyped
  <2>6. ASSUME t # 1
        PROVE  tasks[t].letter # tasks[t - 1].letter
    <3>1. t > 1 /\ t - 1 \in Tasks /\ t \in Nat
      BY <2>5, <2>6, TasksTyped
    <3>2. tasks[t - 1].layer # l
      BY <2>4, <3>1
    <3>3. tasks[t - 1].layer < l
      BY <1>3, <2>5, <3>1, <3>2
    <3>4. order[l - 1] = tasks[t - 1].letter
      BY <1>3, <2>5, <3>1, <3>3
    <3>5. l # 1
      BY <1>3, <2>5, <3>1, <3>3, TasksTyped
    <3> QED
      BY <2>1, <2>5, <3>4, <3>5 DEF OpensGraph
  <2>7. t \in Firsts
    BY <2>5, <2>6 DEF Firsts, FirstOfGraph
  <2> QED
    BY <2>5, <2>7
<1>7. \A s, t \in Firsts : s < t => tasks[s].layer < tasks[t].layer
  BY <1>4 DEF Firsts
<1> QED
  BY <1>1, <1>2, <1>5, <1>6, <1>7

\* The tasks of one part, from layer to layer.
LEMMA PartOrder ==
    ASSUME SetUp, NEW s \in Tasks, NEW t \in Tasks, s < t,
           \/ tasks[s].part \in {"head", "npu"} /\ tasks[t].part \in {"head", "npu"}
           \/ Ending(s) /\ Ending(t)
    PROVE  tasks[s].layer < tasks[t].layer
<1>1. /\ tasks[s].layer \in Nat /\ tasks[t].layer \in Nat /\ tasks[s].layer <= tasks[t].layer
      /\ Number(s) < Number(t)
  BY TasksTyped, TaskOrder
<1>2. ASSUME tasks[s].layer = tasks[t].layer
      PROVE  tasks[s].part = tasks[t].part
  BY <1>2, TasksTyped DEF Ending
<1>3. tasks[s].layer # tasks[t].layer
  <2> SUFFICES ASSUME tasks[s].layer = tasks[t].layer
               PROVE  FALSE
    OBVIOUS
  <2>1. Number(s) = Number(t)
    BY <1>2 DEF Number
  <2>2. Number(s) \in Nat
    BY TaskOrder
  <2> QED
    BY <1>1, <2>1, <2>2
<1> QED
  BY <1>1, <1>3

\* Every visible layer has one opening task and one ending task.
LEMMA PartsOfLayers ==
    ASSUME SetUp
    PROVE  /\ Openers \in SUBSET Nat /\ IsFiniteSet(Openers) /\ 1 \in Openers
           /\ Enders \in SUBSET Nat /\ IsFiniteSet(Enders)
           /\ Visible \in SUBSET Nat /\ IsFiniteSet(Visible)
           /\ \A s, t \in Openers : s < t => tasks[s].layer < tasks[t].layer
           /\ \A s, t \in Enders : s < t => tasks[s].layer < tasks[t].layer
           /\ \A l \in Visible : /\ \E t \in Openers : tasks[t].layer = l
                                 /\ \E t \in Enders : tasks[t].layer = l
<1>1. /\ Openers \in SUBSET Nat /\ IsFiniteSet(Openers)
      /\ Enders \in SUBSET Nat /\ IsFiniteSet(Enders)
      /\ Visible \in SUBSET Nat /\ IsFiniteSet(Visible)
  <2>1. Openers \in SUBSET Tasks /\ Enders \in SUBSET Tasks /\ Visible \in SUBSET (1 .. Len(order))
    BY DEF Openers, Enders, Visible
  <2> QED
    BY <2>1, PartialSets
<1>2. 1 \in Openers
  <2>1. 1 \in Tasks
    BY TasksTyped
  <2>2. tasks[1].letter = "N" => 1 \in Openers
    BY <2>1, TasksTyped DEF Openers
  <2>3. ASSUME tasks[1].letter # "N"
        PROVE  1 \in Openers
    <3>1. PICK s \in Tasks : tasks[s].layer = tasks[1].layer /\ tasks[s].part = "head"
      <4> DEFINE l == tasks[1].layer
      <4>1. l \in 1 .. Len(order) /\ order[l] # "N"
        BY <2>1, <2>3, TasksTyped
      <4> HIDE DEF l
      <4>2. \E s \in Tasks : tasks[s].layer = l /\ tasks[s].part = "head"
        BY <4>1, TaskOrder
      <4> QED
        BY <4>2 DEF l
    <3>2. 1 <= s
      BY TasksTyped
    <3>3. ~(Number(s) < Number(1))
      BY <2>1, <3>2, TaskOrder
    <3>4. /\ Number(1) = (3 * tasks[1].layer) + PartNumber(tasks[1].part)
          /\ PartNumber(tasks[1].part) \in 0 .. 2 /\ tasks[1].layer \in Nat
          /\ PartNumber(tasks[1].part) = 0 <=> tasks[1].part \in {"head", "npu"}
      BY <2>1, NumberIs
    <3>5. Number(s) = 3 * tasks[1].layer
      BY <3>1, <3>4 DEF Number, PartNumber
    <3>6. PartNumber(tasks[1].part) = 0
      BY <3>3, <3>4, <3>5
    <3> QED
      BY <2>1, <3>4, <3>6 DEF Openers
  <2> QED
    BY <2>2, <2>3
<1>3. /\ \A s, t \in Openers : s < t => tasks[s].layer < tasks[t].layer
      /\ \A s, t \in Enders : s < t => tasks[s].layer < tasks[t].layer
  BY PartOrder DEF Openers, Enders
<1>4. ASSUME NEW l \in Visible
      PROVE  /\ \E t \in Openers : tasks[t].layer = l
             /\ \E t \in Enders : tasks[t].layer = l
  <2>1. l \in 1 .. Len(order) /\ (order[l] # "N" \/ OpensGraph(order, l))
    BY DEF Visible
  <2>2. CASE order[l] # "N"
    <3>1. /\ \E t \in Tasks : tasks[t].layer = l /\ tasks[t].part = "head"
          /\ \E t \in Tasks : tasks[t].layer = l /\ tasks[t].part = "tail"
      BY <2>1, <2>2, TaskOrder
    <3> QED
      BY <3>1 DEF Openers, Enders, Ending
  <2>3. CASE order[l] = "N"
    <3>1. \E t \in Tasks : tasks[t].layer = l /\ tasks[t].part = "npu"
      BY <2>1, <2>3, TaskOrder
    <3> QED
      BY <3>1 DEF Openers, Enders, Ending
  <2> QED
    BY <2>2, <2>3
<1> QED
  BY <1>1, <1>2, <1>3, <1>4

\* In which unit a task is, for both forms: the letter of the last opener up to it is its
\* letter.  Firsts open graphs; in a network without tasks after the ending ones, Openers
\* open layers.
LEMMA SameGraph ==
    ASSUME SetUp, NEW f \in Tasks, NEW t \in Tasks, f <= t,
           \A s \in Firsts : s <= t => s <= f
    PROVE  tasks[f].letter = tasks[t].letter
<1> DEFINE Bad == {s \in Tasks : f <= s /\ s <= t /\ tasks[s].letter # tasks[f].letter}
<1> SUFFICES ASSUME Bad # {}
             PROVE  FALSE
  BY TasksTyped
<1>1. Bad \in SUBSET Nat
  BY TasksTyped
<1>2. PICK m \in Bad : \A y \in Bad : m <= y
  <2> HIDE DEF Bad
  <2> QED
    BY <1>1, Least
<1>3. m \in Tasks /\ f <= m /\ m <= t /\ tasks[m].letter # tasks[f].letter /\ m # f
  BY <1>2
<1>4. m - 1 \in Tasks /\ f <= m - 1 /\ m - 1 <= t /\ m - 1 < m /\ m > f
  BY <1>3, TasksTyped
<1>5. m - 1 \notin Bad
  BY <1>2, <1>4, TasksTyped
<1>6. tasks[m - 1].letter = tasks[f].letter
  BY <1>4, <1>5
<1>7. m \in Firsts
  BY <1>3, <1>6 DEF Firsts, FirstOfGraph
<1> QED
  BY <1>3, <1>4, <1>7, TasksTyped

LEMMA SameLayer ==
    ASSUME SetUp, network # "trailing", NEW f \in Tasks, NEW t \in Tasks, f <= t, f \in Openers,
           \A s \in Openers : s <= t => s <= f
    PROVE  tasks[f].letter = tasks[t].letter /\ tasks[f].layer = tasks[t].layer
<1>1. tasks[t].layer \in Visible /\ tasks[f].layer <= tasks[t].layer
  BY TasksTyped, TaskOrder
<1>2. CASE t \in Openers
  BY <1>2, TasksTyped
<1>3. CASE t \notin Openers
  <2>1. tasks[t].part = "tail"
    BY <1>3, TasksTyped DEF Openers
  <2>2. PICK s \in Openers : tasks[s].layer = tasks[t].layer
    BY <1>1, PartsOfLayers
  <2>3. s \in Tasks /\ tasks[s].part \in {"head", "npu"}
    BY DEF Openers
  <2>5. tasks[t].layer \in Nat
    BY TaskOrder
  <2>4. Number(s) = 3 * tasks[t].layer /\ Number(t) = (3 * tasks[t].layer) + 1
    <3>1. PartNumber(tasks[s].part) = 0 /\ PartNumber(tasks[t].part) = 1
      BY <2>1, <2>3 DEF PartNumber
    <3> QED
      BY <2>2, <2>5, <3>1 DEF Number
  <2>6. s < t
    BY <2>3, <2>4, <2>5, TaskOrder
  <2>7. s <= f
    BY <2>3, <2>6, TasksTyped
  <2>8. tasks[s].layer <= tasks[f].layer
    BY <2>3, <2>7, TaskOrder
  <2>9. tasks[f].layer = tasks[t].layer
    BY <1>1, <2>2, <2>5, <2>8, TaskOrder
  <2> QED
    BY <2>9, TasksTyped
<1> QED
  BY <1>2, <1>3

--------------------------------------------------------------------------------
(* The units of a request *)

\* What prev_p may hold at the first element: not "N" if the first layer is on the NPU.
ReadsFirst(leftover) == order[1] = "N" => leftover # "N"

\* Mode "layers": the elements that get levels are those of the visible layers, whose
\* first tasks and whose ending tasks come in their order.
LEMMA LayerUnits ==
    ASSUME SetUp, NEW levels, Len(levels) = Len(order), NEW leftover, ReadsFirst(leftover)
    PROVE  /\ Kept(LettersOf("layers"), levels, leftover) = Visible
           /\ Cardinality(Visible) = Cardinality(Enders)
           /\ Cardinality(Visible) = Cardinality(Openers)
           /\ \A i \in 1 .. Cardinality(Openers) :
                Ascending(Visible)[i] = tasks[Ascending(Openers)[i]].layer
<1>1. Kept(LettersOf("layers"), levels, leftover) = Visible
  <2>1. LettersOf("layers") = order
    BY DEF LettersOf
  <2>2. \A l \in 1 .. Len(order) : ~Skipped(order, l, leftover) <=> order[l] # "N" \/ OpensGraph(order, l)
    BY DEF Skipped, OpensGraph, ReadsFirst
  <2> QED
    BY <2>1, <2>2 DEF Kept, Visible
<1>2. ASSUME NEW S \in SUBSET Tasks, \A s, t \in S : s < t => tasks[s].layer < tasks[t].layer,
             \A l \in Visible : \E t \in S : tasks[t].layer = l
      PROVE  /\ Cardinality(Visible) = Cardinality(S)
             /\ \A i \in 1 .. Cardinality(S) : Ascending(Visible)[i] = tasks[Ascending(S)[i]].layer
  <2> DEFINE f == [t \in S |-> tasks[t].layer]
  <2>1. S \in SUBSET Nat /\ IsFiniteSet(S) /\ Visible \in SUBSET Nat
    BY PartialSets, PartsOfLayers
  <2>2. f \in [S -> Visible]
    BY TasksTyped
  <2>3. /\ \A x, y \in S : x < y => f[x] < f[y]
        /\ \A z \in Visible : \E x \in S : f[x] = z
    BY <1>2
  <2>4. \A t \in S : f[t] = tasks[t].layer
    OBVIOUS
  <2>5. \A i \in 1 .. Cardinality(S) : Ascending(S)[i] \in S
    BY <2>1, AscendingIs
  <2> HIDE DEF f
  <2>6. /\ Cardinality(Visible) = Cardinality(S)
        /\ \A i \in 1 .. Cardinality(S) : Ascending(Visible)[i] = f[Ascending(S)[i]]
    BY <2>1, <2>2, <2>3, ListedAlike
  <2> QED
    BY <2>4, <2>5, <2>6
<1>3. Openers \in SUBSET Tasks /\ Enders \in SUBSET Tasks
  BY DEF Openers, Enders
<1>4. /\ Cardinality(Visible) = Cardinality(Openers)
      /\ \A i \in 1 .. Cardinality(Openers) : Ascending(Visible)[i] = tasks[Ascending(Openers)[i]].layer
  BY <1>2, <1>3, PartsOfLayers
<1>5. Cardinality(Visible) = Cardinality(Enders)
  BY <1>2, <1>3, PartsOfLayers
<1> QED
  BY <1>1, <1>4, <1>5

\* Mode "graphs": every element gets levels, and has the letter of its graph.
LEMMA GraphUnits ==
    ASSUME SetUp, NEW levels, Len(levels) = Len(LettersOf("graphs")), NEW leftover,
           ReadsFirst(leftover)
    PROVE  LET m == Cardinality(Firsts) IN
           /\ m \in Nat /\ Len(LettersOf("graphs")) = m
           /\ Kept(LettersOf("graphs"), levels, leftover) = 1 .. m
           /\ \A i \in 1 .. m : LettersOf("graphs")[i] = tasks[Ascending(Firsts)[i]].letter
<1> DEFINE m == Cardinality(Firsts)
           letters == LettersOf("graphs")
           f == [t \in Firsts |-> tasks[t].layer]
<1>1. f \in [Firsts -> Openings]
  BY FirstsOpen
<1>2. /\ \A x, y \in Firsts : x < y => f[x] < f[y]
      /\ \A z \in Openings : \E x \in Firsts : f[x] = z
  BY FirstsOpen
<1>3. \A t \in Firsts : f[t] = tasks[t].layer
  OBVIOUS
<1> HIDE DEF f
<1>4. /\ m \in Nat /\ Cardinality(Openings) = m
      /\ \A i \in 1 .. m : Ascending(Openings)[i] = f[Ascending(Firsts)[i]]
  BY <1>1, <1>2, FirstsOpen, ListedAlike, FS_CardinalityType
<1>5. /\ \A i \in 1 .. m : Ascending(Firsts)[i] \in Firsts
      /\ \A i, j \in 1 .. m : i < j => Ascending(Firsts)[i] < Ascending(Firsts)[j]
      /\ \A t \in Firsts : \E i \in 1 .. m : Ascending(Firsts)[i] = t
  BY FirstsOpen, AscendingIs
<1>6. DOMAIN Ascending(Openings) = 1 .. m
  BY <1>4, FirstsOpen, AscendingIs
<1>7. letters = [i \in 1 .. m |-> order[Ascending(Openings)[i]]]
  <2>1. letters = [i \in DOMAIN Ascending(Openings) |-> order[Ascending(Openings)[i]]]
    BY DEF LettersOf, Openings
  <2> QED
    BY <1>6, <2>1
<1>8. \A i \in 1 .. m : letters[i] = tasks[Ascending(Firsts)[i]].letter
  <2> SUFFICES ASSUME NEW i \in 1 .. m
               PROVE  letters[i] = tasks[Ascending(Firsts)[i]].letter
    OBVIOUS
  <2> DEFINE t == Ascending(Firsts)[i]
  <2>1. t \in Firsts /\ t \in Tasks
    BY <1>5 DEF Firsts
  <2>2. letters[i] = order[tasks[t].layer]
    BY <1>3, <1>4, <1>5, <1>7
  <2> QED
    BY <2>1, <2>2, TasksTyped
<1>9. Len(letters) = m
  BY <1>4, <1>7
<1>10. ASSUME NEW i \in 2 .. m
       PROVE  letters[i] # letters[i - 1]
  <2> DEFINE t == Ascending(Firsts)[i]
             s == Ascending(Firsts)[i - 1]
  <2>1. i \in 1 .. m /\ i - 1 \in 1 .. m /\ i - 1 < i
    BY <1>4
  <2>2. t \in Firsts /\ s \in Firsts /\ s < t /\ t \in Tasks /\ s \in Tasks
    BY <1>5, <2>1 DEF Firsts
  <2>3. t > 1 /\ t - 1 \in Tasks /\ s <= t - 1 /\ t \in Nat
    BY <2>2, TasksTyped
  <2>4. ASSUME NEW u \in Firsts, u <= t - 1
        PROVE  u <= s
    <3>1. PICK j \in 1 .. m : Ascending(Firsts)[j] = u
      BY <1>5
    <3>2. u < t
      BY <2>3, <2>4, FirstsOpen
    <3>3. j < i
      <4>1. ~(i < j)
        BY <1>5, <2>1, <2>2, <3>1, <3>2, FirstsOpen
      <4>2. i # j
        BY <2>3, <3>1, <3>2
      <4> QED
        BY <2>1, <4>1, <4>2
    <3>4. j = i - 1 \/ j < i - 1
      BY <2>1, <3>3
    <3> QED
      BY <1>5, <2>1, <2>2, <3>1, <3>4, FirstsOpen
  <2>5. tasks[s].letter = tasks[t - 1].letter
    BY <2>2, <2>3, <2>4, SameGraph
  <2>6. tasks[t].letter # tasks[t - 1].letter
    BY <2>2, <2>3 DEF Firsts, FirstOfGraph
  <2> QED
    BY <1>8, <2>1, <2>5, <2>6
<1>11. ASSUME 1 \in 1 .. m
       PROVE  letters[1] = order[1]
  <2>1. 1 \in Firsts /\ 1 \in Tasks /\ tasks[1].layer \in Openings
    BY FirstsOpen, TasksTyped
  <2>2. Ascending(Firsts)[1] = 1
    <3>1. PICK j \in 1 .. m : Ascending(Firsts)[j] = 1
      BY <1>5, <2>1
    <3>2. Ascending(Firsts)[1] >= 1
      BY <1>5, <1>11, TasksTyped DEF Firsts
    <3>3. ~(1 < j)
      BY <1>5, <1>11, <3>1, <3>2, FirstsOpen
    <3> QED
      BY <3>1, <3>3
  <2>3. PICK t \in Firsts : tasks[t].layer = 1
    <3>1. 1 \in Openings
      BY TasksTyped DEF Openings, OpensGraph
    <3> QED
      BY <3>1, FirstsOpen
  <2>4. tasks[1].layer = 1
    <3>1. 1 <= t /\ t \in Tasks
      BY TasksTyped DEF Firsts
    <3>2. tasks[1].layer <= 1
      BY <2>1, <2>3, <3>1, TaskOrder
    <3> QED
      BY <2>1, <3>2, TasksTyped
  <2> QED
    BY <1>8, <1>11, <2>1, <2>2, <2>4, TasksTyped
<1>12. Kept(letters, levels, leftover) = 1 .. m
  <2>1. \A i \in 1 .. m : ~Skipped(letters, i, leftover)
    <3> SUFFICES ASSUME NEW i \in 1 .. m
                 PROVE  ~Skipped(letters, i, leftover)
      OBVIOUS
    <3>1. CASE i = 1
      BY <1>11, <3>1 DEF Skipped, ReadsFirst
    <3>2. CASE i # 1
      <4>1. letters[i] # letters[i - 1]
        BY <1>4, <1>10, <3>2
      <4> QED
        BY <3>2, <4>1 DEF Skipped
    <3> QED
      BY <3>1, <3>2
  <2>2. Len(levels) = m
    BY <1>9
  <2> HIDE DEF letters, m
  <2> QED
    BY <2>1, <2>2 DEF Kept
<1> QED
  BY <1>4, <1>8, <1>9, <1>12

\* A position up to which as many members come as there are up to t.
LEMMA LastUpTo ==
    ASSUME NEW S \in SUBSET Nat, IsFiniteSet(S), NEW t \in Nat, NEW u \in 1 .. Cardinality(S),
           u = Cardinality(UpTo(S, t))
    PROVE  /\ Ascending(S)[u] \in S /\ Ascending(S)[u] <= t
           /\ \A s \in S : s <= t => s <= Ascending(S)[u]
<1> DEFINE o == Ascending(S)[u]
           Before == {s \in S : s <= o}
           Upto == UpTo(S, t)
<1>1. o \in S /\ Cardinality(Before) = u
  <2>1. o \in S /\ Rank(S, o) = u
    BY PlaceIsRank
  <2> HIDE DEF o
  <2> QED
    BY <2>1 DEF Rank
<1>2. o \in Nat /\ u \in Nat
  <2>1. u \in Nat
    OBVIOUS
  <2> HIDE DEF o, Before
  <2> QED
    BY <1>1, <2>1
<1>3. \A s : (s \in Before <=> s \in S /\ s <= o) /\ (s \in Upto <=> s \in S /\ s <= t)
  BY DEF UpTo
<1>4. \A s \in S : s \in Nat
  OBVIOUS
<1>5. Cardinality(Upto) = u
  OBVIOUS
<1> HIDE DEF o, Before, Upto
<1>6. IsFiniteSet(Before) /\ IsFiniteSet(Upto)
  <2>1. Before \subseteq S /\ Upto \subseteq S
    BY <1>3
  <2> QED
    BY <2>1, FS_Subset
<1>7. o <= t
  <2> SUFFICES ASSUME t < o
               PROVE  FALSE
    BY <1>2
  <2>1. Upto \subseteq Before \ {o} /\ o \in Before
    <3>1. ASSUME NEW s \in Upto
          PROVE  s \in Before /\ s # o
      <4>1. s \in S /\ s <= t /\ s \in Nat
        BY <1>3, <1>4
      <4>2. s <= o /\ s # o
        BY <1>2, <4>1
      <4> QED
        BY <1>3, <4>1, <4>2
    <3>2. o <= o
      BY <1>2
    <3>3. o \in Before
      BY <1>1, <1>3, <3>2
    <3> QED
      BY <3>1, <3>3
  <2>2. IsFiniteSet(Before \ {o}) /\ Cardinality(Before \ {o}) = u - 1
    <3>1. \A T, x : IsFiniteSet(T) =>
             /\ IsFiniteSet(T \ {x})
             /\ Cardinality(T \ {x}) = IF x \in T THEN Cardinality(T) - 1 ELSE Cardinality(T)
      BY FS_RemoveElement
    <3> QED
      BY <1>1, <1>6, <2>1, <3>1
  <2>3. Cardinality(Upto) <= Cardinality(Before \ {o})
    BY <2>1, <2>2, FS_Subset
  <2> QED
    BY <1>2, <1>5, <2>2, <2>3
<1>8. Before = Upto
  <2>1. Before \subseteq Upto
    <3> SUFFICES ASSUME NEW s \in Before
                 PROVE  s \in Upto
      OBVIOUS
    <3>1. s \in S /\ s <= o /\ s \in Nat
      BY <1>3, <1>4
    <3>2. s <= t
      BY <1>2, <1>7, <3>1
    <3> QED
      BY <1>3, <3>1, <3>2
  <2> QED
    BY <1>1, <1>5, <1>6, <2>1, FS_Subset
<1>9. o \in S /\ o <= t /\ \A s \in S : s <= t => s <= o
  BY <1>1, <1>3, <1>7, <1>8
<1> QED
  BY <1>9 DEF o

LEMMA Interval ==
    ASSUME NEW m \in Nat
    PROVE  /\ 1 .. m \in SUBSET Nat /\ IsFiniteSet(1 .. m) /\ Cardinality(1 .. m) = m
           /\ \A u \in 1 .. m : Ascending(1 .. m)[u] = u
<1>1. \A k \in Nat : IsFiniteSet(1 .. k) /\ Cardinality(1 .. k) = k
  BY FS_Interval
<1>2. 1 .. m \in SUBSET Nat
  OBVIOUS
<1>3. ASSUME NEW u \in 1 .. m
      PROVE  Ascending(1 .. m)[u] = u
  <2>1. {y \in 1 .. m : y <= u} = 1 .. u
    OBVIOUS
  <2>2. Rank(1 .. m, u) = u
    <3>1. Rank(1 .. m, u) = Cardinality(1 .. u)
      BY <2>1 DEF Rank
    <3> QED
      BY <1>1, <3>1
  <2> DEFINE S == 1 .. m
  <2>3. S \in SUBSET Nat /\ IsFiniteSet(S) /\ u \in S /\ Rank(S, u) = u
    BY <1>1, <1>2, <2>2
  <2> HIDE DEF S
  <2>4. Ascending(S)[u] = u
    BY <2>3, PlaceIsRank
  <2> QED
    BY <2>4 DEF S
<1> QED
  BY <1>1, <1>2, <1>3

\* The last tasks of the graphs come right before the first.
LEMMA LastsAre ==
    ASSUME SetUp
    PROVE  GovernorTasks("graphs") = {t \in 1 .. Len(tasks) : t = Len(tasks) \/ t + 1 \in Firsts}
<1>1. Tasks = 1 .. Len(tasks) /\ Len(tasks) \in Nat
  BY TasksTyped
<1>2. ASSUME NEW t \in 1 .. Len(tasks), t # Len(tasks)
      PROVE  t + 1 \in Firsts <=> tasks[t].letter # tasks[t + 1].letter
  <2>1. t + 1 \in Tasks /\ t + 1 # 1 /\ (t + 1) - 1 = t
    BY <1>1, <1>2
  <2> QED
    BY <2>1 DEF Firsts, FirstOfGraph
<1>3. GovernorTasks("graphs") = {t \in Tasks : LastOfGraph(t)}
  BY DEF GovernorTasks
<1> QED
  BY <1>1, <1>2, <1>3 DEF LastOfGraph

\* But for what a trailing network has after them, the ending tasks come right before
\* the opening ones.
LEMMA EndersAre ==
    ASSUME SetUp, network # "trailing"
    PROVE  Enders = {t \in 1 .. Len(tasks) : t = Len(tasks) \/ t + 1 \in Openers}
<1>1. Tasks = 1 .. Len(tasks) /\ Len(tasks) \in Nat /\ Ending(Len(tasks))
  BY LastTaskEnds
<1>2. ASSUME NEW t \in 1 .. Len(tasks), t # Len(tasks)
      PROVE  t + 1 \in Openers <=> Ending(t)
  <2>1. t + 1 \in Tasks /\ t \in Tasks /\ t < t + 1
    BY <1>1, <1>2
  <2>2. ASSUME Ending(t), t + 1 \notin Openers
        PROVE  FALSE
    <3>1. tasks[t + 1].part = "tail" /\ Ending(t + 1)
      BY <2>1, <2>2, TasksTyped DEF Openers, Ending
    <3>2. tasks[t].layer < tasks[t + 1].layer
      BY <2>1, <2>2, <3>1, PartOrder
    <3>3. PICK s \in Openers : tasks[s].layer = tasks[t + 1].layer
      BY <2>1, TasksTyped, PartsOfLayers
    <3>4. s \in Tasks /\ tasks[s].part \in {"head", "npu"}
      BY DEF Openers
    <3>5. Number(s) < Number(t + 1)
      <4>1. PartNumber(tasks[s].part) = 0 /\ PartNumber(tasks[t + 1].part) = 1
        BY <3>1, <3>4 DEF PartNumber
      <4>2. tasks[s].layer \in Nat
        BY <3>4, TaskOrder
      <4> QED
        BY <3>3, <4>1, <4>2 DEF Number
    <3>6. s < t + 1
      BY <2>1, <3>4, <3>5, TaskOrder
    <3>7. s <= t
      BY <2>1, <3>4, <3>6, TasksTyped
    <3>8. tasks[s].layer <= tasks[t].layer
      BY <2>1, <3>4, <3>7, TaskOrder
    <3> QED
      BY <2>1, <3>2, <3>3, <3>8, TaskOrder
  <2>3. ASSUME ~Ending(t), t + 1 \in Openers
        PROVE  FALSE
    <3>1. tasks[t].part = "head"
      BY <2>1, <2>3, TasksTyped DEF Ending
    <3>2. tasks[t + 1].part = "tail"
      BY <2>1, <3>1, TailNext
    <3> QED
      BY <2>3, <3>2 DEF Openers
  <2> QED
    BY <2>2, <2>3
<1> QED
  BY <1>1, <1>2 DEF Enders

\* A complete request has levels for every task that governs.
LEMMA AllGovern ==
    ASSUME SetUp, NEW form \in {"layers", "graphs"}, NEW levels,
           Len(levels) = Len(LettersOf(form)), NEW leftover, ReadsFirst(leftover)
    PROVE  LET C == GovernorTasks(form)
               K == Kept(LettersOf(form), levels, leftover)
           IN  /\ C \in SUBSET Nat /\ IsFiniteSet(C) /\ K \in SUBSET Nat /\ IsFiniteSet(K)
               /\ Cardinality(K) = Cardinality(C) /\ Cardinality(C) \in Nat \ {0}
               /\ Len(tasks) \in C /\ DOMAIN FreqMap(form, levels, leftover) = C
<1> DEFINE C == GovernorTasks(form)
           K == Kept(LettersOf(form), levels, leftover)
<1>1. /\ C \in SUBSET Nat /\ IsFiniteSet(C) /\ K \in SUBSET Nat /\ IsFiniteSet(K)
      /\ Cardinality(K) = Cardinality(C) /\ Len(tasks) \in C
  <2>1. CASE form = "layers"
    <3>1. C = Enders
      BY <2>1 DEF GovernorTasks, Enders
    <3>2. K = Visible /\ Cardinality(Visible) = Cardinality(Enders)
      <4>1. Len(levels) = Len(order)
        BY <2>1 DEF LettersOf
      <4> QED
        BY <2>1, <4>1, LayerUnits
    <3>3. Len(tasks) \in Enders
      BY LastTaskEnds DEF Enders
    <3> QED
      BY <3>1, <3>2, <3>3, PartsOfLayers
  <2>2. CASE form = "graphs"
    <3>1. C = {t \in 1 .. Len(tasks) : t = Len(tasks) \/ t + 1 \in Firsts}
      BY <2>2, LastsAre
    <3>2. Firsts \in SUBSET (1 .. Len(tasks)) /\ 1 \in Firsts /\ Len(tasks) \in Nat \ {0}
      BY FirstsOpen, TasksTyped DEF Firsts
    <3> HIDE DEF C
    <3>3. /\ C \in SUBSET Nat /\ IsFiniteSet(C) /\ Len(tasks) \in C
          /\ Cardinality(C) = Cardinality(Firsts)
      BY <3>1, <3>2, UnitAfter
    <3>4. Cardinality(Firsts) \in Nat /\ K = 1 .. Cardinality(Firsts)
      BY <2>2, GraphUnits
    <3> QED
      BY <3>3, <3>4, Interval
  <2> QED
    BY <2>1, <2>2
<1> HIDE DEF C, K
<1>2. Cardinality(C) \in Nat \ {0}
  BY <1>1, FS_CardinalityType, FS_EmptySet
<1>3. DOMAIN FreqMap(form, levels, leftover) = C
  BY <1>1, <1>2, LevelsOfNext DEF C, K
<1> QED
  BY <1>1, <1>2, <1>3 DEF C, K

\* The element of the request that is for task t.
ElementIn(form, t) == IF form = "layers" THEN tasks[t].layer ELSE Graph(t)

\* The levels read for a letter are those the user means, on the resources it uses.
LEMMA ReadMeant ==
    ASSUME GpuInBrackets, NEW p \in Letters, NEW level
    PROVE  /\ \A r \in UsedBy(p) : Read(p, level)[r] = Meant(p, level)[r]
           /\ UsedBy(p) \subseteq Resources /\ DOMAIN Meant(p, level) = UsedBy(p)
<1>1. GpuHost \in Clusters /\ NpuHost \in Clusters
  BY HostsAssumption
<1>2. p \in {"L", "B"} \/ p = "G" \/ p = "N"
  BY DEF Letters, Resources
<1> QED
  BY <1>1, <1>2 DEF Read, Meant, UsedBy, Clusters, Resources

\* The governor before a task has the levels the user means for it.
LEMMA RightLevels ==
    ASSUME SetUp, network # "trailing", GpuInBrackets, NEW form \in {"layers", "graphs"}, NEW levels,
           Len(levels) = Len(LettersOf(form)), NEW leftover, ReadsFirst(leftover),
           NEW t \in Tasks, NEW g \in GovernorTasks(form), Precedes(GovernorTasks(form), g, t),
           NEW r \in UsedBy(tasks[t].letter)
    PROVE  FreqMap(form, levels, leftover)[g][r] =
             Meant(tasks[t].letter, levels[ElementIn(form, t)])[r]
<1> DEFINE C == GovernorTasks(form)
           K == Kept(LettersOf(form), levels, leftover)
           O == IF form = "layers" THEN Openers ELSE Firsts
           u == Cardinality(UpTo(O, t))
           o == Ascending(O)[u]
           e == Ascending(K)[u]
<1>1. /\ C \in SUBSET Nat /\ IsFiniteSet(C) /\ K \in SUBSET Nat /\ IsFiniteSet(K)
      /\ Cardinality(K) = Cardinality(C) /\ Cardinality(C) \in Nat \ {0}
  BY AllGovern
<1>2. /\ O \in SUBSET (1 .. Len(tasks)) /\ 1 \in O /\ Len(tasks) \in Nat \ {0}
      /\ t \in 1 .. Len(tasks) /\ t \in Nat
  BY TasksTyped, PartsOfLayers, FirstsOpen DEF Openers, Firsts
<1>3. C = {s \in 1 .. Len(tasks) : s = Len(tasks) \/ s + 1 \in O}
  <2>1. CASE form = "layers"
    BY <2>1, EndersAre DEF GovernorTasks, Enders
  <2>2. CASE form = "graphs"
    BY <2>2, LastsAre
  <2> QED
    BY <2>1, <2>2
<1>4. /\ O \in SUBSET Nat /\ IsFiniteSet(O) /\ Cardinality(C) = Cardinality(O)
      /\ u \in 1 .. Cardinality(O)
      /\ Rank(C, g) = IF u = 1 THEN Cardinality(C) ELSE u - 1
  <2> DEFINE n == Len(tasks)
  <2>1. g \in C /\ Precedes(C, g, t)
    OBVIOUS
  <2>2. /\ n \in Nat \ {0} /\ O \in SUBSET (1 .. n) /\ 1 \in O /\ t \in 1 .. n
        /\ C = {s \in 1 .. n : s = n \/ s + 1 \in O}
    BY <1>2, <1>3
  <2> HIDE DEF O, C, n
  <2>3. /\ O \in SUBSET Nat /\ IsFiniteSet(O) /\ Cardinality(C) = Cardinality(O)
        /\ \A q \in 1 .. n, h \in C : Precedes(C, h, q) =>
             /\ Cardinality(UpTo(O, q)) \in 1 .. Cardinality(O)
             /\ Rank(C, h) = IF Cardinality(UpTo(O, q)) = 1 THEN Cardinality(C)
                             ELSE Cardinality(UpTo(O, q)) - 1
    BY <2>2, UnitAfter
  <2> QED
    BY <2>1, <2>2, <2>3
<1>5. o \in O /\ o <= t /\ \A s \in O : s <= t => s <= o
  <2> HIDE DEF O
  <2>1. u = Cardinality(UpTo(O, t))
    OBVIOUS
  <2> HIDE DEF u
  <2> QED
    BY <1>2, <1>4, <2>1, LastUpTo
<1>6. FreqMap(form, levels, leftover)[g] = Read(LettersOf(form)[e], levels[e])
  <2> HIDE DEF u, O
  <2>1. u \in 1 .. Cardinality(C) /\ g \in C
    BY <1>4
  <2> HIDE DEF C, K
  <2> QED
    BY <1>1, <1>4, <2>1, LevelsOfNext DEF C, K
<1>7. e = ElementIn(form, t) /\ LettersOf(form)[e] = tasks[t].letter
  <2>1. CASE form = "layers"
    <3>1. O = Openers /\ Len(levels) = Len(order) /\ LettersOf(form) = order
      BY <2>1 DEF LettersOf
    <3>2. K = Visible /\ Ascending(Visible)[u] = tasks[o].layer
      <4> HIDE DEF u
      <4> QED
        BY <1>4, <2>1, <3>1, LayerUnits
    <3>3. o \in Tasks
      BY <1>5, <3>1 DEF Openers
    <3>4. tasks[o].letter = tasks[t].letter /\ tasks[o].layer = tasks[t].layer
      <4> HIDE DEF o
      <4> QED
        BY <1>5, <3>1, <3>3, SameLayer
    <3>5. e = tasks[t].layer
      BY <3>2, <3>4
    <3> HIDE DEF o, e
    <3> QED
      BY <2>1, <3>1, <3>5, TasksTyped DEF ElementIn
  <2>2. CASE form = "graphs"
    <3>1. O = Firsts
      BY <2>2
    <3>2. /\ Cardinality(Firsts) \in Nat /\ K = 1 .. Cardinality(Firsts)
          /\ \A i \in 1 .. Cardinality(Firsts) :
               LettersOf("graphs")[i] = tasks[Ascending(Firsts)[i]].letter
      BY <2>2, GraphUnits
    <3>3. e = u
      <4> HIDE DEF u, K
      <4> QED
        BY <1>4, <3>1, <3>2, Interval
    <3>4. LettersOf(form)[e] = tasks[o].letter
      <4> HIDE DEF u, e
      <4> QED
        BY <1>4, <2>2, <3>1, <3>2, <3>3
    <3>5. o \in Tasks
      BY <1>5, <3>1 DEF Firsts
    <3>6. tasks[o].letter = tasks[t].letter
      <4> HIDE DEF o
      <4> QED
        BY <1>5, <3>1, <3>5, SameGraph
    <3>7. Graph(t) = u
      <4>1. {s \in 1 .. t : FirstOfGraph(s)} = UpTo(Firsts, t)
        BY <1>2, TasksTyped DEF UpTo, Firsts
      <4> QED
        BY <3>1, <4>1 DEF Graph
    <3> HIDE DEF o, e, u
    <3> QED
      BY <2>2, <3>3, <3>4, <3>6, <3>7 DEF ElementIn
  <2> QED
    BY <2>1, <2>2
<1>8. tasks[t].letter \in Letters
  BY TasksTyped, OrdersAssumption DEF SetUp
<1> HIDE DEF e
<1> QED
  BY <1>6, <1>7, <1>8, ReadMeant

--------------------------------------------------------------------------------
(* Requests that have an element for everything *)

\* What the code takes for granted: that an uninitialised prev_p does not hold "N" where
\* the first layer is on the NPU, and that a network whose layers go on after their
\* ending tasks is asked once.
PrevIsNotNpu == \A o \in Orders : o[1] = "N" => "N" \notin Leftovers
TrailingOnce == "trailing" \in Networks => MaxRequests["trailing"] <= 1

\* The flags that earlier requests have left.
EndersGovern ==
    /\ network # "trailing" => governor \subseteq Enders
    /\ entered = 0 => governor = {}

\* The governors' levels as a complete request sets them.
Assigned ==
    phase \in {"between", "ready", "running", "frameDone"} =>
      /\ request.form # "unparsable" =>
           \A g \in governor : freq[g] \in [Resources -> AllLevels]
      /\ network = "plain" /\ Complete =>
           /\ Len(tasks) \in governor
           /\ \A t \in Tasks, g \in governor : Precedes(governor, g, t) =>
                \A r \in DOMAIN Wanted(t) : r \in Resources /\ freq[g][r] = Wanted(t)[r]

\* From the second frame on, the resources are at the levels of the governor before.
Forced ==
    network = "plain" /\ Complete =>
      /\ phase \in {"ready", "running"} /\ frame > 1 =>
           \E g \in governor : /\ Precedes(governor, g, cur)
                               /\ \A r \in Resources : InForce(r) = freq[g][r]
      /\ phase = "frameDone" \/ (phase = "between" /\ frame > 1) =>
           \A r \in Resources : InForce(r) = freq[Len(tasks)][r]

FlagsInv == PinInv /\ EndersGovern
ForceInv == FlagsInv /\ Assigned /\ Forced

\* The governors of a request are ending tasks, but for a trailing network's graphs.
LEMMA GoverningIs ==
    ASSUME PinInv, EndersGovern, NEW form \in Forms
    PROVE  /\ network # "trailing" => GovernorTasks(form) \subseteq Enders
           /\ network # "trailing" \/ entered = 0 => Governing(form) \subseteq GovernorTasks(form)
           /\ network = "plain" => Governing(form) = GovernorTasks(form)
           /\ network # "trailing" => Governing(form) \subseteq Enders
<1>1. GovernorTasks("layers") = Enders
  BY DEF GovernorTasks, Enders
<1>2. ASSUME network # "trailing"
      PROVE  GovernorTasks(form) \subseteq Enders
  <2>1. CASE form = "layers"
    BY <1>1, <2>1
  <2>2. CASE form = "graphs"
    <3> SUFFICES ASSUME NEW t \in Tasks, LastOfGraph(t)
                 PROVE  Ending(t)
      BY <2>2 DEF GovernorTasks, Enders
    <3>1. CASE t = Len(tasks)
      BY <3>1, LastTaskEnds DEF PinInv
    <3>2. CASE t # Len(tasks)
      <4>1. tasks[t].part # "head"
        BY <3>2, TailNext DEF LastOfGraph, PinInv
      <4> QED
        BY <1>2, <4>1, TasksTyped DEF Ending, PinInv
    <3> QED
      BY <3>1, <3>2
  <2>3. CASE form \notin {"layers", "graphs"}
    BY <2>3, LastTaskEnds DEF GovernorTasks, Enders, PinInv
  <2> QED
    BY <2>1, <2>2, <2>3
<1>3. ASSUME network # "trailing" \/ entered = 0
      PROVE  Governing(form) \subseteq GovernorTasks(form)
  BY <1>1, <1>3 DEF Governing, EndersGovern
<1>4. ASSUME network = "plain"
      PROVE  Governing(form) = GovernorTasks(form)
  <2>1. \A t : ~SideLayer(t)
    BY <1>4 DEF SideLayer
  <2> QED
    BY <1>3, <1>4, <2>1 DEF Governing
<1> QED
  BY <1>2, <1>3, <1>4

LEMMA EnterFlags ==
    ASSUME FlagsInv, NEW form \in Forms, NEW levels, NEW leftover, Enter(form, levels, leftover)
    PROVE  EndersGovern'
<1> USE DEF FlagsInv
<1>1. /\ entered' = entered + 1 /\ UNCHANGED config /\ governor' = Governing(form)
  BY DEF Enter
<1>2. entered \in Nat /\ entered' # 0
  BY <1>1, RequestsAssumption DEF PinInv, Typing, SetUp
<1>3. Enders' = Enders
  BY <1>1 DEF Enders, Ending, Tasks, config
<1>4. network # "trailing" => Governing(form) \subseteq Enders
  BY GoverningIs
<1> QED
  BY <1>1, <1>2, <1>3, <1>4 DEF EndersGovern, config

LEMMA EnterCompletes ==
    ASSUME FlagsInv, PrevIsNotNpu, TrailingOnce,
           NEW form \in Forms, NEW levels, NEW leftover, Enter(form, levels, leftover),
           form \in {"layers", "graphs"} => leftover \in Leftovers
    PROVE  CompleteRequestsRun'
<1> USE DEF FlagsInv
<1>1. /\ entered < MaxRequests[network]
      /\ UNCHANGED config /\ governor' = Governing(form)
      /\ request' = [form |-> form, levels |-> levels]
      /\ form = "unparsable" => phase' # "terminated"
      /\ Governing(form) \subseteq DOMAIN GovernorFreqs(form, levels, leftover) => phase' # "terminated"
  BY DEF Enter
<1>2. SetUp /\ Typing
  BY DEF PinInv
<1>3. entered \in Nat
  BY <1>2, RequestsAssumption DEF Typing, SetUp
<1>4. network # "trailing" \/ entered = 0
  <2> SUFFICES ASSUME network = "trailing"
               PROVE  entered = 0
    OBVIOUS
  <2>1. MaxRequests[network] \in Nat /\ MaxRequests[network] <= 1
    BY <1>2, RequestsAssumption DEF TrailingOnce, SetUp
  <2> QED
    BY <1>1, <1>3, <2>1
<1> SUFFICES ASSUME Complete'
             PROVE  phase' # "terminated"
  BY DEF CompleteRequestsRun
<1>5. Governing(form) \subseteq GovernorTasks(form)
  BY <1>4, GoverningIs
<1>6. CASE form = "all"
  <2>1. GovernorTasks(form) = {Len(tasks)} /\ DOMAIN GovernorFreqs(form, levels, leftover) = {Len(tasks)}
    BY <1>6 DEF GovernorTasks, GovernorFreqs
  <2> QED
    BY <1>1, <1>5, <2>1
<1>7. CASE form = "unparsable"
  BY <1>1, <1>7
<1>8. CASE form \in {"layers", "graphs"}
  <2>1. Len(levels) = Len(LettersOf(form))
    BY <1>1, <1>8 DEF Complete, LettersOf, config
  <2>2. ReadsFirst(leftover)
    BY <1>2, <1>8 DEF ReadsFirst, PrevIsNotNpu, SetUp
  <2>3. DOMAIN FreqMap(form, levels, leftover) = GovernorTasks(form)
    BY <1>2, <1>8, <2>1, <2>2, AllGovern
  <2>4. GovernorFreqs(form, levels, leftover) = FreqMap(form, levels, leftover)
    BY <1>8 DEF GovernorFreqs
  <2> QED
    BY <1>1, <1>5, <2>3, <2>4
<1> QED
  BY <1>6, <1>7, <1>8 DEF Forms

\* What the properties say of the configuration and the request.
LEMMA RequestKept ==
    ASSUME UNCHANGED <<config, request>>
    PROVE  /\ Complete' <=> Complete
           /\ \A t : Wanted(t)' = Wanted(t)
           /\ Enders' = Enders
BY DEF config, Complete, LettersOf, OpensGraph, Wanted, Meant, UsedBy, Element, Graph,
       FirstOfGraph, Enders, Ending, Tasks

LEMMA FlagsStep == FlagsInv /\ [Next]_vars => FlagsInv'
<1> SUFFICES ASSUME FlagsInv, [Next]_vars
             PROVE  FlagsInv'
  OBVIOUS
<1>1. PinInv'
  BY PinStep DEF FlagsInv
<1>2. CASE EnterUnits("layers") \/ EnterUnits("graphs") \/ EnterOne
  BY <1>1, <1>2, RequestIs, EnterFlags DEF FlagsInv
<1>3. CASE BeginFrame \/ StartTask \/ FinishTask \/ FinishFrame \/ UNCHANGED vars
  <2>1. UNCHANGED <<config, request>> /\ UNCHANGED <<governor, entered>>
    BY <1>3 DEF BeginFrame, StartTask, FinishTask, FinishFrame, vars, taskState
  <2> QED
    BY <1>1, <2>1, RequestKept DEF FlagsInv, EndersGovern, config
<1> QED
  BY <1>2, <1>3 DEF Next

\* Only a request with too few elements ends the program, whatever requests came before:
\* every task that extract_governor_tasks flags has an entry in governor_freqs, where
\* set_governor_freqs looks it up with map::at.
THEOREM CompleteNeverTerminates ==
    ASSUME PrevIsNotNpu, TrailingOnce
    PROVE  Spec => []CompleteRequestsRun
<1>1. Init => FlagsInv /\ CompleteRequestsRun
  BY InitPin DEF Init, FlagsInv, EndersGovern, CompleteRequestsRun
<1>2. FlagsInv /\ CompleteRequestsRun /\ [Next]_vars => CompleteRequestsRun'
  <2> SUFFICES ASSUME FlagsInv, CompleteRequestsRun, [Next]_vars
               PROVE  CompleteRequestsRun'
    OBVIOUS
  <2>1. CASE EnterUnits("layers") \/ EnterUnits("graphs") \/ EnterOne
    BY <2>1, RequestIs, EnterCompletes
  <2>2. CASE BeginFrame \/ StartTask \/ FinishTask \/ FinishFrame
    BY <2>2 DEF BeginFrame, StartTask, FinishTask, FinishFrame, CompleteRequestsRun
  <2>3. CASE UNCHANGED vars
    <3>1. UNCHANGED <<config, request>> /\ UNCHANGED phase
      BY <2>3 DEF vars
    <3> QED
      BY <3>1, RequestKept DEF CompleteRequestsRun
  <2> QED
    BY <2>1, <2>2, <2>3 DEF Next
<1> QED
  BY <1>1, <1>2, FlagsStep, PTL DEF Spec

LEMMA EnterAssigned ==
    ASSUME FlagsInv, PrevIsNotNpu, GpuInBrackets,
           NEW form \in Forms, NEW n \in Nat, NEW levels \in [1 .. n -> Levels \cup {0}],
           NEW leftover \in Leftovers \cup {"other"}, Enter(form, levels, leftover),
           form \in {"layers", "graphs"} => leftover \in Leftovers /\ levels \in [1 .. n -> Levels],
           form = "all" => n = 1
    PROVE  Assigned'
<1> USE DEF FlagsInv
<1> DEFINE map == GovernorFreqs(form, levels, leftover)
<1>1. SetUp /\ Typing
  BY DEF PinInv
<1> SUFFICES ASSUME phase' = "between"
             PROVE  Assigned'
  BY DEF Assigned, Enter
<1>2. /\ UNCHANGED config /\ governor' = Governing(form) /\ governor' \subseteq Tasks
      /\ request' = [form |-> form, levels |-> levels]
      /\ form # "unparsable" => Governing(form) \subseteq DOMAIN map
      /\ freq' = [t \in Tasks |-> IF form # "unparsable" /\ t \in Governing(form)
                                    THEN map[t] ELSE freq[t]]
  BY <1>1, GovernorsAreTasks DEF Enter
<1>3. form # "unparsable" => \A g \in governor' : freq'[g] = map[g] /\ g \in DOMAIN map
  BY <1>2
<1>4. form # "unparsable" => \A g \in governor' : freq'[g] \in [Resources -> AllLevels]
  <2>1. CASE form = "all"
    <3>1. levels[1] \in AllLevels
      BY <2>1 DEF AllLevels
    <3>2. map = [t \in {Len(tasks)} |-> [r \in Resources |-> levels[1]]]
      BY <2>1 DEF GovernorFreqs
    <3> HIDE DEF map
    <3> QED
      BY <1>3, <3>1, <3>2
  <2>2. CASE form \in {"layers", "graphs"}
    <3>1. map = FreqMap(form, levels, leftover)
      BY <2>2 DEF GovernorFreqs
    <3> HIDE DEF map
    <3> QED
      BY <1>3, <2>2, <3>1, FreqMapLevels
  <2> QED
    BY <2>1, <2>2 DEF Forms
<1>5. ASSUME network' = "plain", Complete'
      PROVE  /\ Len(tasks)' \in governor'
             /\ \A t \in Tasks', g \in governor' : Precedes(governor', g, t) =>
                  \A r \in DOMAIN (Wanted(t)') : r \in Resources /\ freq'[g][r] = Wanted(t)'[r]
  <2>1. network = "plain" /\ governor' = GovernorTasks(form) /\ Len(tasks)' = Len(tasks) /\ Tasks' = Tasks
    BY <1>2, <1>5, GoverningIs DEF config, Tasks
  <2>2. CASE form = "all"
    <3>1. Len(tasks) \in governor'
      BY <2>1, <2>2 DEF GovernorTasks
    <3>2. map = [t \in {Len(tasks)} |-> [r \in Resources |-> levels[1]]]
      BY <2>2 DEF GovernorFreqs
    <3>3. \A t : Wanted(t)' = [r \in Resources |-> levels[1]]
      BY <1>2, <2>2 DEF Wanted
    <3>4. \A g \in governor' : freq'[g] = [r \in Resources |-> levels[1]]
      BY <1>3, <2>2, <3>2
    <3> HIDE DEF map
    <3> QED
      BY <2>1, <3>1, <3>3, <3>4
  <2>3. CASE form \in {"layers", "graphs"}
    <3>1. Len(levels) = Len(LettersOf(form))
      BY <1>2, <1>5, <2>3 DEF Complete, LettersOf, config
    <3>2. ReadsFirst(leftover)
      BY <1>1, <2>3 DEF ReadsFirst, PrevIsNotNpu, SetUp
    <3>3. Len(tasks) \in governor'
      BY <1>1, <2>1, <2>3, <3>1, <3>2, AllGovern
    <3>4. map = FreqMap(form, levels, leftover)
      BY <2>3 DEF GovernorFreqs
    <3> HIDE DEF map
    <3>5. ASSUME NEW t \in Tasks, NEW g \in governor', Precedes(governor', g, t),
                 NEW r \in DOMAIN (Wanted(t)')
          PROVE  r \in Resources /\ freq'[g][r] = Wanted(t)'[r]
      <4> DEFINE p == tasks[t].letter
                 level == levels[ElementIn(form, t)]
      <4>1. Wanted(t)' = Meant(p, level)
        BY <1>2, <2>3 DEF Wanted, Meant, UsedBy, Element, ElementIn, Graph, FirstOfGraph, config
      <4>2. p \in Letters
        BY <1>1, TasksTyped, OrdersAssumption DEF SetUp
      <4> HIDE DEF p, level
      <4>3. r \in UsedBy(p) /\ r \in Resources
        BY <3>5, <4>1, <4>2, ReadMeant
      <4>4. r \in UsedBy(tasks[t].letter) /\ network # "trailing" /\ g \in GovernorTasks(form)
            /\ Precedes(GovernorTasks(form), g, t)
        BY <2>1, <3>5, <4>3 DEF p
      <4>5. FreqMap(form, levels, leftover)[g][r] = Meant(p, level)[r]
        <5> DEFINE C == GovernorTasks(form)
                   q(s) == UsedBy(tasks[s].letter)
                   M(s, x) == Meant(tasks[s].letter, levels[ElementIn(form, s)])[x]
                   F(h, x) == FreqMap(form, levels, leftover)[h][x]
        <5>1. \A s \in Tasks, h \in C : Precedes(C, h, s) => \A x \in q(s) : F(h, x) = M(s, x)
          BY <1>1, <2>3, <3>1, <3>2, <4>4, RightLevels
        <5>2. t \in Tasks /\ g \in C /\ Precedes(C, g, t) /\ r \in q(t)
          BY <4>4
        <5> HIDE DEF C, q, M, F
        <5>3. F(g, r) = M(t, r)
          BY <5>1, <5>2
        <5> QED
          BY <5>3 DEF F, M, p, level
      <4>6. freq'[g] = FreqMap(form, levels, leftover)[g]
        BY <1>3, <2>3, <3>4, <3>5
      <4> QED
        BY <4>1, <4>3, <4>5, <4>6
    <3> QED
      BY <2>1, <3>3, <3>5
  <2>4. CASE form = "unparsable"
    BY <1>2, <1>5, <2>4 DEF Complete
  <2> QED
    BY <2>2, <2>3, <2>4 DEF Forms
<1>6. request'.form = form
  BY <1>2
<1> HIDE DEF map
<1> QED
  BY <1>4, <1>5, <1>6 DEF Assigned

\* A commit puts every resource at its level.
LEMMA CommitForces ==
    ASSUME Typing, NEW f \in [Resources -> AllLevels], registers' = Committed(f)
    PROVE  \A r \in Resources : InForce(r)' = f[r]
<1> DEFINE kept == [r \in Resources |-> IF f[r] > -1 THEN f[r] ELSE registers[r]]
<1>1. MaxGpu \in Nat /\ AllLevels \subseteq 0 .. MaxGpu
  BY LevelsAssumption
<1>2. \A r \in Resources : f[r] \in 0 .. MaxGpu
  BY <1>1
<1>3. \A r \in Resources : kept[r] = f[r]
  BY <1>2
<1>4. registers' = [kept EXCEPT !["G"] = MaxGpu - @] /\ kept \in [Resources -> Int] /\ "G" \in Resources
  BY <1>2, <1>3 DEF Committed, Resources
<1> HIDE DEF kept
<1>5. /\ registers'["G"] = MaxGpu - f["G"]
      /\ \A r \in Resources : r # "G" => registers'[r] = f[r]
  BY <1>3, <1>4
<1> QED
  BY <1>1, <1>2, <1>4, <1>5 DEF InForce

\* What a run does not change.
LEMMA RunKeeps ==
    ASSUME BeginFrame \/ StartTask \/ FinishTask \/ FinishFrame \/ UNCHANGED vars
    PROVE  /\ UNCHANGED <<config, request>> /\ UNCHANGED <<governor, freq>>
           /\ Tasks' = Tasks /\ Len(tasks)' = Len(tasks) /\ network' = network
           /\ Complete' <=> Complete
           /\ \A t : Wanted(t)' = Wanted(t)
<1>1. UNCHANGED <<config, request>> /\ UNCHANGED <<governor, freq>>
  BY DEF BeginFrame, StartTask, FinishTask, FinishFrame, vars, taskState
<1> QED
  BY <1>1, RequestKept DEF config, Tasks

LEMMA RunAssigned ==
    ASSUME Assigned, BeginFrame \/ StartTask \/ FinishTask \/ FinishFrame \/ UNCHANGED vars
    PROVE  Assigned'
<1>1. phase' \in {"between", "ready", "running", "frameDone"} =>
        phase \in {"between", "ready", "running", "frameDone"}
  BY DEF BeginFrame, StartTask, FinishTask, FinishFrame, vars
<1> QED
  BY <1>1, RunKeeps DEF Assigned

LEMMA RunForced ==
    ASSUME ForceInv, BeginFrame \/ StartTask \/ FinishTask \/ FinishFrame \/ UNCHANGED vars
    PROVE  Forced'
<1> USE DEF ForceInv
<1>1. /\ UNCHANGED <<governor, freq>> /\ Len(tasks)' = Len(tasks) /\ network' = network
      /\ Complete' <=> Complete
  BY RunKeeps
<1>2. /\ Tasks = 1 .. Len(tasks) /\ Len(tasks) \in Nat \ {0}
      /\ cur \in Tasks /\ governor \subseteq Tasks /\ Typing
  BY TasksTyped DEF FlagsInv, PinInv, Typing
<1> SUFFICES ASSUME network = "plain", Complete
             PROVE  Forced'
  BY <1>1 DEF Forced
<1>3. phase \in {"between", "ready", "running", "frameDone"} =>
        /\ Len(tasks) \in governor
        /\ \A g \in governor : freq[g] \in [Resources -> AllLevels]
  BY DEF Assigned, Complete
<1>4. CASE BeginFrame
  <2>1. phase = "between" /\ phase' = "ready" /\ cur' = 1 /\ frame' = frame /\ UNCHANGED registers
    BY <1>4 DEF BeginFrame
  <2>2. \A r : InForce(r)' = InForce(r)
    BY <2>1 DEF InForce
  <2>3. Precedes(governor, Len(tasks), 1)
    BY <1>2 DEF Precedes
  <2>4. frame > 1 => \A r \in Resources : InForce(r) = freq[Len(tasks)][r]
    BY <2>1 DEF Forced
  <2> QED
    BY <1>1, <1>3, <2>1, <2>2, <2>3, <2>4 DEF Forced
<1>5. CASE StartTask
  <2>1. phase = "ready" /\ phase' = "running" /\ UNCHANGED <<cur, frame, registers>>
    BY <1>5 DEF StartTask
  <2>2. \A r : InForce(r)' = InForce(r)
    BY <2>1 DEF InForce
  <2> QED
    BY <1>1, <2>1, <2>2 DEF Forced
<1>6. CASE FinishTask
  <2>1. /\ phase = "running" /\ UNCHANGED frame
        /\ registers' = IF cur \in governor THEN Committed(freq[cur]) ELSE registers
        /\ cur < Len(tasks) => cur' = cur + 1 /\ phase' = "ready"
        /\ ~(cur < Len(tasks)) => cur = Len(tasks) /\ phase' = "frameDone"
    BY <1>2, <1>6 DEF FinishTask
  <2>2. CASE cur \in governor
    <3>1. \A r \in Resources : InForce(r)' = freq[cur][r]
      BY <1>2, <1>3, <2>1, <2>2, CommitForces
    <3>2. CASE cur < Len(tasks)
      <4>1. Precedes(governor, cur, cur + 1)
        BY <1>2, <3>2 DEF Precedes
      <4> QED
        BY <1>1, <2>1, <2>2, <3>1, <3>2, <4>1 DEF Forced
    <3>3. CASE ~(cur < Len(tasks))
      BY <1>1, <2>1, <3>1, <3>3 DEF Forced
    <3> QED
      BY <3>2, <3>3
  <2>3. CASE cur \notin governor
    <3>1. cur < Len(tasks)
      BY <1>2, <1>3, <2>1, <2>3
    <3>2. \A r : InForce(r)' = InForce(r)
      BY <2>1, <2>3 DEF InForce
    <3>3. ASSUME NEW g \in governor, Precedes(governor, g, cur)
          PROVE  Precedes(governor, g, cur + 1)
      <4>1. \A h \in governor : h \in Nat /\ cur \in Nat /\ h # cur
        BY <1>2, <2>3
      <4>2. \A h \in governor : (h < cur + 1 => h < cur) /\ (cur <= h => cur + 1 <= h)
        BY <4>1
      <4>3. g < cur => g < cur + 1
        BY <4>1
      <4> QED
        BY <3>3, <4>2, <4>3 DEF Precedes
    <3> QED
      BY <1>1, <2>1, <3>1, <3>2, <3>3 DEF Forced
  <2> QED
    BY <2>2, <2>3
<1>7. CASE FinishFrame
  <2>1. phase = "frameDone" /\ phase' \in {"between", "prompt"} /\ UNCHANGED registers
    BY <1>7 DEF FinishFrame
  <2>2. \A r : InForce(r)' = InForce(r)
    BY <2>1 DEF InForce
  <2> QED
    BY <1>1, <2>1, <2>2 DEF Forced
<1>8. CASE UNCHANGED vars
  <2>1. UNCHANGED <<phase, frame, cur, registers>>
    BY <1>8 DEF vars
  <2>2. \A r : InForce(r)' = InForce(r)
    BY <2>1 DEF InForce
  <2> QED
    BY <1>1, <2>1, <2>2 DEF Forced
<1> QED
  BY <1>4, <1>5, <1>6, <1>7, <1>8

\* A task of a measured frame runs at the levels the user gave for its layer or graph,
\* in a network without tasks after the ending ones and without side layers, whatever
\* was entered before: each governor sets the levels of what comes after it, and the
\* last one those of the next frame's start (set_freq_map, commit_freq).  The user writes
\* brackets for GPU layers, and a frame of warming up comes first.
THEOREM RunsAtRequestedLevels ==
    ASSUME PrevIsNotNpu, GpuInBrackets, Warmup >= 1
    PROVE  Spec => []AtRequestedLevels
<1>1. Init => ForceInv
  <2> SUFFICES ASSUME Init
               PROVE  ForceInv
    OBVIOUS
  <2>1. FlagsInv
    BY InitPin DEF Init, FlagsInv, EndersGovern
  <2> QED
    BY <2>1 DEF Init, ForceInv, Assigned, Forced
<1>2. ForceInv /\ [Next]_vars => ForceInv'
  <2> SUFFICES ASSUME ForceInv, [Next]_vars
               PROVE  ForceInv'
    OBVIOUS
  <2>1. FlagsInv'
    BY FlagsStep DEF ForceInv
  <2>2. CASE EnterUnits("layers") \/ EnterUnits("graphs") \/ EnterOne
    <3>1. PICK form \in Forms, n \in Nat :
            \E levels \in [1 .. n -> Levels \cup {0}], leftover \in Leftovers \cup {"other"} :
               /\ Enter(form, levels, leftover)
               /\ form \in {"layers", "graphs"} =>
                    /\ levels \in [1 .. n -> Levels] /\ n \in 1 .. Len(LettersOf(form))
                    /\ leftover \in Leftovers
               /\ form = "all" => n = 1
      BY <2>2, RequestIs
    <3>2. Assigned'
      BY <3>1, EnterAssigned DEF ForceInv
    <3>3. frame' = 1 /\ phase' \in {"between", "terminated"}
      BY <3>1 DEF Enter
    <3> QED
      BY <2>1, <3>2, <3>3 DEF ForceInv, Forced
  <2>3. CASE BeginFrame \/ StartTask \/ FinishTask \/ FinishFrame \/ UNCHANGED vars
    BY <2>1, <2>3, RunAssigned, RunForced DEF ForceInv
  <2> QED
    BY <2>2, <2>3 DEF Next
<1>3. ForceInv => AtRequestedLevels
  <2> SUFFICES ASSUME ForceInv, network = "plain", phase = "running", frame > Warmup, Complete,
                      NEW r \in DOMAIN Wanted(cur)
               PROVE  InForce(r) = Wanted(cur)[r]
    BY DEF AtRequestedLevels
  <2>1. frame > 1 /\ cur \in Tasks
    BY FramesAssumption DEF ForceInv, FlagsInv, PinInv, Typing
  <2>2. PICK g \in governor : /\ Precedes(governor, g, cur)
                              /\ \A s \in Resources : InForce(s) = freq[g][s]
    BY <2>1 DEF ForceInv, Forced
  <2> QED
    BY <2>1, <2>2 DEF ForceInv, Assigned
<1> QED
  BY <1>1, <1>2, <1>3, PTL DEF Spec

================================================================================
