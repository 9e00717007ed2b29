---------------------------- MODULE CpuSchedulerProofs ----------------------------
(***************************************************************************)
(* Theorems about KernelWindows, for kernels of any length and strategy,   *)
(* and about CpuScheduler, for any number of graphs, of threads and of     *)
(* kernels to schedule.                                                    *)
(***************************************************************************)
EXTENDS CpuScheduler, FiniteSetTheorems, WellFoundedInduction, TLAPS

--------------------------------------------------------------------------------
(* The parts of a window: every iteration is in exactly one of them. *)

LEMMA Division ==
    ASSUME NEW a \in Nat, NEW d \in Nat \ {0}
    PROVE  /\ a \div d \in Nat
           /\ a % d \in 0 .. d - 1
           /\ a = ((a \div d) * d) + (a % d)
OBVIOUS

LEMMA Distribute ==
    ASSUME NEW a \in Int, NEW b \in Int, NEW c \in Int
    PROVE  a * (b + c) = (a * b) + (a * c)
OBVIOUS

LEMMA ProductNat ==
    ASSUME NEW a \in Nat, NEW b \in Nat
    PROVE  a * b \in Nat
OBVIOUS

\* Where part id begins.
First(num, id, total) == (num \div total) * id + Least(id, num % total)

LEMMA FirstMonotone ==
    ASSUME NEW num \in Nat, NEW total \in Nat \ {0},
           NEW i \in 0 .. total, NEW j \in 0 .. total, i <= j
    PROVE  First(num, i, total) <= First(num, j, total)
<1> DEFINE q == num \div total
           r == num % total
<1>1. q \in Nat /\ r \in 0 .. total - 1
  BY Division
<1> HIDE DEF q, r
<1>2. q * i \in Nat /\ q * j \in Nat /\ q * i <= q * j
  <2>1. q * (j - i) \in Nat
    BY <1>1, ProductNat
  <2>2. q * j = (q * i) + (q * (j - i))
    <3>1. i + (j - i) = j
      OBVIOUS
    <3>2. QED
      BY <1>1, <3>1, Distribute
  <2>3. q * i \in Nat
    BY <1>1, ProductNat
  <2>4. QED
    BY <2>1, <2>2, <2>3
<1>3. Least(i, r) <= Least(j, r) /\ Least(i, r) \in Nat /\ Least(j, r) \in Nat
  BY <1>1 DEF Least
<1>4. q * i + Least(i, r) <= q * j + Least(j, r)
  BY <1>2, <1>3
<1>5. QED
  BY <1>4 DEF First, q, r

LEMMA PartFromFirst ==
    ASSUME NEW num \in Nat, NEW total \in Nat \ {0}, NEW id \in 0 .. total - 1
    PROVE  /\ Part(num, id, total) = First(num, id, total) .. First(num, id + 1, total) - 1
           /\ First(num, id, total) \in Nat
           /\ First(num, id + 1, total) \in Nat
           /\ First(num, id + 1, total) <= num
<1> DEFINE q == num \div total
           r == num % total
<1>1. q \in Nat /\ r \in 0 .. total - 1 /\ num = (q * total) + r
  BY Division
<1>t. First(num, id, total) = (q * id) + Least(id, r)
      /\ First(num, id + 1, total) = (q * (id + 1)) + Least(id + 1, r)
      /\ First(num, total, total) = (q * total) + Least(total, r)
  BY DEF First
<1>p. Part(num, id, total) =
          LET work == q + (IF id < r THEN 1 ELSE 0)
              first == (q * id) + Least(id, r)
          IN  first .. Least(num, first + work) - 1
  BY DEF Part
<1> HIDE DEF q, r
<1>2. q * id \in Nat /\ q * (id + 1) = (q * id) + q
  BY <1>1, ProductNat, Distribute
<1>3. First(num, id, total) \in Nat /\ First(num, id + 1, total) \in Nat
  BY <1>1, <1>2, <1>t DEF Least
<1>4. First(num, total, total) = num
  BY <1>1, <1>t DEF Least
<1>5. First(num, id + 1, total) <= num
  BY <1>4, FirstMonotone
<1>6. First(num, id + 1, total) = First(num, id, total) + q + (IF id < r THEN 1 ELSE 0)
  BY <1>1, <1>2, <1>t DEF Least
<1>7. Part(num, id, total) = First(num, id, total) .. First(num, id + 1, total) - 1
  BY SMTT(60), <1>1, <1>2, <1>3, <1>5, <1>6, <1>t, <1>p DEF Least
<1>8. QED
  BY <1>3, <1>5, <1>7

\* The parts of split_window, of whatever number of iterations and however many parts,
\* are within the window and do not overlap.
THEOREM PartsDisjoint ==
    ASSUME NEW num \in Nat, NEW total \in Nat \ {0}, NEW i \in 0 .. total - 1
    PROVE  /\ Part(num, i, total) \subseteq 0 .. num - 1
           /\ \A j \in (0 .. total - 1) \ {i} : Part(num, i, total) \cap Part(num, j, total) = {}
<1>1. Part(num, i, total) \subseteq 0 .. num - 1
  <2>1. /\ Part(num, i, total) = First(num, i, total) .. First(num, i + 1, total) - 1
        /\ First(num, i, total) \in Nat
        /\ First(num, i + 1, total) \in Nat
        /\ First(num, i + 1, total) <= num
    BY PartFromFirst
  <2>2. QED
    BY <2>1
<1>2. ASSUME NEW a \in 0 .. total - 1, NEW b \in 0 .. total - 1, a < b
      PROVE  Part(num, a, total) \cap Part(num, b, total) = {}
  <2>1. First(num, a + 1, total) <= First(num, b, total)
    BY <1>2, FirstMonotone
  <2>2. /\ Part(num, a, total) = First(num, a, total) .. First(num, a + 1, total) - 1
        /\ Part(num, b, total) = First(num, b, total) .. First(num, b + 1, total) - 1
        /\ First(num, a, total) \in Nat /\ First(num, a + 1, total) \in Nat
        /\ First(num, b, total) \in Nat /\ First(num, b + 1, total) \in Nat
    BY PartFromFirst
  <2>3. QED
    BY <2>1, <2>2
<1>3. ASSUME NEW j \in (0 .. total - 1) \ {i}
      PROVE  Part(num, i, total) \cap Part(num, j, total) = {}
  <2>1. CASE i < j
    BY <1>2, <2>1
  <2>2. CASE j < i
    <3>1. Part(num, j, total) \cap Part(num, i, total) = {}
      BY <1>2, <2>2
    <3>2. QED
      BY <3>1
  <2>3. QED
    BY <2>1, <2>2
<1>4. QED
  BY <1>1, <1>3

\* No iteration is left out, in particular not by the remainder of the division.
THEOREM PartsCover ==
    ASSUME NEW num \in Nat, NEW total \in Nat \ {0}, NEW x \in 0 .. num - 1
    PROVE  \E id \in 0 .. total - 1 : x \in Part(num, id, total)
<1> DEFINE q == num \div total
           r == num % total
<1>1. q \in Nat /\ r \in 0 .. total - 1 /\ num = (q * total) + r
  BY Division
<1>2. \A id \in 0 .. total : First(num, id, total) = (q * id) + Least(id, r)
  BY DEF First
<1>3. \A id \in 0 .. total - 1 :
          Part(num, id, total) = First(num, id, total) .. First(num, id + 1, total) - 1
  BY PartFromFirst
<1> HIDE DEF q, r
<1>4. ASSUME NEW id \in 0 .. total - 1, NEW low \in Int, NEW high \in Int,
             low = (q * id) + Least(id, r), high = (q * (id + 1)) + Least(id + 1, r),
             low <= x, x < high
      PROVE  \E k \in 0 .. total - 1 : x \in Part(num, k, total)
  <2>1. Part(num, id, total) = low .. high - 1
    BY <1>2, <1>3, <1>4
  <2>2. QED
    BY <2>1, <1>4
<1>5. CASE x < r * (q + 1)
  <2> DEFINE id == x \div (q + 1)
  <2>1. id \in Nat /\ x = (id * (q + 1)) + (x % (q + 1)) /\ x % (q + 1) \in 0 .. q
    <3>1. x \in Nat /\ q + 1 \in Nat \ {0} /\ (q + 1) - 1 = q
      BY <1>1
    <3>2. QED
      BY <3>1, Division
  <2> HIDE DEF id
  <2>2. id < r
    <3>1. SUFFICES ASSUME r <= id PROVE FALSE
      BY <1>1, <2>1
    <3>2. (id - r) * (q + 1) \in Nat
      BY <1>1, <2>1, <3>1, ProductNat
    <3>3. id * (q + 1) = (r * (q + 1)) + ((id - r) * (q + 1))
      BY <1>1, <2>1
    <3>4. r * (q + 1) \in Nat
      BY <1>1, ProductNat
    <3>5. QED
      BY <1>5, <2>1, <3>2, <3>3, <3>4
  <2>3. id * (q + 1) = (q * id) + id /\ q * (id + 1) = (q * id) + q /\ q * id \in Nat
    BY <1>1, <2>1, ProductNat
  <2>4. id \in 0 .. total - 1
    BY <1>1, <2>1, <2>2
  <2>5. Least(id, r) = id /\ Least(id + 1, r) = id + 1
    BY <1>1, <2>1, <2>2 DEF Least
  <2>6. QED
    BY <1>1, <1>4, <2>1, <2>3, <2>4, <2>5
<1>6. CASE r * (q + 1) <= x
  <2> DEFINE y == x - r * (q + 1)
             steps == y \div q
  <2>1. r * (q + 1) = (q * r) + r /\ q * r \in Nat /\ q * total \in Nat
    BY <1>1, ProductNat
  <2>2. q # 0
    <3>1. SUFFICES ASSUME q = 0 PROVE FALSE
      OBVIOUS
    <3>2. num = r
      BY <1>1, <3>1
    <3>3. QED
      BY <1>1, <1>6, <2>1, <3>1, <3>2
  <2>3. y \in Nat /\ x = (q * r) + r + y
    BY <1>1, <1>6, <2>1
  <2> HIDE DEF y
  <2>4. steps \in Nat /\ y = (steps * q) + (y % q) /\ y % q \in 0 .. q - 1
    BY <1>1, <2>2, <2>3, Division
  <2> HIDE DEF steps
  <2>5. steps * q = q * steps /\ q * steps \in Nat
    BY <1>1, <2>4, ProductNat
  <2>6. r + steps < total
    <3>1. SUFFICES ASSUME total <= r + steps PROVE FALSE
      BY <1>1, <2>4
    <3>2. q * ((r + steps) - total) \in Nat
      BY <1>1, <2>4, <3>1, ProductNat
    <3>3. q * (r + steps) = (q * r) + (q * steps)
      BY <1>1, <2>4, Distribute
    <3>4. q * (r + steps) = (q * total) + (q * ((r + steps) - total))
      <4>1. total + ((r + steps) - total) = r + steps
        BY <1>1, <2>4
      <4>2. QED
        BY <1>1, <2>4, <4>1, Distribute
    <3>5. x < (q * total) + r
      BY <1>1
    <3>6. QED
      BY <1>1, <2>1, <2>3, <2>4, <2>5, <3>2, <3>3, <3>4, <3>5
  <2> DEFINE id == r + steps
  <2>7. id \in 0 .. total - 1 /\ id \in Nat
    BY <1>1, <2>4, <2>6
  <2>8. Least(id, r) = r /\ Least(id + 1, r) = r
    BY <1>1, <2>4 DEF Least
  <2>9. q * id = (q * r) + (q * steps) /\ q * (id + 1) = (q * id) + q
    BY <1>1, <2>4, <2>7, Distribute
  <2> DEFINE low == (q * id) + Least(id, r)
             high == (q * (id + 1)) + Least(id + 1, r)
  <2> HIDE DEF id
  <2>10. low \in Int /\ high \in Int /\ low <= x /\ x < high
    BY <1>1, <2>1, <2>3, <2>4, <2>5, <2>7, <2>8, <2>9
  <2> HIDE DEF low, high
  <2>11. QED
    BY <1>4, <2>7, <2>10 DEF low, high
<1>7. r * (q + 1) \in Nat
  BY <1>1, ProductNat
<1>8. QED
  BY <1>5, <1>6, <1>7

--------------------------------------------------------------------------------
(* The workloads of a kernel. *)

LEMMA LeastElement ==
    ASSUME NEW S \in SUBSET Nat, S # {}
    PROVE  Min(S) \in S /\ \A y \in S : Min(S) <= y
<1> DEFINE Less == {p \in Nat \X Nat : p[1] < p[2]}
<1>1. IsWellFoundedOn(Less, Nat)
  BY NatLessThanWellFounded DEF OpToRel
<1>2. PICK x \in S : \A y \in S : <<y, x>> \notin Less
  <2> HIDE DEF Less
  <2>1. QED
    BY <1>1, WFMin
<1>3. \A y \in S : x <= y
  <2>1. SUFFICES ASSUME NEW y \in S, y < x PROVE FALSE
    OBVIOUS
  <2>2. <<y, x>> \in Less
    BY <2>1
  <2>3. QED
    BY <1>2, <2>2
<1>4. QED
  BY <1>3 DEF Min

LEMMA RoundedRootNat ==
    ASSUME NEW p \in Nat \ {0}, NEW q \in Nat \ {0}
    PROVE  RoundedRoot(p, q) \in Nat
<1> DEFINE Above == {a \in Nat : 4 * p < (2 * a + 1) * (2 * a + 1) * q}
           a == Min(Above)
<1>1. 2 * p \in Above
  <2>1. ASSUME NEW r \in Nat, r > 4 * p PROVE r * r * q > 4 * p
    <3>1. r * q >= r
      <4>1. r * (q - 1) \in Nat /\ r * q = r * (q - 1) + r
        BY ProductNat
      <4>2. QED
        BY <4>1
    <3>2. r * (r * q) >= r * q
      <4> DEFINE t == r * q
      <4>1. t \in Nat
        BY ProductNat
      <4> HIDE DEF t
      <4>2. (r - 1) * t \in Nat /\ r * t = (r - 1) * t + t
        BY <2>1, <4>1, ProductNat
      <4>3. QED
        BY <4>1, <4>2 DEF t
    <3>3. r * r * q = r * (r * q) /\ r * q \in Nat /\ r * (r * q) \in Nat
      BY ProductNat
    <3>4. QED
      BY <2>1, <3>1, <3>2, <3>3
  <2>2. 2 * (2 * p) + 1 \in Nat /\ 2 * (2 * p) + 1 > 4 * p
    OBVIOUS
  <2>3. QED
    BY <2>1, <2>2
<1>2. a \in Above /\ \A y \in Above : a <= y
  BY <1>1, LeastElement
<1>3. a \in 0 .. 2 * p
  BY <1>1, <1>2
<1>4. a > 0 => 4 * p >= (2 * a - 1) * (2 * a - 1) * q
  <2>1. SUFFICES ASSUME a > 0 PROVE 4 * p >= (2 * a - 1) * (2 * a - 1) * q
    OBVIOUS
  <2>2. a - 1 \in Nat /\ a - 1 \notin Above
    BY <1>2, <1>3, <2>1
  <2>3. 2 * (a - 1) + 1 = 2 * a - 1
    BY <1>3
  <2> HIDE DEF a
  <2>4. ~(4 * p < (2 * (a - 1) + 1) * (2 * (a - 1) + 1) * q)
    BY <2>2
  <2>5. (2 * a - 1) * (2 * a - 1) * q \in Int
    BY <1>3
  <2>6. QED
    BY <2>3, <2>4, <2>5
<1>5. 4 * p < (2 * a + 1) * (2 * a + 1) * q
  BY <1>2
<1> HIDE DEF a
<1> DEFINE Root(b) == /\ 4 * p < (2 * b + 1) * (2 * b + 1) * q
                      /\ b > 0 => 4 * p >= (2 * b - 1) * (2 * b - 1) * q
<1>6. RoundedRoot(p, q) = CHOOSE b \in 0 .. 2 * p : Root(b)
  BY DEF RoundedRoot
<1>7. Root(a)
  BY <1>4, <1>5
<1> HIDE DEF Root
<1>8. RoundedRoot(p, q) \in 0 .. 2 * p
  BY <1>3, <1>6, <1>7
<1>9. QED
  BY <1>8

\* Whatever the shape of the window, split_2d finds numbers of threads.
LEMMA Split2dType ==
    ASSUME NEW max \in Nat \ {0}, NEW m \in Nat \ {0}, NEW n \in Nat \ {0}
    PROVE  Split2d(max, m, n) \in (Nat \ {0}) \X (Nat \ {0})
<1> DEFINE adjusted == RoundedRoot(max * n, m)
           DivisorsAt(i) == {f \in {adjusted - i, adjusted + i} : max % f = 0}
           Found == {i \in 0 .. adjusted - 1 : DivisorsAt(i) # {}}
           nearest == Min(Found)
           factor == Min(DivisorsAt(nearest))
<1>1. adjusted \in Nat
  <2>1. max * n \in Nat \ {0}
    <3>1. (max - 1) * n \in Nat /\ max * n = (max - 1) * n + n
      BY ProductNat
    <3>2. QED
      BY <3>1
  <2>2. QED
    BY <2>1, RoundedRootNat
<1>2. Split2d(max, m, n) = IF adjusted > 0 THEN <<factor, max \div factor>>
                           ELSE IF m > n THEN <<Least(m, max), 1>> ELSE <<1, Least(n, max)>>
  BY DEF Split2d
<1> HIDE DEF adjusted
<1>3. CASE adjusted > 0
  <2>1. adjusted - 1 \in Found
    <3>1. max % 1 = 0 /\ adjusted - (adjusted - 1) = 1
      BY <1>1
    <3>2. 1 \in DivisorsAt(adjusted - 1)
      BY <3>1
    <3>3. QED
      BY <1>1, <1>3, <3>2
  <2>2. Found \in SUBSET Nat
    BY <1>1
  <2>3. nearest \in Found
    BY <2>1, <2>2, LeastElement
  <2> HIDE DEF nearest
  <2>4. DivisorsAt(nearest) \in SUBSET Nat /\ DivisorsAt(nearest) # {} /\ 0 \notin DivisorsAt(nearest)
    BY <1>1, <2>3
  <2>5. factor \in DivisorsAt(nearest)
    BY <2>4, LeastElement
  <2>6. factor \in Nat \ {0} /\ max % factor = 0
    BY <2>4, <2>5
  <2> HIDE DEF factor
  <2>7. max \div factor \in Nat \ {0}
    <3>1. max \div factor \in Nat /\ max = ((max \div factor) * factor) + 0
      BY <2>6, Division
    <3>2. QED
      BY <2>6, <3>1
  <2>8. QED
    BY <1>2, <1>3, <2>6, <2>7
<1>4. CASE ~(adjusted > 0)
  BY <1>2, <1>4 DEF Least
<1>5. QED
  BY <1>3, <1>4

\* A kernel as KernelsAssumption of CpuScheduler has it.
IsKernel(k) ==
    /\ k.strategy \in Strategies /\ k.m \in Nat \ {0} /\ k.n \in Nat \ {0}
    /\ k.threshold \in Nat
    /\ k.strategy # "all" => k.n = 1

LEMMA NumWindowsType ==
    ASSUME NEW k, IsKernel(k), NEW threads \in Nat \ {0}
    PROVE  NumWindows(k, threads) \in Nat \ {0}
BY DEF IsKernel, NumWindows, Least

\* Where workload i of a kernel split in two dimensions lies: i = a + b * t1.
LEMMA Locator ==
    ASSUME NEW t1 \in Nat \ {0}, NEW t2 \in Nat \ {0}
    PROVE  /\ t1 * t2 \in Nat \ {0}
           /\ \A i \in 0 .. t1 * t2 - 1 : i % t1 \in 0 .. t1 - 1 /\ i \div t1 \in 0 .. t2 - 1
           /\ \A i, j \in 0 .. t1 * t2 - 1 :
                  i % t1 = j % t1 /\ i \div t1 = j \div t1 => i = j
           /\ \A a \in 0 .. t1 - 1, b \in 0 .. t2 - 1 :
                  \E i \in 0 .. t1 * t2 - 1 : i % t1 = a /\ i \div t1 = b
<1>1. t1 * t2 \in Nat \ {0}
  <2>1. (t1 - 1) * t2 \in Nat /\ t1 * t2 = (t1 - 1) * t2 + t2
    BY ProductNat
  <2>2. QED
    BY <2>1
<1>2. ASSUME NEW i \in 0 .. t1 * t2 - 1
      PROVE  /\ i \div t1 \in Nat /\ i % t1 \in 0 .. t1 - 1
             /\ i = ((i \div t1) * t1) + (i % t1)
             /\ i \div t1 \in 0 .. t2 - 1
  <2> DEFINE b == i \div t1
  <2>1. b \in Nat /\ i % t1 \in 0 .. t1 - 1 /\ i = (b * t1) + (i % t1)
    BY <1>1, Division
  <2> HIDE DEF b
  <2>2. b < t2
    <3>1. SUFFICES ASSUME t2 <= b PROVE FALSE
      BY <2>1
    <3>2. (b - t2) * t1 \in Nat /\ b * t1 = (t1 * t2) + ((b - t2) * t1)
      BY <2>1, <3>1, ProductNat
    <3>3. QED
      BY <1>1, <2>1, <3>2
  <2>3. QED
    BY <2>1, <2>2 DEF b
<1>3. ASSUME NEW i \in 0 .. t1 * t2 - 1, NEW j \in 0 .. t1 * t2 - 1,
             i % t1 = j % t1, i \div t1 = j \div t1
      PROVE  i = j
  BY <1>2, <1>3
<1>4. ASSUME NEW a \in 0 .. t1 - 1, NEW b \in 0 .. t2 - 1
      PROVE  \E i \in 0 .. t1 * t2 - 1 : i % t1 = a /\ i \div t1 = b
  <2> DEFINE i == (b * t1) + a
  <2>1. i \in Nat
    BY ProductNat
  <2>2. i < t1 * t2
    <3>1. ((t2 - 1) - b) * t1 \in Nat /\ b * t1 \in Nat
      BY ProductNat
    <3>2. t1 * t2 = (b * t1) + t1 + (((t2 - 1) - b) * t1)
      OBVIOUS
    <3>3. QED
      BY <3>1, <3>2, <1>1
  <2>3. i % t1 = a /\ i \div t1 = b
    OBVIOUS
  <2> HIDE DEF i
  <2>4. i \in 0 .. t1 * t2 - 1
    BY <1>1, <2>1, <2>2
  <2>5. QED
    BY <2>3, <2>4
<1>5. QED
  BY <1>1, <1>2, <1>3, <1>4

\* The workloads of schedule_common, whatever the kernel, the strategy and the number of
\* threads: there is at least one, and each iteration of the kernel is in exactly one.
THEOREM WorkloadsTile ==
    ASSUME NEW k, IsKernel(k), NEW threads \in Nat \ {0}
    PROVE  /\ \E n \in Nat \ {0} : DOMAIN Workloads(k, threads) = 0 .. n - 1
           /\ \A i \in DOMAIN Workloads(k, threads) :
                  Workloads(k, threads)[i] \subseteq Iterations(k)
           /\ \A i, j \in DOMAIN Workloads(k, threads) :
                  i # j => Workloads(k, threads)[i] \cap Workloads(k, threads)[j] = {}
           /\ \A x \in Iterations(k) :
                  \E i \in DOMAIN Workloads(k, threads) : x \in Workloads(k, threads)[i]
<1> DEFINE W == Workloads(k, threads)
<1>1. CASE k.strategy = "all"
  <2> DEFINE t == Split2d(threads, k.m, k.n)
             t1 == t[1]
             t2 == t[2]
  <2>1. t1 \in Nat \ {0} /\ t2 \in Nat \ {0}
    BY Split2dType DEF IsKernel
  <2>2. W = [i \in 0 .. t1 * t2 - 1 |-> Part(k.m, i % t1, t1) \X Part(k.n, i \div t1, t2)]
    BY <1>1 DEF Workloads
  <2> HIDE DEF t1, t2, W
  <2>3. /\ DOMAIN W = 0 .. t1 * t2 - 1 /\ t1 * t2 \in Nat \ {0}
        /\ \A i \in DOMAIN W : i % t1 \in 0 .. t1 - 1 /\ i \div t1 \in 0 .. t2 - 1
        /\ \A i, j \in DOMAIN W : i % t1 = j % t1 /\ i \div t1 = j \div t1 => i = j
        /\ \A a \in 0 .. t1 - 1, b \in 0 .. t2 - 1 :
               \E i \in DOMAIN W : i % t1 = a /\ i \div t1 = b
        /\ \A i \in DOMAIN W : W[i] = Part(k.m, i % t1, t1) \X Part(k.n, i \div t1, t2)
    <3>1. DOMAIN W = 0 .. t1 * t2 - 1
      BY <2>2
    <3>2. \A i \in DOMAIN W : W[i] = Part(k.m, i % t1, t1) \X Part(k.n, i \div t1, t2)
      BY <2>2, <3>1
    <3>3. /\ t1 * t2 \in Nat \ {0}
          /\ \A i \in 0 .. t1 * t2 - 1 : i % t1 \in 0 .. t1 - 1 /\ i \div t1 \in 0 .. t2 - 1
          /\ \A i, j \in 0 .. t1 * t2 - 1 :
                 i % t1 = j % t1 /\ i \div t1 = j \div t1 => i = j
          /\ \A a \in 0 .. t1 - 1, b \in 0 .. t2 - 1 :
                 \E i \in 0 .. t1 * t2 - 1 : i % t1 = a /\ i \div t1 = b
      BY <2>1, Locator, Zenon
    <3>4. QED
      BY <3>1, <3>2, <3>3, Zenon
  <2>4. \A i \in DOMAIN W : W[i] \subseteq Iterations(k)
    <3> SUFFICES ASSUME NEW i \in DOMAIN W PROVE W[i] \subseteq Iterations(k)
      OBVIOUS
    <3>1. /\ Part(k.m, i % t1, t1) \subseteq 0 .. k.m - 1
          /\ Part(k.n, i \div t1, t2) \subseteq 0 .. k.n - 1
      BY <2>1, <2>3, PartsDisjoint DEF IsKernel
    <3>2. W[i] = Part(k.m, i % t1, t1) \X Part(k.n, i \div t1, t2)
      BY <2>3
    <3>3. QED
      BY <3>1, <3>2 DEF Iterations
  <2>5. \A i, j \in DOMAIN W : i # j => W[i] \cap W[j] = {}
    <3> SUFFICES ASSUME NEW i \in DOMAIN W, NEW j \in DOMAIN W, i # j
                 PROVE  W[i] \cap W[j] = {}
      OBVIOUS
    <3>1. /\ W[i] = Part(k.m, i % t1, t1) \X Part(k.n, i \div t1, t2)
          /\ W[j] = Part(k.m, j % t1, t1) \X Part(k.n, j \div t1, t2)
      BY <2>3
    <3>2. CASE i % t1 # j % t1
      <4>1. Part(k.m, i % t1, t1) \cap Part(k.m, j % t1, t1) = {}
        BY <2>1, <2>3, <3>2, PartsDisjoint DEF IsKernel
      <4>2. QED
        BY <3>1, <4>1
    <3>3. CASE i \div t1 # j \div t1
      <4>1. Part(k.n, i \div t1, t2) \cap Part(k.n, j \div t1, t2) = {}
        BY <2>1, <2>3, <3>3, PartsDisjoint DEF IsKernel
      <4>2. QED
        BY <3>1, <4>1
    <3>4. QED
      BY <2>3, <3>2, <3>3
  <2>6. \A x \in Iterations(k) : \E i \in DOMAIN W : x \in W[i]
    <3> SUFFICES ASSUME NEW x \in Iterations(k) PROVE \E i \in DOMAIN W : x \in W[i]
      OBVIOUS
    <3>1. x = <<x[1], x[2]>> /\ x[1] \in 0 .. k.m - 1 /\ x[2] \in 0 .. k.n - 1
      BY DEF Iterations
    <3>2. PICK a \in 0 .. t1 - 1 : x[1] \in Part(k.m, a, t1)
      BY <2>1, <3>1, PartsCover DEF IsKernel
    <3>3. PICK b \in 0 .. t2 - 1 : x[2] \in Part(k.n, b, t2)
      BY <2>1, <3>1, PartsCover DEF IsKernel
    <3>4. PICK i \in DOMAIN W : i % t1 = a /\ i \div t1 = b
      BY <2>3
    <3>5. W[i] = Part(k.m, a, t1) \X Part(k.n, b, t2)
      BY <2>3, <3>4
    <3>6. <<x[1], x[2]>> \in Part(k.m, a, t1) \X Part(k.n, b, t2)
      BY <3>2, <3>3
    <3>7. QED
      BY <3>1, <3>5, <3>6
  <2>7. QED
    BY <2>3, <2>4, <2>5, <2>6 DEF W
<1>2. CASE k.strategy # "all"
  <2> DEFINE num == NumWindows(k, threads)
  <2>1. num \in Nat \ {0}
    BY NumWindowsType
  <2>2. W = [i \in 0 .. num - 1 |-> Part(k.m, i, num) \X {0}]
    BY <1>2 DEF Workloads
  <2> HIDE DEF num, W
  <2>3. Iterations(k) = (0 .. k.m - 1) \X {0} /\ k.m \in Nat
    <3>1. k.n = 1
      BY <1>2 DEF IsKernel
    <3>2. 0 .. k.n - 1 = {0}
      BY <3>1
    <3>3. QED
      BY <3>2 DEF Iterations, IsKernel
  <2>4. \A i \in DOMAIN W : i \in 0 .. num - 1 /\ W[i] = Part(k.m, i, num) \X {0}
    BY <2>2
  <2>5. \A i \in DOMAIN W : W[i] \subseteq Iterations(k)
    <3> SUFFICES ASSUME NEW i \in DOMAIN W PROVE W[i] \subseteq Iterations(k)
      OBVIOUS
    <3>1. Part(k.m, i, num) \subseteq 0 .. k.m - 1
      BY <2>1, <2>3, <2>4, PartsDisjoint
    <3>2. QED
      BY <2>3, <2>4, <3>1
  <2>6. \A i, j \in DOMAIN W : i # j => W[i] \cap W[j] = {}
    <3> SUFFICES ASSUME NEW i \in DOMAIN W, NEW j \in DOMAIN W, i # j
                 PROVE  W[i] \cap W[j] = {}
      OBVIOUS
    <3>1. Part(k.m, i, num) \cap Part(k.m, j, num) = {}
      BY <2>1, <2>3, <2>4, PartsDisjoint
    <3>2. QED
      BY <2>4, <3>1
  <2>7. \A x \in Iterations(k) : \E i \in DOMAIN W : x \in W[i]
    <3> SUFFICES ASSUME NEW x \in Iterations(k) PROVE \E i \in DOMAIN W : x \in W[i]
      OBVIOUS
    <3>1. x = <<x[1], 0>> /\ x[1] \in 0 .. k.m - 1
      BY <2>3
    <3>2. PICK i \in 0 .. num - 1 : x[1] \in Part(k.m, i, num)
      BY <2>1, <2>3, <3>1, PartsCover
    <3>3. <<x[1], 0>> \in Part(k.m, i, num) \X {0}
      BY <3>2
    <3>4. i \in DOMAIN W /\ W[i] = Part(k.m, i, num) \X {0}
      BY <2>2, <3>2
    <3>5. QED
      BY <3>1, <3>3, <3>4
  <2>8. DOMAIN W = 0 .. num - 1
    BY <2>2
  <2>9. QED
    BY <2>1, <2>5, <2>6, <2>7, <2>8 DEF W
<1>3. QED
  BY <1>1, <1>2

--------------------------------------------------------------------------------
(* The inductive invariant *)

\* A graph is in run_workloads with the scheduler's mutex.
Starting(g) == pc[g] \in {"assign", "flag", "notify"}
Holding(g) == Starting(g) \/ pc[g] \in {"run", "wait", "asleep"}

\* The variables' types; the workloads of a graph are numbered from 0, and one that is in
\* run_workloads has some.
TypingInv ==
    /\ schedulerType \in Types
    /\ owner \in [Types -> Graphs \cup {None}]
    /\ sched \in [Graphs -> Types]
    /\ scheduled \in [Graphs -> Nat]
    /\ feeder \in [Graphs -> Nat]
    /\ thread \in [Graphs -> Nat]
    /\ load \in [Graphs \cup Workers -> Nat]
    /\ pc \in [Graphs -> {"idle", "test", "set", "find", "schedule", "alone", "return", "lock",
                          "assign", "flag", "notify", "run", "wait", "asleep"}]
    /\ workerPc \in [Workers -> {"loop", "asleep", "run", "finish", "notify"}]
    /\ job \in [Workers -> Graphs \cup {None}]
    /\ waitForWork \in [Workers -> BOOLEAN]
    /\ jobComplete \in [Workers -> BOOLEAN]
    /\ workloads = [g \in Graphs |-> workloads[g]]
    /\ done = [g \in Graphs |-> done[g]]

LoadsInv ==
    \A g \in Graphs :
        /\ NumLoads(g) \in Nat
        /\ DOMAIN workloads[g] = 0 .. NumLoads(g) - 1
        /\ pc[g] = "lock" \/ Holding(g) => NumLoads(g) # 0

\* The owner of a scheduler is the one graph in its run_workloads.
OwnerInv ==
    /\ \A g \in Graphs : Holding(g) => owner[sched[g]] = g
    /\ \A s \in Types : owner[s] # None => Holding(owner[s]) /\ sched[owner[s]] = s

\* Where the loops of run_workloads over the workers are.
Placed(g) ==
    /\ Starting(g) => thread[g] < ThreadsUsed(g) - 1
    /\ pc[g] = "flag" => job[At(g)] = g
    /\ pc[g] = "asleep" => At(g) \in Workers
    /\ pc[g] = "run" => load[g] < NumLoads(g)

GraphInv == \A g \in Graphs : Placed(g)

\* A worker whose job is not complete works for the owner of its scheduler, which has
\* started it and has not waited for it yet.
Busy(w) ==
    LET g == job[w] IN
    /\ g \in Graphs
    /\ owner[w[1]] = g
    /\ w[2] < ThreadsUsed(g) - 1
    /\ pc[g] \in {"assign", "flag"} => w[2] < thread[g]
    /\ pc[g] = "notify" => w[2] <= thread[g]
    /\ pc[g] \in {"wait", "asleep"} => w[2] >= thread[g]

Flagged(w) ==
    /\ waitForWork[w] \/ Locked(w) => ~jobComplete[w]
    /\ Locked(w) => ~waitForWork[w]
    /\ ~jobComplete[w] => Busy(w)
    /\ workerPc[w] = "run" => load[w] < NumLoads(job[w])

WorkerInv == \A w \in Workers : Flagged(w)

SchedulerInv == TypingInv /\ LoadsInv /\ OwnerInv /\ GraphInv /\ WorkerInv

--------------------------------------------------------------------------------
(* Who executes which workload *)

TeamOf(g) == {w \in Workers : w[1] = sched[g]}

\* The graph's thread executes workload j, or will when the workers are started.
GraphHas(g, j) ==
    \/ Starting(g) /\ j = ThreadsUsed(g) - 1
    \/ pc[g] = "run" /\ j = load[g]

\* Worker w is still to be started.
ToStart(g, w) ==
    /\ w[2] < ThreadsUsed(g) - 1
    /\ \/ pc[g] \in {"assign", "flag"} /\ w[2] >= thread[g]
       \/ pc[g] = "notify" /\ w[2] > thread[g]

\* Worker w executes workload j, or will.
WorkerHas(g, w, j) ==
    \/ workerPc[w] = "run" /\ j = load[w]
    \/ (waitForWork[w] \/ ToStart(g, w)) /\ j = w[2]

\* Workload j of graph g has not been executed.
Pending(g, j) ==
    \/ feeder[g] <= j
    \/ GraphHas(g, j)
    \/ \E w \in TeamOf(g) : WorkerHas(g, w, j)

\* No workload is with two threads, and the feeder is past those that are with one.
Claimed(g) ==
    \A j \in Nat :
        /\ GraphHas(g, j) => j < feeder[g]
        /\ \A w \in TeamOf(g) : WorkerHas(g, w, j) =>
               /\ j < feeder[g]
               /\ ~GraphHas(g, j)
               /\ \A v \in TeamOf(g) : WorkerHas(g, v, j) => v = w

\* The workloads of a graph are the iterations of its kernel, none twice.
Tiled(g) ==
    /\ \A j \in DOMAIN workloads[g] : workloads[g][j] \subseteq DOMAIN done[g]
    /\ \A i, j \in DOMAIN workloads[g] : i # j => workloads[g][i] \cap workloads[g][j] = {}
    /\ \A x \in DOMAIN done[g] : \E j \in DOMAIN workloads[g] : x \in workloads[g][j]

\* The iterations that have been executed are those of the workloads no longer pending.
Counted(g) ==
    \A j \in DOMAIN workloads[g] : \A x \in workloads[g][j] :
        done[g][x] = IF Pending(g, j) THEN 0 ELSE 1

AllAre(g, n) == \A x \in DOMAIN done[g] : done[g][x] = n

Progress(g) ==
    /\ pc[g] = "alone" => AllAre(g, 0)
    /\ pc[g] = "return" => AllAre(g, 1)
    /\ pc[g] = "lock" => Tiled(g) /\ AllAre(g, 0)
    /\ Holding(g) => Tiled(g) /\ Claimed(g) /\ Counted(g)
    /\ pc[g] \in {"wait", "asleep"} => NumLoads(g) <= feeder[g]

ProgressInv == \A g \in Graphs : Progress(g)

--------------------------------------------------------------------------------

LEMMA WorkerFacts ==
    /\ \A w \in Workers : /\ w = <<w[1], w[2]>>
                          /\ w[1] \in Types
                          /\ w[2] \in Nat
                          /\ w[2] < NumThreads[w[1]] - 1
    /\ \A s \in Types, t \in Nat : t < NumThreads[s] - 1 <=> <<s, t>> \in Workers
BY ThreadsAssumption DEF Workers

LEMMA UsedType ==
    ASSUME TypingInv, LoadsInv, NEW g \in Graphs
    PROVE  /\ ThreadsUsed(g) \in Nat
           /\ ThreadsUsed(g) <= NumThreads[sched[g]]
           /\ ThreadsUsed(g) <= NumLoads(g)
           /\ pc[g] = "lock" \/ Holding(g) => ThreadsUsed(g) # 0
BY ThreadsAssumption DEF TypingInv, LoadsInv, ThreadsUsed, Least

\* A set of workloads that is numbered from 0 counts its numbers.
LEMMA Numbered ==
    ASSUME NEW n \in Nat
    PROVE  Cardinality(0 .. n - 1) = n
BY FS_Interval

LEMMA InitInv ==
    Init => SchedulerInv
<1> SUFFICES ASSUME Init PROVE SchedulerInv
  OBVIOUS
<1>1. TypingInv
  BY OwnAssumption DEF Init, TypingInv, Types
<1>2. LoadsInv
  <2>1. \A g \in Graphs : DOMAIN workloads[g] = 0 .. 0 - 1
    BY DEF Init
  <2>2. QED
    BY <2>1, Numbered DEF Init, LoadsInv, NumLoads, Holding, Starting
<1>3. OwnerInv
  BY DEF Init, OwnerInv, Holding, Starting
<1>4. GraphInv
  BY DEF Init, GraphInv, Placed, Starting
<1>5. WorkerInv
  BY DEF Init, WorkerInv, Flagged, Locked
<1>6. QED
  BY <1>1, <1>2, <1>3, <1>4, <1>5 DEF SchedulerInv

\* What executing workload i of graph g does to the counts.
LEMMA ExecutedCounts ==
    ASSUME TypingInv, NEW g \in Graphs, NEW i
    PROVE  Executed(g, i) = [h \in Graphs |->
               IF h = g THEN [x \in DOMAIN done[g] |->
                                 IF x \in workloads[g][i] THEN done[g][x] + 1 ELSE done[g][x]]
               ELSE done[h]]
<1> DEFINE counts == [x \in DOMAIN done[g] |->
                         IF x \in workloads[g][i] THEN done[g][x] + 1 ELSE done[g][x]]
<1>1. Executed(g, i) = [done EXCEPT ![g] = counts]
  BY DEF Executed
<1> HIDE DEF counts
<1>2. done = [h \in Graphs |-> done[h]]
  BY DEF TypingInv
<1>3. [done EXCEPT ![g] = counts] = [h \in Graphs |-> IF h = g THEN counts ELSE done[h]]
  BY <1>2
<1>4. QED
  BY <1>1, <1>3 DEF counts

LEMMA TypingStep ==
    ASSUME SchedulerInv, [Next]_vars
    PROVE  TypingInv'
<1> USE DEF SchedulerInv, TypingInv, Goto, WorkerGoto, typeVars, graphVars, workerVars, execVars
<1>1. CASE UNCHANGED vars
  BY <1>1 DEF vars
<1>2. ASSUME NEW g \in Graphs, Get(g)
      PROVE  TypingInv'
  BY <1>2, OwnAssumption DEF Get, Call, TestType, SetType, Find
<1>3. ASSUME NEW g \in Graphs, ScheduleCommon(g)
      PROVE  TypingInv'
  BY <1>3 DEF ScheduleCommon
<1>4. ASSUME NEW g \in Graphs, RunAlone(g) \/ ReturnAlone(g)
      PROVE  TypingInv'
  BY <1>4 DEF RunAlone, ReturnAlone
<1>5. ASSUME NEW g \in Graphs, Lock(g)
      PROVE  TypingInv'
  BY <1>5, UsedType DEF Lock, StartFrom, Holding
<1>6. ASSUME NEW g \in Graphs, Assign(g)
      PROVE  TypingInv'
  BY <1>6 DEF Assign
<1>7. ASSUME NEW g \in Graphs, Flag(g)
      PROVE  TypingInv'
  BY <1>7 DEF Flag
<1>8. ASSUME NEW g \in Graphs, NotifyWorker(g)
      PROVE  TypingInv'
  <2>1. ThreadsUsed(g) - 1 \in Nat
    BY <1>8, UsedType DEF NotifyWorker, Holding, Starting
  <2>2. workerPc' \in [Workers -> {"loop", "asleep", "run", "finish", "notify"}]
    BY <1>8 DEF NotifyWorker
  <2>3. thread' \in [Graphs -> Nat] /\ load' \in [Graphs \cup Workers -> Nat]
    BY <1>8, <2>1 DEF NotifyWorker, StartFrom
  <2>4. pc' \in [Graphs -> {"idle", "test", "set", "find", "schedule", "alone", "return",
                            "lock", "assign", "flag", "notify", "run", "wait", "asleep"}]
    BY <1>8 DEF NotifyWorker, StartFrom
  <2>5. QED
    BY <1>8, <2>2, <2>3, <2>4 DEF NotifyWorker
<1>9. ASSUME NEW g \in Graphs, Run(g)
      PROVE  TypingInv'
  <2>1. done' = [h \in Graphs |-> done'[h]]
    BY <1>9, ExecutedCounts DEF Run
  <2>2. QED
    BY <1>9, <2>1 DEF Run
<1>10. ASSUME NEW g \in Graphs, Wait(g)
       PROVE  TypingInv'
  BY <1>10 DEF Wait
<1>11. ASSUME NEW g \in Graphs, Return(g)
       PROVE  TypingInv'
  BY <1>11 DEF Return
<1>12. ASSUME NEW w \in Workers, Take(w)
       PROVE  TypingInv'
  BY <1>12, WorkerFacts DEF Take
<1>13. ASSUME NEW w \in Workers, Work(w)
       PROVE  TypingInv'
  <2>1. job[w] \in Graphs
    BY <1>13 DEF Work, WorkerInv, Flagged, Locked, Busy
  <2>2. done' = [h \in Graphs |-> done'[h]]
    BY <1>13, <2>1, ExecutedCounts DEF Work
  <2>3. QED
    BY <1>13, <2>1, <2>2 DEF Work
<1>14. ASSUME NEW w \in Workers, Finish(w) \/ NotifyGraph(w)
       PROVE  TypingInv'
  BY <1>14 DEF Finish, NotifyGraph, Sleepers
<1>15. CASE SpuriousWakeup
  BY <1>15 DEF SpuriousWakeup
<1>16. QED
  BY <1>1, <1>2, <1>3, <1>4, <1>5, <1>6, <1>7, <1>8, <1>9, <1>10, <1>11, <1>12, <1>13, <1>14,
     <1>15
  DEF Next, Schedule, WorkerThread

LEMMA LoadsStep ==
    ASSUME SchedulerInv, [Next]_vars
    PROVE  LoadsInv'
<1> USE DEF SchedulerInv, TypingInv, Holding, Starting, NumLoads, Goto, WorkerGoto,
            typeVars, graphVars, workerVars, execVars
<1>0. ASSUME workloads' = workloads,
             \A g \in Graphs : (pc[g] = "lock" \/ Holding(g))' => pc[g] = "lock" \/ Holding(g)
      PROVE  LoadsInv'
  BY <1>0 DEF LoadsInv
<1>1. CASE UNCHANGED vars
  BY <1>0, <1>1 DEF vars
<1>2. ASSUME NEW g \in Graphs, Get(g)
      PROVE  LoadsInv'
  BY <1>0, <1>2 DEF Get, Call, TestType, SetType, Find
<1>3. ASSUME NEW g \in Graphs, ScheduleCommon(g)
      PROVE  LoadsInv'
  <2>1. ASSUME workloads' = workloads, pc'[g] \in {"idle", "alone"},
               \A h \in Graphs \ {g} : pc'[h] = pc[h]
        PROVE  LoadsInv'
    BY <1>0, <2>1
  <2>2. ASSUME NEW k \in Kernels, k.m # 0,
               workloads' = [workloads EXCEPT ![g] = Workloads(k, NumThreads[sched[g]])],
               pc' = [pc EXCEPT ![g] = "lock"]
        PROVE  LoadsInv'
    <3>1. IsKernel(k) /\ NumThreads[sched[g]] \in Nat \ {0}
      BY <2>2, KernelsAssumption, ThreadsAssumption DEF IsKernel
    <3>2. PICK n \in Nat \ {0} : DOMAIN Workloads(k, NumThreads[sched[g]]) = 0 .. n - 1
      BY <3>1, WorkloadsTile
    <3>3. DOMAIN workloads'[g] = 0 .. n - 1 /\ Cardinality(DOMAIN workloads'[g]) = n
      BY <2>2, <3>2, Numbered
    <3>4. \A h \in Graphs \ {g} : workloads'[h] = workloads[h] /\ pc'[h] = pc[h]
      BY <2>2
    <3>5. QED
      BY <3>3, <3>4 DEF LoadsInv
  <2>3. PICK k \in Kernels :
           IF k.m = 0 THEN Goto(g, "idle") /\ UNCHANGED <<workloads, done>>
           ELSE IF RunsAlone(k, NumThreads[sched[g]])
                  THEN Goto(g, "alone") /\ UNCHANGED workloads
                  ELSE /\ Goto(g, "lock")
                       /\ workloads' = [workloads EXCEPT
                                          ![g] = Workloads(k, NumThreads[sched[g]])]
    BY <1>3 DEF ScheduleCommon
  <2>4. QED
    BY <2>1, <2>2, <2>3
<1>4. ASSUME NEW g \in Graphs, RunAlone(g) \/ ReturnAlone(g)
      PROVE  LoadsInv'
  BY <1>0, <1>4 DEF RunAlone, ReturnAlone
<1>5. ASSUME NEW g \in Graphs, Lock(g)
      PROVE  LoadsInv'
  BY <1>0, <1>5 DEF Lock, StartFrom
<1>6. ASSUME NEW g \in Graphs, Assign(g) \/ Flag(g)
      PROVE  LoadsInv'
  BY <1>0, <1>6 DEF Assign, Flag
<1>7. ASSUME NEW g \in Graphs, NotifyWorker(g)
      PROVE  LoadsInv'
  BY <1>0, <1>7 DEF NotifyWorker, StartFrom
<1>8. ASSUME NEW g \in Graphs, Run(g)
      PROVE  LoadsInv'
  BY <1>0, <1>8 DEF Run
<1>9. ASSUME NEW g \in Graphs, Wait(g)
      PROVE  LoadsInv'
  BY <1>0, <1>9 DEF Wait
<1>10. ASSUME NEW g \in Graphs, Return(g)
       PROVE  LoadsInv'
  <2>1. DOMAIN workloads'[g] = 0 .. 0 - 1 /\ Cardinality(DOMAIN workloads'[g]) = 0
    <3>1. workloads'[g] = <<>>
      BY <1>10 DEF Return
    <3>2. DOMAIN << >> = {} /\ 0 .. 0 - 1 = {}
      OBVIOUS
    <3>3. QED
      BY <3>1, <3>2, FS_EmptySet
  <2>2. pc'[g] = "idle" /\ \A h \in Graphs \ {g} : workloads'[h] = workloads[h] /\ pc'[h] = pc[h]
    BY <1>10 DEF Return
  <2>3. NumLoads(g)' = 0
    BY <2>1
  <2>4. DOMAIN workloads'[g] = 0 .. NumLoads(g)' - 1
    BY <2>1, <2>3
  <2>5. ASSUME NEW h \in Graphs \ {g}
        PROVE  /\ NumLoads(h)' \in Nat
               /\ DOMAIN workloads'[h] = 0 .. NumLoads(h)' - 1
               /\ (pc[h] = "lock" \/ Holding(h))' => NumLoads(h)' # 0
    BY <2>2 DEF LoadsInv
  <2>6. QED
    BY <2>2, <2>3, <2>4, <2>5 DEF LoadsInv
<1>11. ASSUME NEW w \in Workers, Take(w) \/ Work(w) \/ Finish(w)
       PROVE  LoadsInv'
  BY <1>0, <1>11 DEF Take, Work, Finish
<1>12. ASSUME NEW w \in Workers, NotifyGraph(w)
       PROVE  LoadsInv'
  BY <1>0, <1>12 DEF NotifyGraph, Sleepers
<1>13. CASE SpuriousWakeup
  BY <1>0, <1>13 DEF SpuriousWakeup
<1>14. QED
  BY <1>1, <1>2, <1>3, <1>4, <1>5, <1>6, <1>7, <1>8, <1>9, <1>10, <1>11, <1>12, <1>13
  DEF Next, Schedule, WorkerThread

LEMMA OwnerStep ==
    ASSUME SchedulerInv, [Next]_vars
    PROVE  OwnerInv'
<1> USE DEF SchedulerInv, TypingInv, Holding, Starting, Goto, WorkerGoto,
            typeVars, graphVars, workerVars, execVars
<1>0. ASSUME owner' = owner, \A g \in Graphs : Holding(g)' <=> Holding(g),
             \A g \in Graphs : Holding(g) => sched'[g] = sched[g]
      PROVE  OwnerInv'
  BY <1>0 DEF OwnerInv
<1>1. CASE UNCHANGED vars
  BY <1>0, <1>1 DEF vars
<1>2. ASSUME NEW g \in Graphs, Get(g)
      PROVE  OwnerInv'
  BY <1>0, <1>2 DEF Get, Call, TestType, SetType, Find
<1>3. ASSUME NEW g \in Graphs, ScheduleCommon(g)
      PROVE  OwnerInv'
  BY <1>0, <1>3 DEF ScheduleCommon
<1>4. ASSUME NEW g \in Graphs, RunAlone(g) \/ ReturnAlone(g)
      PROVE  OwnerInv'
  BY <1>0, <1>4 DEF RunAlone, ReturnAlone
<1>5. ASSUME NEW g \in Graphs, Lock(g)
      PROVE  OwnerInv'
  <2>1. /\ owner' = [owner EXCEPT ![sched[g]] = g]
        /\ sched' = sched
        /\ owner[sched[g]] = None
        /\ Holding(g)'
        /\ \A h \in Graphs \ {g} : pc'[h] = pc[h]
    BY <1>5 DEF Lock, StartFrom
  <2>2. QED
    BY <2>1, NoneAssumption DEF OwnerInv
<1>6. ASSUME NEW g \in Graphs, Assign(g) \/ Flag(g)
      PROVE  OwnerInv'
  BY <1>0, <1>6 DEF Assign, Flag
<1>7. ASSUME NEW g \in Graphs, NotifyWorker(g)
      PROVE  OwnerInv'
  BY <1>0, <1>7 DEF NotifyWorker, StartFrom
<1>8. ASSUME NEW g \in Graphs, Run(g)
      PROVE  OwnerInv'
  BY <1>0, <1>8 DEF Run
<1>9. ASSUME NEW g \in Graphs, Wait(g)
      PROVE  OwnerInv'
  BY <1>0, <1>9 DEF Wait
<1>10. ASSUME NEW g \in Graphs, Return(g)
       PROVE  OwnerInv'
  <2>1. /\ owner' = [owner EXCEPT ![sched[g]] = None]
        /\ sched' = sched
        /\ owner[sched[g]] = g
        /\ ~Holding(g)'
        /\ \A h \in Graphs \ {g} : pc'[h] = pc[h]
    BY <1>10 DEF Return, OwnerInv
  <2>2. QED
    BY <2>1 DEF OwnerInv
<1>11. ASSUME NEW w \in Workers, Take(w) \/ Work(w) \/ Finish(w)
       PROVE  OwnerInv'
  BY <1>0, <1>11 DEF Take, Work, Finish
<1>12. ASSUME NEW w \in Workers, NotifyGraph(w)
       PROVE  OwnerInv'
  BY <1>0, <1>12 DEF NotifyGraph, Sleepers
<1>13. CASE SpuriousWakeup
  BY <1>0, <1>13 DEF SpuriousWakeup
<1>14. QED
  BY <1>1, <1>2, <1>3, <1>4, <1>5, <1>6, <1>7, <1>8, <1>9, <1>10, <1>11, <1>12, <1>13
  DEF Next, Schedule, WorkerThread

\* Two graphs are not in run_workloads of one scheduler.
LEMMA OneOwner ==
    ASSUME SchedulerInv, NEW g \in Graphs, Holding(g), NEW h \in Graphs, Holding(h),
           sched[g] = sched[h]
    PROVE  g = h
BY DEF SchedulerInv, OwnerInv

\* The worker that a graph is about to start.
LEMMA StartedWorker ==
    ASSUME SchedulerInv, NEW g \in Graphs, Starting(g)
    PROVE  At(g) \in Workers
<1>1. thread[g] < ThreadsUsed(g) - 1
  BY DEF SchedulerInv, GraphInv, Placed
<1>2. ThreadsUsed(g) \in Nat /\ ThreadsUsed(g) <= NumThreads[sched[g]]
  BY UsedType DEF SchedulerInv
<1>3. thread[g] \in Nat /\ sched[g] \in Types /\ NumThreads[sched[g]] \in Nat
  BY ThreadsAssumption DEF SchedulerInv, TypingInv
<1>4. thread[g] < NumThreads[sched[g]] - 1
  BY <1>1, <1>2, <1>3
<1>5. QED
  BY <1>3, <1>4, WorkerFacts DEF At

LEMMA GraphStep ==
    ASSUME SchedulerInv, [Next]_vars
    PROVE  GraphInv'
<1> USE DEF SchedulerInv, TypingInv, Holding, Starting, Goto, WorkerGoto,
            typeVars, graphVars, workerVars, execVars
\* Graphs that a step leaves where they are.
<1>0. ASSUME NEW h \in Graphs, pc'[h] = pc[h], thread'[h] = thread[h], sched'[h] = sched[h],
             workloads'[h] = workloads[h], load'[h] = load[h],
             pc[h] = "flag" => job'[At(h)] = job[At(h)]
      PROVE  Placed(h)'
  BY <1>0 DEF GraphInv, Placed, ThreadsUsed, NumLoads, At
<1>1. CASE UNCHANGED vars
  BY <1>0, <1>1 DEF vars, GraphInv
<1>2. ASSUME NEW g \in Graphs, Get(g)
      PROVE  GraphInv'
  <2>1. pc'[g] \in {"test", "set", "find", "schedule"}
    BY <1>2 DEF Get, Call, TestType, SetType, Find
  <2>2. \A h \in Graphs \ {g} : Placed(h)'
    BY <1>0, <1>2 DEF Get, Call, TestType, SetType, Find
  <2>3. QED
    BY <2>1, <2>2 DEF GraphInv, Placed
<1>3. ASSUME NEW g \in Graphs, ScheduleCommon(g)
      PROVE  GraphInv'
  <2>1. pc'[g] \in {"idle", "alone", "lock"}
    BY <1>3 DEF ScheduleCommon
  <2>2. \A h \in Graphs \ {g} : Placed(h)'
    BY <1>0, <1>3 DEF ScheduleCommon
  <2>3. QED
    BY <2>1, <2>2 DEF GraphInv, Placed
<1>4. ASSUME NEW g \in Graphs, RunAlone(g) \/ ReturnAlone(g)
      PROVE  GraphInv'
  <2>1. pc'[g] \in {"idle", "return"}
    BY <1>4 DEF RunAlone, ReturnAlone
  <2>2. \A h \in Graphs \ {g} : Placed(h)'
    BY <1>0, <1>4 DEF RunAlone, ReturnAlone
  <2>3. QED
    BY <2>1, <2>2 DEF GraphInv, Placed
\* Where a graph starts the next worker or runs its own workload.
<1>s. ASSUME NEW g \in Graphs, NEW t \in Nat, StartFrom(g, t), pc[g] = "lock" \/ Holding(g),
             sched' = sched, workloads' = workloads
      PROVE  /\ Placed(g)'
             /\ \A h \in Graphs \ {g} :
                    pc'[h] = pc[h] /\ thread'[h] = thread[h] /\ load'[h] = load[h]
  <2>1. ThreadsUsed(g)' = ThreadsUsed(g) /\ NumLoads(g)' = NumLoads(g)
    BY <1>s DEF ThreadsUsed, NumLoads
  <2>2. /\ ThreadsUsed(g) \in Nat \ {0}
        /\ ThreadsUsed(g) <= NumLoads(g)
        /\ NumLoads(g) \in Nat
    BY <1>s, UsedType DEF LoadsInv
  <2>3. CASE t < ThreadsUsed(g) - 1
    BY <1>s, <2>1, <2>3 DEF StartFrom, Placed
  <2>4. CASE ~(t < ThreadsUsed(g) - 1)
    <3>1. pc'[g] = "run" /\ load'[g] = ThreadsUsed(g) - 1
      BY <1>s, <2>4 DEF StartFrom
    <3>2. \A h \in Graphs \ {g} :
              pc'[h] = pc[h] /\ thread'[h] = thread[h] /\ load'[h] = load[h]
      BY <1>s, <2>4 DEF StartFrom
    <3>3. QED
      BY <2>1, <2>2, <3>1, <3>2 DEF Placed
  <2>5. QED
    BY <2>3, <2>4
<1>5. ASSUME NEW g \in Graphs, Lock(g)
      PROVE  GraphInv'
  <2>1. StartFrom(g, 0) /\ pc[g] = "lock" /\ sched' = sched /\ workloads' = workloads
        /\ job' = job
    BY <1>5 DEF Lock
  <2>2. QED
    BY <1>0, <1>s, <2>1 DEF GraphInv
<1>6. ASSUME NEW g \in Graphs, Assign(g)
      PROVE  GraphInv'
  <2>1. At(g) \in Workers
    BY <1>6, StartedWorker DEF Assign
  <2>2. Placed(g)'
    BY <1>6, <2>1 DEF Assign, GraphInv, Placed, At, ThreadsUsed, NumLoads
  <2>3. ASSUME NEW h \in Graphs \ {g}
        PROVE  Placed(h)'
    <3>1. Holding(h) => At(h) # At(g)
      BY <1>6, OneOwner DEF Assign, At
    <3>2. QED
      BY <1>0, <1>6, <3>1 DEF Assign
  <2>4. QED
    BY <2>2, <2>3 DEF GraphInv
<1>7. ASSUME NEW g \in Graphs, Flag(g)
      PROVE  GraphInv'
  <2>1. Placed(g)'
    BY <1>7 DEF Flag, GraphInv, Placed, At, ThreadsUsed, NumLoads
  <2>2. QED
    BY <1>0, <1>7, <2>1 DEF Flag, GraphInv
<1>8. ASSUME NEW g \in Graphs, NotifyWorker(g)
      PROVE  GraphInv'
  <2>1. StartFrom(g, thread[g] + 1) /\ Holding(g) /\ sched' = sched /\ workloads' = workloads
        /\ job' = job
    BY <1>8 DEF NotifyWorker
  <2>2. QED
    BY <1>0, <1>s, <2>1 DEF GraphInv
<1>9. ASSUME NEW g \in Graphs, Run(g)
      PROVE  GraphInv'
  <2>1. Placed(g)'
    <3>1. CASE Feeds(g)
      BY <1>9, <3>1 DEF Run, Feeds, Placed, NumLoads
    <3>2. CASE ~Feeds(g)
      BY <1>9, <3>2 DEF Run, Placed
    <3>3. QED
      BY <3>1, <3>2
  <2>2. \A h \in Graphs \ {g} : Placed(h)'
    BY <1>0, <1>9 DEF Run
  <2>3. QED
    BY <2>1, <2>2 DEF GraphInv
<1>10. ASSUME NEW g \in Graphs, Wait(g)
       PROVE  GraphInv'
  <2>1. Placed(g)'
    BY <1>10 DEF Wait, Placed, At
  <2>2. \A h \in Graphs \ {g} : Placed(h)'
    BY <1>0, <1>10 DEF Wait
  <2>3. QED
    BY <2>1, <2>2 DEF GraphInv
<1>11. ASSUME NEW g \in Graphs, Return(g)
       PROVE  GraphInv'
  <2>1. pc'[g] = "idle"
    BY <1>11 DEF Return
  <2>2. \A h \in Graphs \ {g} : Placed(h)'
    BY <1>0, <1>11 DEF Return
  <2>3. QED
    BY <2>1, <2>2 DEF GraphInv, Placed
<1>12. ASSUME NEW w \in Workers, Take(w) \/ Work(w)
       PROVE  GraphInv'
  <2>1. \A h \in Graphs : load'[h] = load[h]
    BY <1>12, DisjointAssumption DEF Take, Work
  <2>2. QED
    BY <1>0, <1>12, <2>1 DEF Take, Work, GraphInv
<1>13. ASSUME NEW w \in Workers, Finish(w)
       PROVE  GraphInv'
  BY <1>0, <1>13 DEF Finish, GraphInv
<1>14. ASSUME NEW g \in Graphs, pc[g] = "asleep", pc' = [pc EXCEPT ![g] = "wait"],
              thread' = thread, sched' = sched, workloads' = workloads, load' = load, job' = job
       PROVE  GraphInv'
  <2>1. Placed(g)'
    BY <1>14 DEF Placed
  <2>2. \A h \in Graphs \ {g} : Placed(h)'
    BY <1>0, <1>14
  <2>3. QED
    BY <2>1, <2>2 DEF GraphInv
<1>15. ASSUME NEW w \in Workers, NotifyGraph(w)
       PROVE  GraphInv'
  BY <1>0, <1>14, <1>15 DEF NotifyGraph, Sleepers, GraphInv
<1>16. CASE SpuriousWakeup
  BY <1>0, <1>14, <1>16 DEF SpuriousWakeup, GraphInv
<1>17. QED
  BY <1>1, <1>2, <1>3, <1>4, <1>5, <1>6, <1>7, <1>8, <1>9, <1>10, <1>11, <1>12, <1>13, <1>15,
     <1>16
  DEF Next, Schedule, WorkerThread

LEMMA BusyOwner ==
    ASSUME SchedulerInv, NEW w \in Workers, Busy(w)
    PROVE  Holding(job[w]) /\ sched[job[w]] = w[1] /\ job[w] \in Graphs
BY NoneAssumption, WorkerFacts DEF SchedulerInv, TypingInv, OwnerInv, Busy

\* The worker that a graph is about to start has completed its last job.
LEMMA StartedComplete ==
    ASSUME SchedulerInv, NEW g \in Graphs, pc[g] \in {"assign", "flag"}
    PROVE  /\ jobComplete[At(g)]
           /\ ~waitForWork[At(g)]
           /\ ~Locked(At(g))
<1>1. At(g) \in Workers /\ At(g)[1] = sched[g] /\ At(g)[2] = thread[g] /\ thread[g] \in Nat
  BY StartedWorker DEF Starting, At, SchedulerInv, TypingInv
<1>2. owner[sched[g]] = g
  BY DEF SchedulerInv, OwnerInv, Holding, Starting
<1>3. ~Busy(At(g))
  BY <1>1, <1>2 DEF Busy
<1>4. QED
  BY <1>1, <1>3 DEF SchedulerInv, WorkerInv, Flagged

LEMMA WorkerStep ==
    ASSUME SchedulerInv, [Next]_vars
    PROVE  WorkerInv'
<1> USE DEF SchedulerInv, TypingInv, Holding, Starting, Goto, WorkerGoto,
            typeVars, graphVars, workerVars, execVars
\* Workers that a step leaves where they are, with a graph that may go on.
<1>0. ASSUME NEW w \in Workers, jobComplete'[w] = jobComplete[w], waitForWork'[w] = waitForWork[w],
             job'[w] = job[w], load'[w] = load[w], Locked(w)' <=> Locked(w),
             workerPc'[w] = "run" <=> workerPc[w] = "run",
             Busy(w) => Busy(w)' /\ workloads'[job[w]] = workloads[job[w]]
      PROVE  Flagged(w)'
  <2>1. Locked(w) => ~jobComplete[w]
    BY DEF WorkerInv, Flagged
  <2>2. workerPc[w] = "run" => workloads'[job[w]] = workloads[job[w]]
    BY <1>0, <2>1 DEF WorkerInv, Flagged, Locked
  <2>3. QED
    BY <1>0, <2>2 DEF WorkerInv, Flagged, NumLoads
\* Graphs that a step leaves where they are.
<1>b. ASSUME NEW w \in Workers, Busy(w), job'[w] = job[w], NEW h, h = job[w],
             owner'[w[1]] = owner[w[1]], sched'[h] = sched[h], workloads'[h] = workloads[h],
             pc'[h] = pc[h], thread'[h] = thread[h]
      PROVE  Busy(w)'
  BY <1>b DEF Busy, ThreadsUsed, NumLoads
\* Steps of a graph that is not in run_workloads.
<1>h. ASSUME NEW g \in Graphs, ~Holding(g), owner' = owner, UNCHANGED <<workerVars, thread>>,
             \A h \in Graphs \ {g} :
                 sched'[h] = sched[h] /\ workloads'[h] = workloads[h] /\ pc'[h] = pc[h],
             \A w \in Workers : load'[w] = load[w]
      PROVE  WorkerInv'
  <2>1. ASSUME NEW w \in Workers, Busy(w)
        PROVE  Busy(w)' /\ workloads'[job[w]] = workloads[job[w]]
    <3>1. job[w] \in Graphs \ {g}
      BY <1>h, <2>1, BusyOwner
    <3>2. QED
      BY <1>h, <1>b, <2>1, <3>1
  <2>2. QED
    BY <1>0, <1>h, <2>1 DEF WorkerInv, Locked
<1>1. CASE UNCHANGED vars
  BY <1>0, <1>b, <1>1 DEF vars, WorkerInv, Locked
<1>2. ASSUME NEW g \in Graphs, Get(g)
      PROVE  WorkerInv'
  BY <1>h, <1>2 DEF Get, Call, TestType, SetType, Find
<1>3. ASSUME NEW g \in Graphs, ScheduleCommon(g)
      PROVE  WorkerInv'
  <2>1. /\ ~Holding(g) /\ owner' = owner /\ UNCHANGED <<workerVars, thread, sched, load>>
        /\ \A h \in Graphs \ {g} : workloads'[h] = workloads[h] /\ pc'[h] = pc[h]
    BY <1>3 DEF ScheduleCommon
  <2>2. QED
    BY <1>h, <2>1
<1>4. ASSUME NEW g \in Graphs, RunAlone(g) \/ ReturnAlone(g)
      PROVE  WorkerInv'
  BY <1>h, <1>4 DEF RunAlone, ReturnAlone
<1>5. ASSUME NEW g \in Graphs, Lock(g)
      PROVE  WorkerInv'
  <2>1. /\ ~Holding(g) /\ UNCHANGED <<workerVars, sched, workloads>>
        /\ owner[sched[g]] = None
        /\ owner' = [owner EXCEPT ![sched[g]] = g]
        /\ \A h \in Graphs \ {g} : pc'[h] = pc[h] /\ thread'[h] = thread[h]
        /\ \A w \in Workers : load'[w] = load[w]
    BY <1>5, DisjointAssumption DEF Lock, StartFrom
  <2>2. ASSUME NEW w \in Workers, Busy(w)
        PROVE  Busy(w)'
    <3>1. job[w] \in Graphs \ {g}
      BY <2>1, <2>2, BusyOwner
    <3>2. owner'[w[1]] = owner[w[1]]
      BY <2>1, <2>2, WorkerFacts, NoneAssumption DEF Busy
    <3>3. QED
      BY <1>b, <2>1, <2>2, <3>1, <3>2
  <2>3. QED
    BY <1>0, <2>1, <2>2 DEF WorkerInv, Locked
<1>6. ASSUME NEW g \in Graphs, Assign(g)
      PROVE  WorkerInv'
  <2>1. /\ UNCHANGED <<typeVars, graphVars, workerPc, waitForWork, jobComplete, load, owner, thread>>
        /\ job' = [job EXCEPT ![At(g)] = g]
        /\ pc[g] = "assign" /\ pc' = [pc EXCEPT ![g] = "flag"]
    BY <1>6 DEF Assign
  <2>2. ASSUME NEW w \in Workers, w = At(g)
        PROVE  Flagged(w)'
    <3>1. jobComplete[w] /\ ~waitForWork[w] /\ ~Locked(w)
      BY <2>1, <2>2, StartedComplete
    <3>2. QED
      BY <2>1, <3>1 DEF Flagged, Locked
  <2>3. ASSUME NEW w \in Workers, w # At(g)
        PROVE  Flagged(w)'
    <3>1. job'[w] = job[w]
      BY <2>1, <2>3
    <3>2. Busy(w) => Busy(w)'
      BY <2>1, <3>1 DEF Busy, ThreadsUsed, NumLoads
    <3>3. QED
      BY <1>0, <2>1, <3>1, <3>2 DEF Locked
  <2>4. QED
    BY <2>2, <2>3 DEF WorkerInv
<1>7. ASSUME NEW g \in Graphs, Flag(g)
      PROVE  WorkerInv'
  <2>1. /\ UNCHANGED <<typeVars, graphVars, workerPc, job, load, owner, thread>>
        /\ waitForWork' = [waitForWork EXCEPT ![At(g)] = TRUE]
        /\ jobComplete' = [jobComplete EXCEPT ![At(g)] = FALSE]
        /\ pc[g] = "flag" /\ pc' = [pc EXCEPT ![g] = "notify"]
        /\ ~Locked(At(g))
    BY <1>7 DEF Flag
  <2>2. At(g) \in Workers /\ At(g)[1] = sched[g] /\ At(g)[2] = thread[g] /\ thread[g] \in Nat
    BY <2>1, StartedWorker DEF At
  <2>3. ASSUME NEW w \in Workers, w = At(g)
        PROVE  Flagged(w)'
    <3>1. job[At(g)] = g /\ owner[sched[g]] = g /\ thread[g] < ThreadsUsed(g) - 1
      BY <2>1 DEF GraphInv, Placed, OwnerInv
    <3>2. Busy(w)'
      BY <2>1, <2>2, <2>3, <3>1 DEF Busy, ThreadsUsed, NumLoads
    <3>3. QED
      BY <2>1, <2>3, <3>2 DEF Flagged, Locked
  <2>4. ASSUME NEW w \in Workers, w # At(g)
        PROVE  Flagged(w)'
    <3>1. w[2] \in Nat
      BY WorkerFacts
    <3>2. Busy(w) => Busy(w)'
      BY <2>1, <3>1 DEF Busy, ThreadsUsed, NumLoads
    <3>3. QED
      BY <1>0, <2>1, <2>4, <3>2 DEF Locked
  <2>5. QED
    BY <2>3, <2>4 DEF WorkerInv
<1>8. ASSUME NEW g \in Graphs, NotifyWorker(g)
      PROVE  WorkerInv'
  <2>1. /\ UNCHANGED <<typeVars, graphVars, job, waitForWork, jobComplete, owner>>
        /\ workerPc' = [workerPc EXCEPT ![At(g)] = IF @ = "asleep" THEN "loop" ELSE @]
        /\ pc[g] = "notify" /\ thread' = [thread EXCEPT ![g] = thread[g] + 1]
        /\ pc'[g] \in {"assign", "run"}
        /\ \A h \in Graphs \ {g} : pc'[h] = pc[h]
        /\ \A w \in Workers : load'[w] = load[w]
    BY <1>8, DisjointAssumption DEF NotifyWorker, StartFrom
  <2>2. ASSUME NEW w \in Workers, Busy(w)
        PROVE  Busy(w)'
    <3>1. w[2] \in Nat /\ thread[g] \in Nat
      BY WorkerFacts
    <3>2. CASE job[w] = g
      BY <2>1, <2>2, <3>1, <3>2 DEF Busy, ThreadsUsed, NumLoads
    <3>3. CASE job[w] # g
      BY <1>b, <2>1, <2>2, <3>3 DEF Busy
    <3>4. QED
      BY <3>2, <3>3
  <2>3. ASSUME NEW w \in Workers
        PROVE  (Locked(w)' <=> Locked(w)) /\ (workerPc'[w] = "run" <=> workerPc[w] = "run")
    BY <2>1 DEF Locked
  <2>4. QED
    BY <1>0, <2>1, <2>2, <2>3 DEF WorkerInv
<1>9. ASSUME NEW g \in Graphs, Run(g)
      PROVE  WorkerInv'
  <2>1. /\ UNCHANGED <<typeVars, graphVars, workerVars, owner>>
        /\ pc[g] = "run"
        /\ pc'[g] = "run" \/ (pc'[g] = "wait" /\ thread'[g] = 0)
        /\ \A h \in Graphs \ {g} : pc'[h] = pc[h] /\ thread'[h] = thread[h]
        /\ \A w \in Workers : load'[w] = load[w]
    BY <1>9, DisjointAssumption DEF Run
  <2>2. ASSUME NEW w \in Workers, Busy(w)
        PROVE  Busy(w)'
    <3>1. w[2] \in Nat
      BY WorkerFacts
    <3>2. CASE job[w] = g
      BY <2>1, <2>2, <3>1, <3>2 DEF Busy, ThreadsUsed, NumLoads
    <3>3. CASE job[w] # g
      BY <1>b, <2>1, <2>2, <3>3 DEF Busy
    <3>4. QED
      BY <3>2, <3>3
  <2>3. QED
    BY <1>0, <2>1, <2>2 DEF WorkerInv, Locked
<1>10. ASSUME NEW g \in Graphs, Wait(g)
       PROVE  WorkerInv'
  <2>1. /\ UNCHANGED <<typeVars, graphVars, workerVars, load, owner>>
        /\ pc[g] = "wait" /\ At(g) \in Workers
        /\ \/ jobComplete[At(g)] /\ pc' = pc /\ thread' = [thread EXCEPT ![g] = thread[g] + 1]
           \/ thread' = thread /\ pc' = [pc EXCEPT ![g] = "asleep"]
    BY <1>10 DEF Wait
  <2>2. ASSUME NEW w \in Workers, ~jobComplete[w]
        PROVE  Busy(w)'
    <3>1. w[2] \in Nat /\ thread[g] \in Nat /\ w = <<w[1], w[2]>>
      BY WorkerFacts
    <3>2. Busy(w)
      BY <2>2 DEF WorkerInv, Flagged
    <3>3. CASE job[w] = g
      <4>1. w[1] = sched[g] /\ thread[g] <= w[2]
        BY <2>1, <3>2, <3>3, BusyOwner DEF Busy
      <4>2. jobComplete[At(g)] => w[2] # thread[g]
        BY <2>2, <3>1, <4>1 DEF At
      <4>3. thread'[g] <= w[2]
        BY <2>1, <3>1, <4>1, <4>2
      <4>4. pc'[g] \in {"wait", "asleep"}
        BY <2>1
      <4>5. QED
        BY <2>1, <3>2, <3>3, <4>3, <4>4 DEF Busy, ThreadsUsed, NumLoads
    <3>4. CASE job[w] # g
      BY <1>b, <2>1, <3>2, <3>4 DEF Busy
    <3>5. QED
      BY <3>3, <3>4
  <2>3. QED
    BY <2>1, <2>2 DEF WorkerInv, Flagged, Locked, NumLoads
<1>11. ASSUME NEW g \in Graphs, Return(g)
       PROVE  WorkerInv'
  <2>1. /\ UNCHANGED <<typeVars, workerVars>>
        /\ pc[g] = "wait" /\ At(g) \notin Workers
        /\ owner' = [owner EXCEPT ![sched[g]] = None]
        /\ \A h \in Graphs \ {g} :
               pc'[h] = pc[h] /\ thread'[h] = thread[h] /\ workloads'[h] = workloads[h]
        /\ \A w \in Workers : load'[w] = load[w]
    BY <1>11, DisjointAssumption DEF Return
  <2>2. ASSUME NEW w \in Workers, Busy(w)
        PROVE  Busy(w)' /\ workloads'[job[w]] = workloads[job[w]]
    <3>1. /\ w[2] \in Nat /\ w[2] < NumThreads[w[1]] - 1 /\ thread[g] \in Nat
          /\ NumThreads[w[1]] \in Nat /\ w[1] \in Types
      BY WorkerFacts, ThreadsAssumption
    <3>2. w[1] # sched[g]
      <4>1. SUFFICES ASSUME w[1] = sched[g] PROVE FALSE
        OBVIOUS
      <4>2. job[w] = g
        BY <2>1, <2>2, <4>1 DEF Busy, OwnerInv
      <4>3. thread[g] <= w[2]
        BY <2>1, <2>2, <4>2 DEF Busy
      <4>4. thread[g] < NumThreads[sched[g]] - 1
        BY <3>1, <4>1, <4>3
      <4>5. QED
        BY <2>1, <3>1, <4>1, <4>4, WorkerFacts DEF At
    <3>3. job[w] # g /\ owner'[w[1]] = owner[w[1]] /\ job[w] \in Graphs
      BY <2>1, <2>2, <3>1, <3>2, BusyOwner
    <3>4. QED
      BY <1>b, <2>1, <2>2, <3>3
  <2>3. QED
    BY <1>0, <2>1, <2>2 DEF WorkerInv, Locked
\* Steps of a worker, whose graphs stay where they are.
<1>w. ASSUME NEW w \in Workers, UNCHANGED <<typeVars, graphVars, job, owner, pc, thread>>,
             \A v \in Workers \ {w} :
                 /\ workerPc'[v] = workerPc[v] /\ waitForWork'[v] = waitForWork[v]
                 /\ jobComplete'[v] = jobComplete[v] /\ load'[v] = load[v]
      PROVE  /\ \A v \in Workers \ {w} : Flagged(v)'
             /\ Busy(w) => Busy(w)'
  BY <1>0, <1>b, <1>w DEF Locked
<1>12. ASSUME NEW w \in Workers, Take(w)
       PROVE  WorkerInv'
  <2>1. \A v \in Workers \ {w} : Flagged(v)'
    BY <1>w, <1>12 DEF Take
  <2>2. CASE waitForWork[w]
    <3>1. /\ waitForWork' = [waitForWork EXCEPT ![w] = FALSE]
          /\ load'[w] = w[2] /\ workerPc'[w] = "run"
          /\ UNCHANGED <<workloads, job, jobComplete>>
      BY <1>12, <2>2 DEF Take
    <3>2. Busy(w) /\ ~jobComplete[w]
      BY <2>2 DEF WorkerInv, Flagged
    <3>3. Busy(w)'
      BY <1>w, <1>12, <3>2 DEF Take
    <3>4. w[2] < NumLoads(job[w])
      <4>1. /\ job[w] \in Graphs /\ w[2] < ThreadsUsed(job[w]) - 1
            /\ w[2] \in Nat
        BY <3>2, WorkerFacts DEF Busy
      <4>2. /\ ThreadsUsed(job[w]) \in Nat /\ ThreadsUsed(job[w]) <= NumLoads(job[w])
            /\ NumLoads(job[w]) \in Nat
        BY <4>1, UsedType DEF LoadsInv
      <4>3. QED
        BY <4>1, <4>2
    <3>5. Flagged(w)'
      BY <3>1, <3>2, <3>3, <3>4 DEF Flagged, Locked, NumLoads
    <3>6. QED
      BY <2>1, <3>5 DEF WorkerInv
  <2>3. CASE ~waitForWork[w]
    <3>1. workerPc'[w] = "asleep" /\ UNCHANGED <<workloads, job, jobComplete, waitForWork, load>>
      BY <1>12, <2>3 DEF Take
    <3>2. Busy(w) => Busy(w)'
      BY <1>w, <1>12 DEF Take
    <3>3. Flagged(w)'
      BY <3>1, <3>2 DEF WorkerInv, Flagged, Locked
    <3>4. QED
      BY <2>1, <3>3 DEF WorkerInv
  <2>4. QED
    BY <2>2, <2>3
<1>13. ASSUME NEW w \in Workers, Work(w)
       PROVE  WorkerInv'
  <2>1. \A v \in Workers \ {w} : Flagged(v)'
    BY <1>w, <1>13 DEF Work
  <2>2. Busy(w) /\ ~jobComplete[w] /\ ~waitForWork[w]
    BY <1>13 DEF Work, WorkerInv, Flagged, Locked
  <2>3. Busy(w)'
    BY <1>w, <1>13, <2>2 DEF Work
  <2>4. UNCHANGED <<workloads, job, jobComplete, waitForWork>>
    BY <1>13 DEF Work
  <2>5. CASE Feeds(job[w])
    <3>1. workerPc'[w] = "run" /\ load'[w] = feeder[job[w]]
      BY <1>13, <2>5 DEF Work
    <3>2. load'[w] < NumLoads(job[w])'
      BY <2>4, <2>5, <3>1 DEF Feeds, NumLoads
    <3>3. Flagged(w)'
      BY <2>2, <2>3, <2>4, <3>1, <3>2 DEF Flagged, Locked
    <3>4. QED
      BY <2>1, <3>3 DEF WorkerInv
  <2>6. CASE ~Feeds(job[w])
    <3>1. workerPc'[w] = "finish"
      BY <1>13, <2>6 DEF Work
    <3>2. Flagged(w)'
      BY <2>2, <2>3, <2>4, <3>1 DEF Flagged, Locked
    <3>3. QED
      BY <2>1, <3>2 DEF WorkerInv
  <2>7. QED
    BY <2>5, <2>6
<1>14. ASSUME NEW w \in Workers, Finish(w)
       PROVE  WorkerInv'
  <2>1. \A v \in Workers \ {w} : Flagged(v)'
    BY <1>w, <1>14 DEF Finish
  <2>2. /\ ~waitForWork'[w] /\ jobComplete'[w] /\ workerPc'[w] = "notify"
    BY <1>14 DEF Finish, WorkerInv, Flagged, Locked
  <2>3. QED
    BY <2>1, <2>2 DEF WorkerInv, Flagged, Locked
\* A graph that wakes up.
<1>15. ASSUME NEW g \in Graphs, pc[g] = "asleep", pc' = [pc EXCEPT ![g] = "wait"],
              UNCHANGED <<typeVars, graphVars, job, waitForWork, jobComplete, load, owner, thread>>,
              \A w \in Workers : /\ Locked(w)' <=> Locked(w)
                                 /\ workerPc'[w] = "run" <=> workerPc[w] = "run"
       PROVE  WorkerInv'
  <2>1. ASSUME NEW w \in Workers, Busy(w)
        PROVE  Busy(w)'
    <3>1. CASE job[w] = g
      BY <1>15, <2>1, <3>1 DEF Busy, ThreadsUsed, NumLoads
    <3>2. CASE job[w] # g
      BY <1>b, <1>15, <2>1, <3>2 DEF Busy
    <3>3. QED
      BY <3>1, <3>2
  <2>2. QED
    BY <1>0, <1>15, <2>1 DEF WorkerInv
<1>16. ASSUME NEW w \in Workers, workerPc[w] \in {"notify", "asleep"},
              workerPc' = [workerPc EXCEPT ![w] = "loop"],
              UNCHANGED <<typeVars, graphVars, job, waitForWork, jobComplete, load, owner, pc, thread>>
       PROVE  WorkerInv'
  BY <1>0, <1>b, <1>16 DEF WorkerInv, Locked
<1>17. ASSUME NEW w \in Workers, NotifyGraph(w)
       PROVE  WorkerInv'
  <2>1. CASE Sleepers(w) = {}
    BY <1>16, <1>17, <2>1 DEF NotifyGraph
  <2>2. ASSUME NEW g \in Sleepers(w), pc' = [pc EXCEPT ![g] = "wait"]
        PROVE  WorkerInv'
    <3>1. \A v \in Workers : /\ Locked(v)' <=> Locked(v)
                             /\ workerPc'[v] = "run" <=> workerPc[v] = "run"
      BY <1>17 DEF NotifyGraph, Locked
    <3>2. QED
      BY <1>15, <1>17, <2>2, <3>1 DEF NotifyGraph, Sleepers
  <2>3. QED
    BY <1>17, <2>1, <2>2 DEF NotifyGraph
<1>18. CASE SpuriousWakeup
  BY <1>15, <1>16, <1>18 DEF SpuriousWakeup, Locked
<1>19. QED
  BY <1>1, <1>2, <1>3, <1>4, <1>5, <1>6, <1>7, <1>8, <1>9, <1>10, <1>11, <1>12, <1>13, <1>14,
     <1>17, <1>18
  DEF Next, Schedule, WorkerThread

LEMMA Safe ==
    Spec => []SchedulerInv
<1>1. SchedulerInv /\ [Next]_vars => SchedulerInv'
  <2> SUFFICES ASSUME SchedulerInv, [Next]_vars PROVE SchedulerInv'
    OBVIOUS
  <2>1. TypingInv'
    BY TypingStep
  <2>2. LoadsInv'
    BY LoadsStep
  <2>3. OwnerInv'
    BY OwnerStep
  <2>4. GraphInv'
    BY GraphStep
  <2>5. WorkerInv'
    BY WorkerStep
  <2>6. QED
    BY <2>1, <2>2, <2>3, <2>4, <2>5 DEF SchedulerInv
<1>2. QED
  BY <1>1, InitInv, PTL DEF Spec

\* Whatever the number of graphs, threads and kernels, the threads of graphs and workers keep
\* to their states, execute workloads that exist and wake up workers that exist.
THEOREM SchedulerTyping ==
    Spec => []TypeOK
<1>1. SchedulerInv => TypeOK
  <2> SUFFICES ASSUME SchedulerInv PROVE TypeOK
    OBVIOUS
  <2> USE DEF SchedulerInv
  <2>1. ASSUME NEW g \in Graphs, pc[g] = "run"
        PROVE  load[g] \in DOMAIN workloads[g]
    BY <2>1 DEF TypingInv, LoadsInv, GraphInv, Placed
  <2>2. ASSUME NEW w \in Workers, workerPc[w] = "run"
        PROVE  load[w] \in DOMAIN workloads[job[w]]
    <3>1. job[w] \in Graphs /\ load[w] < NumLoads(job[w])
      BY <2>2 DEF WorkerInv, Flagged, Locked, Busy
    <3>2. QED
      BY <3>1 DEF TypingInv, LoadsInv
  <2>3. ASSUME NEW g \in Graphs, pc[g] \in {"assign", "flag", "notify", "asleep"}
        PROVE  At(g) \in Workers
    BY <2>3, StartedWorker DEF Starting, GraphInv, Placed
  <2>4. QED
    BY <2>1, <2>2, <2>3 DEF TypingInv, TypeOK
<1>2. QED
  BY <1>1, Safe, PTL

\* Whenever a graph assigns a worker's pointers without the worker's mutex, the worker has
\* completed its last job and has no other to take: nobody else is at those pointers.
THEOREM AssignsAlone ==
    Spec => []UnlockedAssignAlone
<1>1. SchedulerInv => UnlockedAssignAlone
  BY StartedComplete DEF UnlockedAssignAlone
<1>2. QED
  BY <1>1, Safe, PTL

--------------------------------------------------------------------------------
(* The scheduler is a parallel loop *)

\* A worker at work has no other workload than the one it executes.
LEMMA SoleLoad ==
    ASSUME SchedulerInv, NEW g \in Graphs, Holding(g), NEW w \in TeamOf(g), Locked(w)
    PROVE  job[w] = g /\ ~waitForWork[w] /\ ~ToStart(g, w)
<1>1. w \in Workers /\ w[1] = sched[g]
  BY DEF TeamOf
<1>2. Busy(w) /\ ~waitForWork[w]
  BY <1>1 DEF SchedulerInv, WorkerInv, Flagged
<1>3. job[w] = g
  BY <1>1, <1>2 DEF SchedulerInv, OwnerInv, Busy
<1>4. w[2] \in Nat /\ thread[g] \in Nat
  BY <1>1, WorkerFacts DEF SchedulerInv, TypingInv
<1>5. QED
  BY <1>2, <1>3, <1>4 DEF Busy, ToStart

\* Graphs whose workloads stay with whom they are.
LEMMA Unmoved ==
    ASSUME NEW h \in Graphs, Progress(h),
           workloads'[h] = workloads[h], done'[h] = done[h], feeder'[h] = feeder[h],
           sched'[h] = sched[h],
           Holding(h)' <=> Holding(h),
           pc'[h] \in {"alone", "return", "lock"} => pc'[h] = pc[h],
           pc'[h] \in {"wait", "asleep"} => pc[h] \in {"wait", "asleep"},
           \A j \in Nat : Holding(h) =>
               /\ GraphHas(h, j)' <=> GraphHas(h, j)
               /\ \A w \in TeamOf(h) : WorkerHas(h, w, j)' <=> WorkerHas(h, w, j),
           Holding(h) => DOMAIN workloads[h] \subseteq Nat
    PROVE  Progress(h)'
<1>1. TeamOf(h)' = TeamOf(h)
  BY DEF TeamOf
<1>2. ASSUME Holding(h) PROVE Claimed(h)' /\ Counted(h)' /\ Tiled(h)'
  <2>1. Claimed(h) /\ Counted(h) /\ Tiled(h)
    BY <1>2 DEF Progress
  <2>2. Claimed(h)'
    BY <1>1, <1>2, <2>1 DEF Claimed
  <2>3. \A j \in DOMAIN workloads[h] : Pending(h, j)' <=> Pending(h, j)
    BY <1>1, <1>2 DEF Pending
  <2>4. Counted(h)'
    BY <2>1, <2>3 DEF Counted
  <2>5. Tiled(h)'
    BY <2>1 DEF Tiled
  <2>6. QED
    BY <2>2, <2>4, <2>5
<1>3. NumLoads(h)' = NumLoads(h)
  BY DEF NumLoads
<1>4. (Tiled(h) => Tiled(h)') /\ (AllAre(h, 0) => AllAre(h, 0)') /\ (AllAre(h, 1) => AllAre(h, 1)')
  BY DEF Tiled, AllAre
<1>5. QED
  BY <1>2, <1>3, <1>4 DEF Progress

\* Graphs that a step leaves where they are, with their workers.
LEMMA Untouched ==
    ASSUME SchedulerInv, NEW h \in Graphs, Progress(h),
           workloads'[h] = workloads[h], done'[h] = done[h], feeder'[h] = feeder[h],
           sched'[h] = sched[h], pc'[h] = pc[h], thread'[h] = thread[h], load'[h] = load[h],
           \A w \in TeamOf(h) : Holding(h) =>
               /\ waitForWork'[w] = waitForWork[w]
               /\ workerPc'[w] = "run" <=> workerPc[w] = "run"
               /\ load'[w] = load[w]
    PROVE  Progress(h)'
<1>1. ThreadsUsed(h)' = ThreadsUsed(h)
  BY DEF ThreadsUsed, NumLoads
<1>2. Holding(h)' <=> Holding(h)
  BY DEF Holding, Starting
<1>3. \A j \in Nat : GraphHas(h, j)' <=> GraphHas(h, j)
  BY <1>1 DEF GraphHas, Starting
<1>4. \A w \in TeamOf(h) : ToStart(h, w)' <=> ToStart(h, w)
  BY <1>1 DEF ToStart
<1>5. \A j \in Nat, w \in TeamOf(h) : Holding(h) => (WorkerHas(h, w, j)' <=> WorkerHas(h, w, j))
  BY <1>4 DEF WorkerHas
<1>6. DOMAIN workloads[h] \subseteq Nat
  BY DEF SchedulerInv, LoadsInv
<1>7. QED
  BY <1>2, <1>3, <1>5, <1>6, Unmoved

\* Workers of two schedulers that are in use.
LEMMA OtherTeam ==
    ASSUME SchedulerInv, NEW g \in Graphs, Holding(g), NEW h \in Graphs \ {g}, Holding(h)
    PROVE  \A w \in TeamOf(g) : w \notin TeamOf(h)
BY OneOwner DEF TeamOf

\* A workload that was with one thread is executed: the others are as pending as they were.
LEMMA CountedAfter ==
    ASSUME SchedulerInv, NEW g \in Graphs, Tiled(g), Counted(g), NEW i \in DOMAIN workloads[g],
           Pending(g, i), workloads' = workloads, done' = Executed(g, i),
           \A j \in DOMAIN workloads[g] : Pending(g, j)' <=> Pending(g, j) /\ j # i
    PROVE  Tiled(g)' /\ Counted(g)'
<1>1. done'[g] = [x \in DOMAIN done[g] |->
                     IF x \in workloads[g][i] THEN done[g][x] + 1 ELSE done[g][x]]
  BY ExecutedCounts DEF SchedulerInv
<1>2. Tiled(g)'
  BY <1>1 DEF Tiled
<1>3. ASSUME NEW j \in DOMAIN workloads[g], NEW x \in workloads[g][j]
      PROVE  done'[g][x] = IF Pending(g, j)' THEN 0 ELSE 1
  <2>1. x \in DOMAIN done[g] /\ (x \in workloads[g][i] <=> j = i)
    BY DEF Tiled
  <2>2. done[g][x] = IF Pending(g, j) THEN 0 ELSE 1
    BY DEF Counted
  <2>3. QED
    BY <1>1, <2>1, <2>2
<1>4. QED
  BY <1>2, <1>3 DEF Counted

LEMMA LockProgress ==
    ASSUME SchedulerInv, ProgressInv, NEW g \in Graphs, Lock(g)
    PROVE  Progress(g)'
<1> USE DEF SchedulerInv, TypingInv, typeVars, graphVars, workerVars, execVars
<1> DEFINE used == ThreadsUsed(g)
<1>1. /\ used \in Nat /\ used # 0 /\ used <= NumLoads(g) /\ used <= NumThreads[sched[g]]
      /\ NumLoads(g) \in Nat /\ NumThreads[sched[g]] \in Nat
      /\ DOMAIN workloads[g] = 0 .. NumLoads(g) - 1
  BY UsedType, ThreadsAssumption DEF Lock, LoadsInv
<1>2. /\ UNCHANGED <<typeVars, graphVars, workerVars, done>>
      /\ feeder'[g] = used /\ thread'[g] = 0
      /\ owner[sched[g]] = None
      /\ pc[g] = "lock"
      /\ IF 0 < used - 1 THEN pc'[g] = "assign" ELSE pc'[g] = "run" /\ load'[g] = used - 1
  BY DEF Lock, StartFrom, Goto
<1>3. ThreadsUsed(g)' = used
  BY <1>2 DEF ThreadsUsed, NumLoads
<1> HIDE DEF used
<1>4. \A w \in TeamOf(g) : ~Locked(w) /\ ~waitForWork[w]
  <2> SUFFICES ASSUME NEW w \in TeamOf(g) PROVE ~Locked(w) /\ ~waitForWork[w]
    OBVIOUS
  <2>1. w \in Workers /\ w[1] = sched[g]
    BY DEF TeamOf
  <2>2. ~Busy(w)
    BY <1>2, <2>1, NoneAssumption DEF Busy
  <2>3. QED
    BY <2>1, <2>2 DEF WorkerInv, Flagged
<1>5. TeamOf(g)' = TeamOf(g)
  BY <1>2 DEF TeamOf
<1>6. \A j \in Nat : GraphHas(g, j)' <=> j = used - 1
  BY <1>1, <1>2, <1>3 DEF GraphHas, Starting
<1>7. ASSUME NEW w \in TeamOf(g), NEW j \in Nat
      PROVE  WorkerHas(g, w, j)' <=> w[2] < used - 1 /\ j = w[2]
  <2>1. w[2] \in Nat
    BY WorkerFacts DEF TeamOf
  <2>2. ToStart(g, w)' <=> w[2] < used - 1
    BY <1>1, <1>2, <1>3, <2>1 DEF ToStart
  <2>3. workerPc'[w] # "run" /\ ~waitForWork'[w]
    BY <1>2, <1>4 DEF Locked
  <2>4. QED
    BY <2>2, <2>3 DEF WorkerHas
<1>8. Claimed(g)'
  <2>1. ASSUME NEW v \in TeamOf(g), NEW w \in TeamOf(g), v[2] = w[2]
        PROVE  v = w
    <3>1. v = <<v[1], v[2]>> /\ w = <<w[1], w[2]>> /\ v[1] = w[1]
      BY WorkerFacts DEF TeamOf
    <3>2. QED
      BY <2>1, <3>1
  <2>2. ASSUME NEW j \in Nat, GraphHas(g, j)'
        PROVE  j < feeder'[g]
    BY <1>1, <1>2, <1>6, <2>2
  <2>3. ASSUME NEW j \in Nat, NEW w \in TeamOf(g), WorkerHas(g, w, j)'
        PROVE  /\ j < feeder'[g]
               /\ ~GraphHas(g, j)'
               /\ \A v \in TeamOf(g) : WorkerHas(g, v, j)' => v = w
    <3>1. j = w[2] /\ j < used - 1
      BY <1>7, <2>3
    <3>2. \A v \in TeamOf(g) : WorkerHas(g, v, j)' => v = w
      BY <1>7, <2>1, <3>1
    <3>3. QED
      BY <1>1, <1>2, <1>6, <3>1, <3>2
  <2>4. QED
    BY <1>5, <2>2, <2>3 DEF Claimed
<1>9. \A j \in DOMAIN workloads[g] : Pending(g, j)'
  <2> SUFFICES ASSUME NEW j \in DOMAIN workloads[g] PROVE Pending(g, j)'
    OBVIOUS
  <2>1. j \in Nat
    BY <1>1
  <2>2. CASE used <= j
    BY <1>2, <2>2 DEF Pending
  <2>3. CASE j = used - 1
    BY <1>6, <2>1, <2>3 DEF Pending
  <2>4. CASE j < used - 1
    <3>1. PICK w : w = <<sched[g], j>>
      OBVIOUS
    <3>2. w \in TeamOf(g) /\ w[2] = j
      BY <1>1, <2>1, <2>4, <3>1, WorkerFacts DEF TeamOf
    <3>3. WorkerHas(g, w, j)'
      BY <1>7, <2>1, <2>4, <3>2
    <3>4. QED
      BY <1>5, <3>2, <3>3 DEF Pending
  <2>5. QED
    BY <1>1, <2>1, <2>2, <2>3, <2>4
<1>10. Tiled(g) /\ AllAre(g, 0)
  BY <1>2 DEF ProgressInv, Progress
<1>11. Tiled(g)' /\ Counted(g)'
  BY <1>2, <1>9, <1>10 DEF Tiled, Counted, AllAre
<1>12. QED
  BY <1>2, <1>8, <1>11 DEF Progress

LEMMA RunProgress ==
    ASSUME SchedulerInv, ProgressInv, NEW g \in Graphs, Run(g)
    PROVE  Progress(g)'
<1> USE DEF SchedulerInv, TypingInv, typeVars, graphVars, workerVars, execVars
<1> DEFINE i == load[g]
           f == feeder[g]
<1>1. /\ UNCHANGED <<typeVars, graphVars, workerVars>>
      /\ pc[g] = "run" /\ done' = Executed(g, i) /\ feeder'[g] = f + 1
      /\ \A w \in Workers : load'[w] = load[w]
      /\ IF f < NumLoads(g) THEN pc'[g] = "run" /\ load'[g] = f ELSE pc'[g] = "wait"
  BY DisjointAssumption DEF Run, Feeds, Goto
<1>2. /\ i \in Nat /\ f \in Nat /\ NumLoads(g) \in Nat /\ i < NumLoads(g)
      /\ DOMAIN workloads[g] = 0 .. NumLoads(g) - 1
  BY <1>1 DEF LoadsInv, GraphInv, Placed
<1>3. Tiled(g) /\ Claimed(g) /\ Counted(g)
  BY <1>1 DEF ProgressInv, Progress, Holding
<1>4. NumLoads(g)' = NumLoads(g)
  BY <1>1 DEF NumLoads
<1>5. TeamOf(g)' = TeamOf(g)
  BY <1>1 DEF TeamOf
<1>6. \A j \in Nat : GraphHas(g, j) <=> j = i
  BY <1>1 DEF GraphHas, Starting
<1>7. \A w \in TeamOf(g) : ~ToStart(g, w) /\ ~ToStart(g, w)'
  BY <1>1 DEF ToStart
<1> HIDE DEF i, f
<1>8. \A j \in Nat : GraphHas(g, j)' <=> f < NumLoads(g) /\ j = f
  BY <1>1 DEF GraphHas, Starting
<1>9. \A w \in TeamOf(g), j \in Nat : WorkerHas(g, w, j)' <=> WorkerHas(g, w, j)
  BY <1>1, <1>7 DEF WorkerHas, TeamOf
<1>10. /\ i < f
       /\ \A w \in TeamOf(g), j \in Nat : WorkerHas(g, w, j) =>
              /\ j < f /\ j # i
              /\ \A v \in TeamOf(g) : WorkerHas(g, v, j) => v = w
  BY <1>2, <1>3, <1>6 DEF Claimed, f
<1>11. Claimed(g)'
  BY <1>1, <1>2, <1>5, <1>8, <1>9, <1>10 DEF Claimed
<1>12. Pending(g, i) /\ i \in DOMAIN workloads[g]
  BY <1>2, <1>6 DEF Pending
<1>13. ASSUME NEW j \in DOMAIN workloads[g]
       PROVE  Pending(g, j)' <=> Pending(g, j) /\ j # i
  <2>1. j \in Nat /\ j < NumLoads(g)
    BY <1>2
  <2>2. Pending(g, j) <=> f <= j \/ j = i \/ \E w \in TeamOf(g) : WorkerHas(g, w, j)
    BY <1>6, <2>1 DEF Pending, f
  <2>3. Pending(g, j)' <=> \/ f + 1 <= j
                           \/ f < NumLoads(g) /\ j = f
                           \/ \E w \in TeamOf(g) : WorkerHas(g, w, j)
    BY <1>1, <1>5, <1>8, <1>9, <2>1 DEF Pending
  <2>4. QED
    BY <1>2, <1>10, <2>1, <2>2, <2>3
<1>14. Tiled(g)' /\ Counted(g)'
  BY <1>1, <1>3, <1>12, <1>13, CountedAfter
<1>15. QED
  BY <1>1, <1>2, <1>4, <1>11, <1>14 DEF Progress

LEMMA WorkProgress ==
    ASSUME SchedulerInv, ProgressInv, NEW w \in Workers, Work(w)
    PROVE  ProgressInv'
<1> USE DEF SchedulerInv, TypingInv, typeVars, graphVars, workerVars, execVars
<1>0. workerPc[w] = "run" /\ Locked(w) /\ ~jobComplete[w] /\ Busy(w)
  BY DEF Work, Locked, WorkerInv, Flagged
<1>g. PICK g \in Graphs : g = job[w]
  BY <1>0, BusyOwner
<1> DEFINE i == load[w]
           f == feeder[g]
<1>1. g \in Graphs /\ Holding(g) /\ w \in TeamOf(g)
  BY <1>0, <1>g, BusyOwner DEF TeamOf
<1>2. ~waitForWork[w] /\ ~ToStart(g, w)
  BY <1>0, <1>1, SoleLoad
<1>3. /\ UNCHANGED <<typeVars, graphVars, job, waitForWork, jobComplete, owner, pc, thread>>
      /\ done' = Executed(g, i) /\ feeder' = [feeder EXCEPT ![g] = f + 1]
      /\ \A x \in Graphs \cup Workers : x # w => load'[x] = load[x]
      /\ \A v \in Workers \ {w} : workerPc'[v] = workerPc[v]
      /\ IF f < NumLoads(g) THEN workerPc'[w] = "run" /\ load'[w] = f ELSE workerPc'[w] = "finish"
  BY <1>g DEF Work, Feeds, WorkerGoto
<1>4. /\ i \in Nat /\ f \in Nat /\ NumLoads(g) \in Nat /\ i < NumLoads(g)
      /\ DOMAIN workloads[g] = 0 .. NumLoads(g) - 1
  BY <1>0, <1>1, <1>g DEF LoadsInv, WorkerInv, Flagged
<1>5. Tiled(g) /\ Claimed(g) /\ Counted(g)
  BY <1>1 DEF ProgressInv, Progress
<1>6. \A j \in Nat : WorkerHas(g, w, j) <=> j = i
  BY <1>0, <1>2 DEF WorkerHas
<1>e. \A h \in Graphs \ {g} : done'[h] = done[h] /\ feeder'[h] = feeder[h]
  BY <1>1, <1>3, ExecutedCounts
<1>l. \A h \in Graphs : load'[h] = load[h]
  BY <1>3, DisjointAssumption
<1>7. NumLoads(g)' = NumLoads(g) /\ TeamOf(g)' = TeamOf(g) /\ ThreadsUsed(g)' = ThreadsUsed(g)
  BY <1>3 DEF NumLoads, TeamOf, ThreadsUsed
<1>8. ASSUME NEW h \in Graphs \ {g}
      PROVE  Progress(h)'
  <2>1. Holding(h) => \A v \in TeamOf(h) : v # w /\ v \in Workers
    BY <1>1, OtherTeam DEF TeamOf
  <2>2. QED
    BY <1>3, <1>e, <1>l, <2>1, Untouched DEF ProgressInv
<1>9. \A j \in Nat : GraphHas(g, j)' <=> GraphHas(g, j)
  BY <1>1, <1>3, <1>7, <1>l DEF GraphHas, Starting
<1>10. \A v \in TeamOf(g) : ToStart(g, v)' <=> ToStart(g, v)
  BY <1>3, <1>7 DEF ToStart
<1>11. \A v \in TeamOf(g) \ {w}, j \in Nat : WorkerHas(g, v, j)' <=> WorkerHas(g, v, j)
  BY <1>3, <1>10 DEF WorkerHas, TeamOf
<1>12. feeder'[g] = f + 1
  BY <1>1, <1>3
<1> HIDE DEF i, f
<1>13. \A j \in Nat : WorkerHas(g, w, j)' <=> f < NumLoads(g) /\ j = f
  BY <1>1, <1>2, <1>3, <1>10 DEF WorkerHas
<1>14. /\ i < f /\ ~GraphHas(g, i)
       /\ \A v \in TeamOf(g) \ {w} : ~WorkerHas(g, v, i)
       /\ \A j \in Nat : GraphHas(g, j) => j < f
       /\ \A v \in TeamOf(g), j \in Nat : WorkerHas(g, v, j) =>
              /\ j < f /\ ~GraphHas(g, j)
              /\ \A u \in TeamOf(g) : WorkerHas(g, u, j) => u = v
  BY <1>1, <1>4, <1>5, <1>6 DEF Claimed, f
<1>15. Claimed(g)'
  <2>1. ASSUME NEW j \in Nat, GraphHas(g, j)'
        PROVE  j < feeder'[g]
    BY <1>4, <1>9, <1>12, <1>14, <2>1
  <2>2. ASSUME NEW j \in Nat, NEW v \in TeamOf(g), WorkerHas(g, v, j)'
        PROVE  /\ j < feeder'[g]
               /\ ~GraphHas(g, j)'
               /\ \A u \in TeamOf(g) : WorkerHas(g, u, j)' => u = v
    <3>1. CASE v = w
      <4>1. j = f
        BY <1>13, <2>2, <3>1
      <4>2. \A u \in TeamOf(g) \ {w} : ~WorkerHas(g, u, j)'
        BY <1>4, <1>11, <1>14, <4>1
      <4>3. QED
        BY <1>4, <1>9, <1>12, <1>14, <3>1, <4>1, <4>2
    <3>2. CASE v # w
      <4>1. WorkerHas(g, v, j) /\ j < f
        BY <1>11, <1>14, <2>2, <3>2
      <4>2. ~WorkerHas(g, w, j)'
        BY <1>4, <1>13, <4>1
      <4>3. \A u \in TeamOf(g) : WorkerHas(g, u, j)' => u = v
        <5> SUFFICES ASSUME NEW u \in TeamOf(g), WorkerHas(g, u, j)' PROVE u = v
          OBVIOUS
        <5>1. u # w
          BY <4>2
        <5>2. WorkerHas(g, u, j)
          BY <1>11, <5>1
        <5>3. QED
          BY <1>14, <4>1, <5>2
      <4>4. QED
        BY <1>4, <1>9, <1>12, <1>14, <4>1, <4>3
    <3>3. QED
      BY <3>1, <3>2
  <2>3. QED
    BY <1>7, <2>1, <2>2 DEF Claimed
<1>16. Pending(g, i) /\ i \in DOMAIN workloads[g]
  BY <1>1, <1>4, <1>6 DEF Pending
<1>17. ASSUME NEW j \in DOMAIN workloads[g]
       PROVE  Pending(g, j)' <=> Pending(g, j) /\ j # i
  <2> DEFINE Others == GraphHas(g, j) \/ \E v \in TeamOf(g) \ {w} : WorkerHas(g, v, j)
  <2>1. j \in Nat /\ j < NumLoads(g)
    BY <1>4
  <2>2. Pending(g, j) <=> f <= j \/ j = i \/ Others
    BY <1>1, <1>6, <2>1 DEF Pending, f
  <2>3. Pending(g, j)' <=> f + 1 <= j \/ (f < NumLoads(g) /\ j = f) \/ Others
    BY <1>1, <1>7, <1>9, <1>11, <1>12, <1>13, <2>1 DEF Pending
  <2>4. j = i => ~Others
    BY <1>14
  <2> HIDE DEF Others
  <2>5. QED
    BY <1>4, <1>14, <2>1, <2>2, <2>3, <2>4
<1>18. Tiled(g)' /\ Counted(g)'
  BY <1>1, <1>3, <1>5, <1>16, <1>17, CountedAfter
<1>19. Progress(g)'
  <2>1. pc'[g] = pc[g] /\ pc[g] \notin {"alone", "return", "lock"}
    BY <1>1, <1>3 DEF Holding, Starting
  <2>2. pc[g] \in {"wait", "asleep"} => NumLoads(g)' <= feeder'[g]
    BY <1>1, <1>4, <1>7, <1>12 DEF ProgressInv, Progress, f
  <2>3. QED
    BY <1>15, <1>18, <2>1, <2>2 DEF Progress
<1>20. QED
  BY <1>8, <1>19 DEF ProgressInv

\* A worker is started: its first workload is with it before and after.
LEMMA StartProgress ==
    ASSUME SchedulerInv, ProgressInv, NEW g \in Graphs, Assign(g) \/ Flag(g) \/ NotifyWorker(g)
    PROVE  ProgressInv'
<1> USE DEF SchedulerInv, TypingInv, typeVars, graphVars, workerVars, execVars
<1>1. /\ UNCHANGED <<typeVars, graphVars, feeder, done, owner>>
      /\ \A h \in Graphs \ {g} :
             pc'[h] = pc[h] /\ thread'[h] = thread[h] /\ load'[h] = load[h]
      /\ \A w \in Workers : /\ workerPc'[w] = "run" <=> workerPc[w] = "run"
                            /\ w # At(g) => waitForWork'[w] = waitForWork[w]
                            /\ load'[w] = load[w]
      /\ Holding(g)
  BY DisjointAssumption DEF Assign, Flag, NotifyWorker, StartFrom, Goto, Holding, Starting
<1>2. At(g) \in TeamOf(g) /\ At(g)[2] = thread[g]
  BY StartedWorker DEF Assign, Flag, NotifyWorker, Starting, TeamOf, At
<1>3. ASSUME NEW h \in Graphs \ {g}
      PROVE  Progress(h)'
  <2>1. Holding(h) => \A w \in TeamOf(h) : w # At(g) /\ w \in Workers
    BY <1>1, <1>2, OtherTeam DEF TeamOf
  <2>2. QED
    BY <1>1, <2>1, Untouched DEF ProgressInv
<1>4. ThreadsUsed(g)' = ThreadsUsed(g) /\ DOMAIN workloads[g] \subseteq Nat
  BY <1>1 DEF ThreadsUsed, NumLoads, LoadsInv
<1>5. \A w \in TeamOf(g) : w \in Workers /\ w = <<w[1], w[2]>> /\ w[1] = sched[g] /\ w[2] \in Nat
  BY WorkerFacts DEF TeamOf
<1>6. ThreadsUsed(g) \in Nat /\ thread[g] \in Nat
  BY UsedType
<1>7. CASE Assign(g)
  <2>1. /\ pc[g] = "assign" /\ pc'[g] = "flag"
        /\ thread' = thread /\ waitForWork' = waitForWork /\ load' = load
    BY <1>7 DEF Assign, Goto
  <2>2. \A j \in Nat : GraphHas(g, j)' <=> GraphHas(g, j)
    BY <1>4, <2>1 DEF GraphHas, Starting
  <2>3. \A w \in TeamOf(g) : ToStart(g, w)' <=> ToStart(g, w)
    BY <1>4, <2>1 DEF ToStart
  <2>4. \A w \in TeamOf(g), j \in Nat : WorkerHas(g, w, j)' <=> WorkerHas(g, w, j)
    BY <1>1, <1>5, <2>1, <2>3 DEF WorkerHas
  <2>5. Progress(g)'
    BY <1>1, <1>4, <2>1, <2>2, <2>4, Unmoved DEF ProgressInv, Holding, Starting
  <2>6. QED
    BY <1>3, <2>5 DEF ProgressInv
<1>8. CASE Flag(g)
  <2>1. /\ pc[g] = "flag" /\ pc'[g] = "notify"
        /\ thread' = thread /\ load' = load
        /\ waitForWork'[At(g)]
    BY <1>2, <1>8 DEF Flag, Goto, TeamOf
  <2>2. \A j \in Nat : GraphHas(g, j)' <=> GraphHas(g, j)
    BY <1>4, <2>1 DEF GraphHas, Starting
  <2>3. ASSUME NEW w \in TeamOf(g), NEW j \in Nat
        PROVE  WorkerHas(g, w, j)' <=> WorkerHas(g, w, j)
    <3>1. CASE w = At(g)
      <4>1. workerPc[w] # "run"
        BY <2>1, <3>1, StartedComplete DEF Locked
      <4>2. ToStart(g, w)
        BY <1>2, <1>6, <2>1, <3>1 DEF ToStart, GraphInv, Placed, Starting
      <4>3. QED
        BY <1>1, <1>5, <2>1, <3>1, <4>1, <4>2 DEF WorkerHas
    <3>2. CASE w # At(g)
      <4>1. w[2] # thread[g]
        BY <1>5, <3>2 DEF At
      <4>2. ToStart(g, w)' <=> ToStart(g, w)
        BY <1>4, <1>5, <1>6, <2>1, <4>1 DEF ToStart
      <4>3. QED
        BY <1>1, <1>5, <2>1, <3>2, <4>2 DEF WorkerHas
    <3>3. QED
      BY <3>1, <3>2
  <2>4. Progress(g)'
    BY <1>1, <1>4, <2>1, <2>2, <2>3, Unmoved DEF ProgressInv, Holding, Starting
  <2>5. QED
    BY <1>3, <2>4 DEF ProgressInv
<1>9. CASE NotifyWorker(g)
  <2>1. /\ pc[g] = "notify" /\ thread'[g] = thread[g] + 1
        /\ waitForWork' = waitForWork
        /\ IF thread[g] + 1 < ThreadsUsed(g) - 1
             THEN pc'[g] = "assign"
             ELSE pc'[g] = "run" /\ load'[g] = ThreadsUsed(g) - 1
    BY <1>9 DEF NotifyWorker, StartFrom, Goto
  <2>2. \A j \in Nat : GraphHas(g, j)' <=> GraphHas(g, j)
    BY <1>4, <2>1 DEF GraphHas, Starting
  <2>3. \A w \in TeamOf(g) : ToStart(g, w)' <=> ToStart(g, w)
    BY <1>4, <1>5, <1>6, <2>1 DEF ToStart
  <2>4. \A w \in TeamOf(g), j \in Nat : WorkerHas(g, w, j)' <=> WorkerHas(g, w, j)
    BY <1>1, <1>5, <2>1, <2>3 DEF WorkerHas
  <2>5. Holding(g)' /\ pc'[g] \notin {"alone", "return", "lock", "wait", "asleep"}
    BY <2>1 DEF Holding, Starting
  <2>6. Progress(g)'
    BY <1>1, <1>4, <2>2, <2>4, <2>5, Unmoved DEF ProgressInv
  <2>7. QED
    BY <1>3, <2>6 DEF ProgressInv
<1>10. QED
  BY <1>7, <1>8, <1>9

LEMMA TakeProgress ==
    ASSUME SchedulerInv, ProgressInv, NEW w \in Workers, Take(w)
    PROVE  ProgressInv'
<1> USE DEF SchedulerInv, TypingInv, typeVars, graphVars, workerVars, execVars
<1>1. /\ UNCHANGED <<typeVars, graphVars, feeder, done, pc, thread>>
      /\ \A v \in Workers \ {w} : /\ workerPc'[v] = workerPc[v]
                                  /\ waitForWork'[v] = waitForWork[v]
                                  /\ load'[v] = load[v]
      /\ \A h \in Graphs : load'[h] = load[h]
  BY DisjointAssumption DEF Take, WorkerGoto
<1>2. /\ workerPc[w] = "loop"
      /\ \/ waitForWork[w] /\ workerPc'[w] = "run" /\ load'[w] = w[2] /\ ~waitForWork'[w]
         \/ waitForWork' = waitForWork /\ workerPc'[w] = "asleep"
  BY DEF Take, WorkerGoto
<1>3. ASSUME NEW h \in Graphs
      PROVE  Progress(h)'
  <2>1. ThreadsUsed(h)' = ThreadsUsed(h) /\ DOMAIN workloads[h] \subseteq Nat
    BY <1>1 DEF ThreadsUsed, NumLoads, LoadsInv
  <2>2. \A j \in Nat : GraphHas(h, j)' <=> GraphHas(h, j)
    BY <1>1, <2>1 DEF GraphHas, Starting
  <2>3. \A v \in TeamOf(h) : v \in Workers /\ (ToStart(h, v)' <=> ToStart(h, v))
    BY <1>1, <2>1 DEF ToStart, TeamOf
  <2>4. \A v \in TeamOf(h), j \in Nat : WorkerHas(h, v, j)' <=> WorkerHas(h, v, j)
    BY <1>1, <1>2, <2>3 DEF WorkerHas
  <2>5. QED
    BY <1>1, <2>1, <2>2, <2>4, Unmoved DEF ProgressInv, Holding, Starting
<1>4. QED
  BY <1>3 DEF ProgressInv

\* A graph that waits for a worker, sleeps or wakes up.
LEMMA WaitProgress ==
    ASSUME SchedulerInv, ProgressInv, NEW g \in Graphs,
           pc[g] \in {"wait", "asleep"}, pc'[g] \in {"wait", "asleep"},
           UNCHANGED <<typeVars, graphVars, waitForWork, feeder, load, done>>,
           \A h \in Graphs \ {g} : pc'[h] = pc[h] /\ thread'[h] = thread[h],
           \A w \in Workers : workerPc'[w] = "run" <=> workerPc[w] = "run"
    PROVE  ProgressInv'
<1> USE DEF typeVars, graphVars
<1>1. \A h \in Graphs \ {g} : Progress(h)'
  BY Untouched DEF ProgressInv, TeamOf
<1>2. Progress(g)'
  <2>1. \A j \in Nat : ~GraphHas(g, j) /\ ~GraphHas(g, j)'
    BY DEF GraphHas, Starting
  <2>2. \A w \in TeamOf(g) : w \in Workers /\ ~ToStart(g, w) /\ ~ToStart(g, w)'
    BY DEF ToStart, TeamOf
  <2>3. \A w \in TeamOf(g), j \in Nat : WorkerHas(g, w, j)' <=> WorkerHas(g, w, j)
    BY <2>2 DEF WorkerHas
  <2>4. Holding(g) /\ Holding(g)' /\ DOMAIN workloads[g] \subseteq Nat
    BY DEF Holding, SchedulerInv, LoadsInv
  <2>5. QED
    BY <2>1, <2>3, <2>4, Unmoved DEF ProgressInv
<1>3. QED
  BY <1>1, <1>2 DEF ProgressInv

\* A kernel is cut into workloads.
LEMMA ScheduleProgress ==
    ASSUME SchedulerInv, ProgressInv, NEW g \in Graphs, ScheduleCommon(g)
    PROVE  Progress(g)'
<1> USE DEF SchedulerInv, TypingInv, typeVars, graphVars, workerVars, execVars, Goto
<1>1. PICK k \in Kernels :
         IF k.m = 0 THEN pc' = [pc EXCEPT ![g] = "idle"] /\ UNCHANGED <<workloads, done>>
         ELSE /\ done' = [done EXCEPT ![g] = [i \in Iterations(k) |-> 0]]
              /\ IF RunsAlone(k, NumThreads[sched[g]])
                   THEN pc' = [pc EXCEPT ![g] = "alone"] /\ UNCHANGED workloads
                   ELSE /\ pc' = [pc EXCEPT ![g] = "lock"]
                        /\ workloads' = [workloads EXCEPT
                                           ![g] = Workloads(k, NumThreads[sched[g]])]
  BY DEF ScheduleCommon
<1>2. CASE k.m = 0
  BY <1>1, <1>2 DEF Progress, Holding, Starting
<1>3. CASE k.m # 0
  <2>1. done'[g] = [i \in Iterations(k) |-> 0] /\ pc'[g] \in {"alone", "lock"}
    BY <1>1, <1>3
  <2>2. AllAre(g, 0)'
    BY <2>1 DEF AllAre
  <2>3. ASSUME pc'[g] = "lock"
        PROVE  Tiled(g)'
    <3>1. workloads'[g] = Workloads(k, NumThreads[sched[g]])
      BY <1>1, <1>3, <2>3
    <3>2. IsKernel(k) /\ NumThreads[sched[g]] \in Nat \ {0}
      BY <1>3, KernelsAssumption, ThreadsAssumption DEF IsKernel
    <3>3. QED
      BY <2>1, <3>1, <3>2, WorkloadsTile DEF Tiled
  <2>4. QED
    BY <2>1, <2>2, <2>3 DEF Progress, Holding, Starting
<1>4. QED
  BY <1>2, <1>3

LEMMA ProgressStep ==
    ASSUME SchedulerInv, ProgressInv, [Next]_vars
    PROVE  ProgressInv'
<1> USE DEF SchedulerInv, TypingInv, Goto, WorkerGoto, typeVars, graphVars, workerVars, execVars
\* Steps of a graph that leave the others and the workers alone.
<1>0. ASSUME NEW g \in Graphs, Progress(g)', UNCHANGED workerVars,
             \A h \in Graphs \ {g} :
                 /\ workloads'[h] = workloads[h] /\ done'[h] = done[h] /\ feeder'[h] = feeder[h]
                 /\ sched'[h] = sched[h] /\ pc'[h] = pc[h] /\ thread'[h] = thread[h]
                 /\ load'[h] = load[h],
             \A w \in Workers : load'[w] = load[w]
      PROVE  ProgressInv'
  <2>1. \A h \in Graphs \ {g} : Progress(h)'
    BY <1>0, Untouched DEF ProgressInv, TeamOf
  <2>2. QED
    BY <1>0, <2>1 DEF ProgressInv
<1>1. CASE UNCHANGED vars
  BY <1>1, Untouched DEF vars, ProgressInv, TeamOf
<1>2. ASSUME NEW g \in Graphs, Get(g)
      PROVE  ProgressInv'
  <2>1. pc'[g] \in {"test", "set", "find", "schedule"}
    BY <1>2 DEF Get, Call, TestType, SetType, Find
  <2>2. Progress(g)'
    BY <2>1 DEF Progress, Holding, Starting
  <2>3. QED
    BY <1>0, <1>2, <2>2 DEF Get, Call, TestType, SetType, Find
<1>3. ASSUME NEW g \in Graphs, ScheduleCommon(g)
      PROVE  ProgressInv'
  <2>1. \A h \in Graphs \ {g} :
            pc'[h] = pc[h] /\ workloads'[h] = workloads[h] /\ done'[h] = done[h]
    BY <1>3 DEF ScheduleCommon
  <2>2. UNCHANGED <<typeVars, workerVars, feeder, load, thread>>
    BY <1>3 DEF ScheduleCommon
  <2>3. QED
    BY <1>0, <1>3, <2>1, <2>2, ScheduleProgress
<1>4. ASSUME NEW g \in Graphs, RunAlone(g)
      PROVE  ProgressInv'
  <2>1. /\ pc[g] = "alone" /\ pc'[g] = "return"
        /\ done' = [done EXCEPT ![g] = [i \in DOMAIN @ |-> @[i] + 1]]
        /\ UNCHANGED <<typeVars, graphVars, workerVars, feeder, load, thread>>
        /\ \A h \in Graphs \ {g} : pc'[h] = pc[h]
    BY <1>4 DEF RunAlone
  <2>2. /\ done'[g] = [i \in DOMAIN done[g] |-> done[g][i] + 1]
        /\ \A h \in Graphs \ {g} : done'[h] = done[h]
    <3> DEFINE counts == [i \in DOMAIN done[g] |-> done[g][i] + 1]
    <3>1. done' = [done EXCEPT ![g] = counts]
      BY <2>1
    <3> HIDE DEF counts
    <3>2. done'[g] = counts /\ \A h \in Graphs \ {g} : done'[h] = done[h]
      BY <3>1
    <3>3. QED
      BY <3>2 DEF counts
  <2>3. AllAre(g, 0)
    BY <2>1 DEF ProgressInv, Progress
  <2>4. AllAre(g, 1)'
    BY <2>2, <2>3 DEF AllAre
  <2>5. Progress(g)'
    BY <2>1, <2>4 DEF Progress, Holding, Starting
  <2>6. QED
    BY <1>0, <2>1, <2>2, <2>5
<1>5. ASSUME NEW g \in Graphs, ReturnAlone(g)
      PROVE  ProgressInv'
  <2>1. Progress(g)'
    BY <1>5 DEF ReturnAlone, Progress, Holding, Starting
  <2>2. QED
    BY <1>0, <1>5, <2>1 DEF ReturnAlone
<1>6. ASSUME NEW g \in Graphs, Lock(g)
      PROVE  ProgressInv'
  <2>1. /\ UNCHANGED <<typeVars, graphVars, workerVars, done>>
        /\ \A h \in Graphs \ {g} : /\ pc'[h] = pc[h] /\ thread'[h] = thread[h]
                                   /\ load'[h] = load[h] /\ feeder'[h] = feeder[h]
        /\ \A w \in Workers : load'[w] = load[w]
    BY <1>6, DisjointAssumption DEF Lock, StartFrom
  <2>2. QED
    BY <1>0, <1>6, <2>1, LockProgress
<1>7. ASSUME NEW g \in Graphs, Assign(g) \/ Flag(g) \/ NotifyWorker(g)
      PROVE  ProgressInv'
  BY <1>7, StartProgress
<1>8. ASSUME NEW g \in Graphs, Run(g)
      PROVE  ProgressInv'
  <2>1. /\ UNCHANGED <<typeVars, graphVars, workerVars>>
        /\ \A h \in Graphs \ {g} : /\ pc'[h] = pc[h] /\ thread'[h] = thread[h]
                                   /\ load'[h] = load[h] /\ feeder'[h] = feeder[h]
        /\ \A w \in Workers : load'[w] = load[w]
    BY <1>8, DisjointAssumption DEF Run
  <2>2. \A h \in Graphs \ {g} : done'[h] = done[h]
    BY <1>8, ExecutedCounts DEF Run
  <2>3. QED
    BY <1>0, <1>8, <2>1, <2>2, RunProgress
<1>9. ASSUME NEW g \in Graphs, Wait(g)
      PROVE  ProgressInv'
  BY <1>9, WaitProgress DEF Wait
<1>10. ASSUME NEW g \in Graphs, Return(g)
       PROVE  ProgressInv'
  <2>1. pc'[g] = "idle"
    BY <1>10 DEF Return
  <2>2. Progress(g)'
    BY <2>1 DEF Progress, Holding, Starting
  <2>3. QED
    BY <1>0, <1>10, <2>2, DisjointAssumption DEF Return
<1>11. ASSUME NEW w \in Workers, Take(w)
       PROVE  ProgressInv'
  BY <1>11, TakeProgress
<1>12. ASSUME NEW w \in Workers, Work(w)
       PROVE  ProgressInv'
  BY <1>12, WorkProgress
\* Steps of a worker between two jobs.
<1>w. ASSUME UNCHANGED <<typeVars, graphVars, waitForWork, execVars, pc, thread>>,
             \A w \in Workers : workerPc'[w] = "run" <=> workerPc[w] = "run"
      PROVE  ProgressInv'
  BY <1>w, Untouched DEF ProgressInv, TeamOf
<1>13. ASSUME NEW w \in Workers, Finish(w)
       PROVE  ProgressInv'
  BY <1>w, <1>13 DEF Finish
<1>14. ASSUME NEW w \in Workers, NotifyGraph(w)
       PROVE  ProgressInv'
  <2>1. \A v \in Workers : workerPc'[v] = "run" <=> workerPc[v] = "run"
    BY <1>14 DEF NotifyGraph
  <2>2. CASE pc' = pc
    BY <1>w, <1>14, <2>1, <2>2 DEF NotifyGraph
  <2>3. ASSUME NEW g \in Graphs, pc[g] = "asleep", pc' = [pc EXCEPT ![g] = "wait"]
        PROVE  ProgressInv'
    BY <1>14, <2>1, <2>3, WaitProgress DEF NotifyGraph
  <2>4. QED
    BY <1>14, <2>2, <2>3 DEF NotifyGraph, Sleepers
<1>15. CASE SpuriousWakeup
  <2>1. ASSUME NEW g \in Graphs, pc[g] = "asleep", pc' = [pc EXCEPT ![g] = "wait"],
               UNCHANGED <<typeVars, graphVars, workerVars, execVars, owner, thread>>
        PROVE  ProgressInv'
    BY <2>1, WaitProgress
  <2>2. ASSUME NEW w \in Workers, workerPc[w] = "asleep",
               workerPc' = [workerPc EXCEPT ![w] = "loop"],
               UNCHANGED <<typeVars, graphVars, waitForWork, execVars, pc, thread>>
        PROVE  ProgressInv'
    BY <1>w, <2>2
  <2>3. QED
    BY <1>15, <2>1, <2>2 DEF SpuriousWakeup
<1>16. QED
  BY <1>1, <1>2, <1>3, <1>4, <1>5, <1>6, <1>7, <1>8, <1>9, <1>10, <1>11, <1>12, <1>13, <1>14,
     <1>15
  DEF Next, Schedule, WorkerThread

\* A graph that returns has no workload left.
LEMMA AllDone ==
    ASSUME SchedulerInv, ProgressInv, NEW g \in Graphs, Return(g)
    PROVE  AllAre(g, 1)
<1> USE DEF SchedulerInv, TypingInv
<1>1. pc[g] = "wait" /\ At(g) \notin Workers /\ Holding(g)
  BY DEF Return, Holding
<1>2. Tiled(g) /\ Counted(g) /\ NumLoads(g) <= feeder[g]
  BY <1>1 DEF ProgressInv, Progress
<1>3. ASSUME NEW w \in TeamOf(g)
      PROVE  workerPc[w] # "run" /\ ~waitForWork[w] /\ ~ToStart(g, w)
  <2>1. /\ w \in Workers /\ w[1] = sched[g] /\ w[2] \in Nat /\ thread[g] \in Nat
        /\ w[2] < NumThreads[sched[g]] - 1 /\ NumThreads[sched[g]] \in Nat
    BY WorkerFacts, ThreadsAssumption DEF TeamOf
  <2>2. ~(thread[g] < NumThreads[sched[g]] - 1)
    BY <1>1, <2>1, WorkerFacts DEF At
  <2>3. ~Busy(w)
    <3>1. SUFFICES ASSUME Busy(w) PROVE FALSE
      OBVIOUS
    <3>2. job[w] = g
      BY <1>1, <2>1, <3>1 DEF Busy, OwnerInv
    <3>3. thread[g] <= w[2]
      BY <1>1, <3>1, <3>2 DEF Busy
    <3>4. QED
      BY <2>1, <2>2, <3>3
  <2>4. QED
    BY <1>1, <2>1, <2>3 DEF WorkerInv, Flagged, Locked, ToStart
<1>4. \A j \in DOMAIN workloads[g] : ~Pending(g, j)
  <2>1. \A j \in DOMAIN workloads[g] : j \in Nat /\ j < NumLoads(g) /\ NumLoads(g) \in Nat
    BY DEF LoadsInv
  <2>2. \A j \in DOMAIN workloads[g] : ~(feeder[g] <= j)
    BY <1>2, <2>1
  <2>3. QED
    BY <1>1, <1>3, <2>2 DEF Pending, GraphHas, Starting, WorkerHas
<1>5. QED
  BY <1>2, <1>4 DEF Tiled, Counted, AllAre

Outside == {"idle", "test", "set", "find", "schedule"}

LEMMA InitLoop ==
    Init => ProgressInv /\ Promise!Init
<1> SUFFICES ASSUME Init PROVE ProgressInv /\ Promise!Init
  OBVIOUS
<1>1. ProgressInv
  BY DEF Init, ProgressInv, Progress, Holding, Starting
<1>2. {g \in Graphs : pc[g] \notin Outside} = {}
  BY DEF Init, Outside
<1>3. QED
  BY <1>1, <1>2 DEF Init, Promise!Init, Outside

\* The execution of a workload that was pending is a step of the loop.
LEMMA ExecuteStep ==
    ASSUME SchedulerInv, NEW g \in Graphs, Tiled(g), Counted(g), NEW i \in DOMAIN workloads[g],
           Pending(g, i), done' = Executed(g, i), pc[g] \notin Outside,
           \A h \in Graphs : pc'[h] \in Outside <=> pc[h] \in Outside
    PROVE  Promise!Execute(g)
<1>1. /\ done'[g] = [x \in DOMAIN done[g] |->
                        IF x \in workloads[g][i] THEN done[g][x] + 1 ELSE done[g][x]]
      /\ \A h \in Graphs \ {g} : done'[h] = done[h]
  BY ExecutedCounts DEF SchedulerInv
<1>2. \A x \in workloads[g][i] : x \in DOMAIN done[g] /\ done[g][x] = 0
  BY DEF Tiled, Counted
<1>3. \A x \in DOMAIN done[g] : done'[g][x] \in {1, done[g][x]}
  BY <1>1, <1>2
<1>4. DOMAIN done'[g] = DOMAIN done[g]
  BY <1>1
<1>5. {h \in Graphs : pc'[h] \notin Outside} = {h \in Graphs : pc[h] \notin Outside}
  OBVIOUS
<1>6. g \in {h \in Graphs : pc[h] \notin Outside}
  OBVIOUS
<1>7. QED
  BY <1>1, <1>3, <1>4, <1>5, <1>6 DEF Promise!Execute, Outside

LEMMA LoopStep ==
    ASSUME SchedulerInv, ProgressInv, [Next]_vars
    PROVE  [Promise!Next]_(Promise!vars)
<1> USE DEF SchedulerInv, TypingInv, Goto, WorkerGoto, typeVars, graphVars, workerVars, execVars
\* Steps that execute nothing and neither begin nor end a kernel.
<1>0. ASSUME done' = done, \A g \in Graphs : pc'[g] \in Outside <=> pc[g] \in Outside
      PROVE  [Promise!Next]_(Promise!vars)
  <2>1. {g \in Graphs : pc'[g] \notin Outside} = {g \in Graphs : pc[g] \notin Outside}
    BY <1>0
  <2>2. QED
    BY <1>0, <2>1 DEF Promise!vars, Outside
\* A graph has its kernel done.
<1>r. ASSUME NEW g \in Graphs, pc[g] \notin Outside, pc' = [pc EXCEPT ![g] = "idle"],
             done' = done, AllAre(g, 1)
      PROVE  [Promise!Next]_(Promise!vars)
  <2> DEFINE busy == {h \in Graphs : pc[h] \notin Outside}
  <2>1. g \in busy /\ busy' = busy \ {g}
    BY <1>r DEF Outside
  <2>2. Promise!Return(g)
    BY <1>r, <2>1 DEF Promise!Return, AllAre, Outside
  <2>3. QED
    BY <2>2 DEF Promise!Next
<1>1. CASE UNCHANGED vars
  BY <1>0, <1>1 DEF vars
<1>2. ASSUME NEW g \in Graphs, Get(g)
      PROVE  [Promise!Next]_(Promise!vars)
  BY <1>0, <1>2 DEF Get, Call, TestType, SetType, Find, Outside
<1>3. ASSUME NEW g \in Graphs, ScheduleCommon(g)
      PROVE  [Promise!Next]_(Promise!vars)
  <2>1. PICK k \in Kernels :
           IF k.m = 0 THEN pc' = [pc EXCEPT ![g] = "idle"] /\ done' = done
           ELSE /\ done' = [done EXCEPT ![g] = [i \in Iterations(k) |-> 0]]
                /\ \/ pc' = [pc EXCEPT ![g] = "alone"]
                   \/ pc' = [pc EXCEPT ![g] = "lock"]
    BY <1>3 DEF ScheduleCommon
  <2>2. pc[g] = "schedule"
    BY <1>3 DEF ScheduleCommon
  <2>3. CASE k.m = 0
    BY <1>0, <2>1, <2>2, <2>3 DEF Outside
  <2>4. CASE k.m # 0
    <3> DEFINE busy == {h \in Graphs : pc[h] \notin Outside}
    <3>1. g \notin busy /\ busy' = busy \cup {g}
      BY <2>1, <2>2, <2>4 DEF Outside
    <3>2. done' = [done EXCEPT ![g] = [i \in Iterations(k) |-> 0]]
      BY <2>1, <2>4
    <3>3. Promise!Schedule(g)
      BY <3>1, <3>2 DEF Promise!Schedule, Outside
    <3>4. QED
      BY <3>3 DEF Promise!Next
  <2>5. QED
    BY <2>3, <2>4
<1>4. ASSUME NEW g \in Graphs, RunAlone(g)
      PROVE  [Promise!Next]_(Promise!vars)
  <2> DEFINE counts == [i \in DOMAIN done[g] |-> done[g][i] + 1]
  <2>1. /\ pc[g] = "alone" /\ pc' = [pc EXCEPT ![g] = "return"]
        /\ done' = [done EXCEPT ![g] = counts]
    BY <1>4 DEF RunAlone
  <2>2. AllAre(g, 0)
    BY <2>1 DEF ProgressInv, Progress
  <2>3. DOMAIN counts = DOMAIN done[g] /\ \A i \in DOMAIN done[g] : counts[i] \in {1, done[g][i]}
    BY <2>2 DEF AllAre
  <2> HIDE DEF counts
  <2>4. done'[g] = counts /\ \A h \in Graphs \ {g} : done'[h] = done[h]
    BY <2>1
  <2>5. {h \in Graphs : pc'[h] \notin Outside} = {h \in Graphs : pc[h] \notin Outside}
    BY <2>1 DEF Outside
  <2>6. Promise!Execute(g)
    BY <2>1, <2>3, <2>4, <2>5 DEF Promise!Execute, Outside
  <2>7. QED
    BY <2>6 DEF Promise!Next
<1>5. ASSUME NEW g \in Graphs, ReturnAlone(g)
      PROVE  [Promise!Next]_(Promise!vars)
  BY <1>r, <1>5 DEF ReturnAlone, ProgressInv, Progress, Outside
<1>6. ASSUME NEW g \in Graphs, Lock(g)
      PROVE  [Promise!Next]_(Promise!vars)
  BY <1>0, <1>6 DEF Lock, StartFrom, Outside
<1>7. ASSUME NEW g \in Graphs, Assign(g) \/ Flag(g)
      PROVE  [Promise!Next]_(Promise!vars)
  BY <1>0, <1>7 DEF Assign, Flag, Outside
<1>8. ASSUME NEW g \in Graphs, NotifyWorker(g)
      PROVE  [Promise!Next]_(Promise!vars)
  BY <1>0, <1>8 DEF NotifyWorker, StartFrom, Outside
<1>9. ASSUME NEW g \in Graphs, Run(g)
      PROVE  [Promise!Next]_(Promise!vars)
  <2>1. /\ pc[g] = "run" /\ done' = Executed(g, load[g])
        /\ \A h \in Graphs : pc'[h] \in Outside <=> pc[h] \in Outside
    BY <1>9 DEF Run, Outside
  <2>2. Tiled(g) /\ Counted(g)
    BY <2>1 DEF ProgressInv, Progress, Holding
  <2>3. load[g] \in DOMAIN workloads[g] /\ Pending(g, load[g])
    BY <2>1 DEF LoadsInv, GraphInv, Placed, Pending, GraphHas
  <2>4. Promise!Execute(g)
    BY <2>1, <2>2, <2>3, ExecuteStep DEF Outside
  <2>5. QED
    BY <2>4 DEF Promise!Next
<1>10. ASSUME NEW g \in Graphs, Wait(g)
       PROVE  [Promise!Next]_(Promise!vars)
  BY <1>0, <1>10 DEF Wait, Outside
<1>11. ASSUME NEW g \in Graphs, Return(g)
       PROVE  [Promise!Next]_(Promise!vars)
  BY <1>r, <1>11, AllDone DEF Return, Outside
<1>12. ASSUME NEW w \in Workers, Take(w) \/ Finish(w)
       PROVE  [Promise!Next]_(Promise!vars)
  BY <1>0, <1>12 DEF Take, Finish
<1>13. ASSUME NEW w \in Workers, Work(w)
       PROVE  [Promise!Next]_(Promise!vars)
  <2>1. workerPc[w] = "run" /\ done' = Executed(job[w], load[w]) /\ pc' = pc
    BY <1>13 DEF Work
  <2>2. Busy(w) /\ load[w] < NumLoads(job[w])
    BY <2>1 DEF WorkerInv, Flagged, Locked
  <2>3. PICK g \in Graphs : g = job[w]
    BY <2>2, BusyOwner
  <2>4. Holding(g) /\ w \in TeamOf(g)
    BY <2>2, <2>3, BusyOwner DEF TeamOf
  <2>5. Tiled(g) /\ Counted(g) /\ pc[g] \notin Outside
    BY <2>4 DEF ProgressInv, Progress, Holding, Starting, Outside
  <2>6. load[w] \in DOMAIN workloads[g] /\ Pending(g, load[w])
    BY <2>1, <2>2, <2>3, <2>4 DEF LoadsInv, Pending, WorkerHas
  <2>7. Promise!Execute(g)
    BY <2>1, <2>3, <2>5, <2>6, ExecuteStep
  <2>8. QED
    BY <2>7 DEF Promise!Next
<1>14. ASSUME NEW w \in Workers, NotifyGraph(w)
       PROVE  [Promise!Next]_(Promise!vars)
  BY <1>0, <1>14 DEF NotifyGraph, Sleepers, Outside
<1>15. CASE SpuriousWakeup
  BY <1>0, <1>15 DEF SpuriousWakeup, Outside
<1>16. QED
  BY <1>1, <1>2, <1>3, <1>4, <1>5, <1>6, <1>7, <1>8, <1>9, <1>10, <1>11, <1>12, <1>13, <1>14,
     <1>15
  DEF Next, Schedule, WorkerThread

\* The parallel loop that the graphs rely on: a graph goes on when every iteration of its
\* kernel was executed, none twice, and nothing is executed at another time; for any graphs,
\* threads and kernels, whichever scheduler get returns and with spurious wake-ups.
THEOREM SchedulerIsParallelFor ==
    Spec => ParallelForSpec
<1>1. Init => ProgressInv /\ Promise!Init
  BY InitLoop
<1>2. SchedulerInv /\ ProgressInv /\ [Next]_vars => ProgressInv'
  BY ProgressStep
<1>3. SchedulerInv /\ ProgressInv /\ [Next]_vars => [Promise!Next]_(Promise!vars)
  BY LoopStep
<1>4. QED
  BY <1>1, <1>2, <1>3, Safe, PTL DEF Spec, ParallelForSpec, Promise!Spec
================================================================================
