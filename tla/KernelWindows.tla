------------------------------ MODULE KernelWindows ------------------------------
(***************************************************************************)
(* How a kernel's window is cut into workloads, each to be executed by one *)
(* thread.  An iteration is a pair <<x, y>>; a kernel that is split along  *)
(* one dimension has a single y.                                           *)
(***************************************************************************)
EXTENDS Integers, Sequences, FiniteSetsExt

\* alone: the kernel is not parallelisable.  all: split along all dimensions.
Strategies == {"static", "dynamic", "alone", "all"}

Iterations(k) == (0 .. k.m - 1) \X (0 .. k.n - 1)

\* The smaller of two numbers.
Least(a, b) == IF a < b THEN a ELSE b

\* Mutant of Part: the parts after the longer ones do not start later.
PartOverlapping(num, id, total) ==
    LET rem == num % total
        work == (num \div total) + (IF id < rem THEN 1 ELSE 0)
        first == (num \div total) * id + (IF id < rem THEN id ELSE 0)
    IN  first .. Least(num, first + work) - 1

\* split_window: the iterations of part id of total, of num in all.
Part(num, id, total) ==
    LET rem == num % total
        work == (num \div total) + (IF id < rem THEN 1 ELSE 0)
        first == (num \div total) * id + Least(id, rem)
    IN  first .. Least(num, first + work) - 1

\* std::round(std::sqrt(p / q)), halves away from zero.
RoundedRoot(p, q) ==
    CHOOSE a \in 0 .. 2 * p : 4 * p < (2 * a + 1) * (2 * a + 1) * q
                              /\ (a > 0 => 4 * p >= (2 * a - 1) * (2 * a - 1) * q)

\* split_2d: threads along the dimensions of length m and n.  The factor of max nearest to
\* the rounded root, the smaller of two equally near ones.
Split2d(max, m, n) ==
    LET adjusted == RoundedRoot(max * n, m)
        At(i) == {f \in {adjusted - i, adjusted + i} : max % f = 0}
        nearest == Min({i \in 0 .. adjusted - 1 : At(i) # {}})
        factor == Min(At(nearest))
    IN  IF adjusted > 0 THEN <<factor, max \div factor>>
        ELSE IF m > n THEN <<Least(m, max), 1>> ELSE <<1, Least(n, max)>>

\* The parts a kernel is cut into when it is split along one dimension.
NumWindows(k, threads) ==
    LET used == Least(k.m, threads)
        granule == IF k.threshold > 0 THEN k.threshold ELSE used
    IN  IF k.strategy = "static" THEN used ELSE Least(k.m, granule)

\* The kernel is run by the thread that schedules it.
RunsAlone(k, threads) ==
    k.strategy # "all" /\ (k.strategy = "alone" \/ Least(k.m, threads) = 1)

\* schedule_common: the vector of workloads, numbered from 0, as sets of iterations.
Workloads(k, threads) ==
    IF k.strategy = "all"
      THEN LET t == Split2d(threads, k.m, k.n) IN
           [i \in 0 .. t[1] * t[2] - 1 |->
               Part(k.m, i % t[1], t[1]) \X Part(k.n, i \div t[1], t[2])]
      ELSE LET num == NumWindows(k, threads) IN
           [i \in 0 .. num - 1 |-> Part(k.m, i, num) \X {0}]
==================================================================================
