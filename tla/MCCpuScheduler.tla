------------------------------ MODULE MCCpuScheduler ------------------------------
(* Two graphs on clusters of different size, and kernels of every kind. *)
EXTENDS CpuScheduler

CONSTANTS little, big

Clusters == [g \in Graphs |-> IF g = little THEN "CPP" ELSE "CPP2"]

Threads == [s \in Types |-> IF s = "CPP" THEN 3 ELSE 1]

Kernel(strategy, m, n, threshold) ==
    [strategy |-> strategy, m |-> m, n |-> n, threshold |-> threshold]

\* More windows than threads, of different length; fewer windows than one cluster's threads;
\* windows in two dimensions, one of them empty; none; one thread only.
SmallKernels == {Kernel("dynamic", 5, 1, 4), Kernel("static", 2, 1, 0), Kernel("all", 1, 2, 0),
                 Kernel("static", 0, 1, 0), Kernel("alone", 2, 1, 0)}

Bounds == [g \in Graphs |-> IF g = little THEN 2 ELSE 1]
================================================================================
