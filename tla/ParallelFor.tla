------------------------------- MODULE ParallelFor -------------------------------
(***************************************************************************)
(* What a scheduler promises: a graph that schedules a kernel goes on only *)
(* when every iteration of the kernel has been executed, none of them      *)
(* twice, and none is executed at any other time.                          *)
(***************************************************************************)
EXTENDS Naturals

CONSTANTS Graphs, Spaces     \* the iterations of the kernels, one set for each

VARIABLES busy,      \* graphs that have scheduled a kernel and wait for it
          done       \* graph -> how often each iteration of its last kernel was executed

vars == <<busy, done>>

Init == busy = {} /\ done = [g \in Graphs |-> [i \in {} |-> 0]]

Schedule(g) ==
    /\ g \notin busy
    /\ busy' = busy \cup {g}
    /\ \E space \in Spaces : done' = [done EXCEPT ![g] = [i \in space |-> 0]]

Execute(g) ==
    /\ g \in busy
    /\ DOMAIN done'[g] = DOMAIN done[g]
    /\ \A i \in DOMAIN done[g] : done'[g][i] \in {1, done[g][i]}
    /\ \A h \in Graphs \ {g} : done'[h] = done[h]
    /\ UNCHANGED busy

Return(g) ==
    /\ g \in busy
    /\ \A i \in DOMAIN done[g] : done[g][i] = 1
    /\ busy' = busy \ {g}
    /\ UNCHANGED done

Next == \E g \in Graphs : Schedule(g) \/ Execute(g) \/ Return(g)

Spec == Init /\ [][Next]_vars
==================================================================================
