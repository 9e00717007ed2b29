---------------------------- MODULE MCOrderPartition ----------------------------
(* Orders for OrderPartition. *)
EXTENDS OrderPartition

\* The components, and a character that is none.
Characters == {"L", "B", "G", "N", "-"}

\* All orders of two to five characters.
AllOrders == UNION {[1 .. n -> Characters] : n \in 2 .. 5}
================================================================================
