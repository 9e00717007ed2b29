------------------------------- MODULE FrameFifo -------------------------------
(***************************************************************************)
(* What a connection between two stages promises, whatever its buffering:  *)
(* the frames the producer puts are taken by the consumer in the order     *)
(* they were put, each exactly once, and the frame the consumer works on   *)
(* is not touched until the consumer is done with it.                      *)
(***************************************************************************)
EXTENDS Naturals, Sequences

CONSTANT NumFrames       \* frames the producer puts

VARIABLES put,           \* frames put so far; they are numbered 1 .. put
          fifo,          \* frames put and not yet taken, oldest first
          input          \* the frame the consumer works on, Idle if none

fifoVars == <<put, fifo, input>>

Idle == 0

Init ==
    /\ put = 0
    /\ fifo = <<>>
    /\ input = Idle

\* The producer never waits: there is no bound on fifo.
Put ==
    /\ put < NumFrames
    /\ put' = put + 1
    /\ fifo' = Append(fifo, put + 1)
    /\ UNCHANGED input

Get ==
    /\ input = Idle
    /\ fifo # <<>>
    /\ input' = Head(fifo)
    /\ fifo' = Tail(fifo)
    /\ UNCHANGED put

Done ==
    /\ input # Idle
    /\ input' = Idle
    /\ UNCHANGED <<put, fifo>>

Next == Put \/ Get \/ Done

Spec == Init /\ [][Next]_fifoVars
================================================================================
