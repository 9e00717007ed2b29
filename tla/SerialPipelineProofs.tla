-------------------------- MODULE SerialPipelineProofs --------------------------
(***************************************************************************)
(* Proofs about SerialPipeline, for every network of graphs and channels   *)
(* and every number of frames: its type invariant, that a graph runs its   *)
(* tasks on the frame of its iteration, that the network works on one      *)
(* frame at a time, and, where every graph leads to the last one, that the *)
(* average latency is over the measured frames.                            *)
(***************************************************************************)
EXTENDS SerialPipeline, SequenceTheorems, WellFoundedInduction, TLAPS

(* The inductive invariant, checked on the network of MCSerialPipeline first. *)

\* The graph that sends on channel c, and the channel's place among its graphs' targets
\* and receivers.
Source(c) == CHOOSE g \in Graphs : c \in Range(Targets[g])
Outlet(c) == CHOOSE k \in DOMAIN Targets[Source(c)] : Targets[Source(c)][k] = c
Inlet(c) == CHOOSE k \in DOMAIN Receivers[Dest(c)] : Receivers[Dest(c)][k] = c

AtReceivers(g) == pc[g] \in {"receive", "asleep"}
PastReceivers(g) == pc[g] \in {"tasks", "send", "measure", "add", "signal", "done"}

\* Where the thread of graph g can be, and how far in its lists of receivers and targets.
Loop(g) ==
    /\ pc[g] = "await" => g = 0
    /\ pc[g] \in {"measure", "add", "signal"} => g = LastGraph
    /\ pc[g] = "done" => frame[g] = TotalFrames
    /\ AtReceivers(g) => pos[g] <= Len(Receivers[g]) + 1
    /\ pc[g] = "asleep" => pos[g] <= Len(Receivers[g])
    /\ pc[g] = "send" => pos[g] <= Len(Targets[g]) + 1
    /\ ~AtReceivers(g) /\ pc[g] # "send" => pos[g] = 1

LoopInv == pos \in [Graphs -> Nat \ {0}] /\ \A g \in Graphs : Loop(g)

\* Frames sent on channel c, and frames received from it.
Sent(c) ==
    LET g == Source(c)
    IN  IF pc[g] = "done" \/ (pc[g] = "send" /\ pos[g] > Outlet(c))
          THEN frame[g] ELSE frame[g] - 1

Received(c) ==
    LET g == Dest(c)
    IN  IF PastReceivers(g) \/ (AtReceivers(g) /\ pos[g] > Inlet(c))
          THEN frame[g] ELSE frame[g] - 1

\* The graph c leads to has yet to receive the frame of its iteration from c.
Awaited(c) == AtReceivers(Dest(c)) /\ pos[Dest(c)] <= Inlet(c)

InTensor(c) == IF dataSent[c] THEN Received(c) + 1 ELSE Received(c)

\* The frames sent and not received are in the tensor, if transferred, and in the queue,
\* in their order; a receiver is ready, and gets a transfer, only while it is waited for.
Transit(c) ==
    /\ tensor[c] = InTensor(c)
    /\ Len(buffer[c]) + InTensor(c) = Sent(c)
    /\ \A k \in 1 .. Len(buffer[c]) : buffer[c][k] = InTensor(c) + k
    /\ dataSent[c] => Awaited(c) /\ readiness[c] = "busy"
    /\ readiness[c] # "busy" => Awaited(c)

TransitInv == \A c \in Channels : Transit(c)

Typed == TypeOK /\ LoopInv

--------------------------------------------------------------------------------
(* The wiring of the network. *)

LEMMA Wiring ==
    ASSUME NEW c \in Channels
    PROVE  /\ Source(c) \in Graphs /\ Dest(c) \in Graphs /\ Source(c) < Dest(c)
           /\ Outlet(c) \in 1 .. Len(Targets[Source(c)])
           /\ Targets[Source(c)][Outlet(c)] = c
           /\ Inlet(c) \in 1 .. Len(Receivers[Dest(c)])
           /\ Receivers[Dest(c)][Inlet(c)] = c
<1>1. PICK g \in Graphs, h \in Graphs :
          c \in Range(Targets[g]) /\ c \in Range(Receivers[h]) /\ g < h
  BY ChannelsAssumption
<1>2. \A f \in Graphs : c \in Range(Targets[f]) => f = g
  BY <1>1, ChannelsAssumption
<1>3. \A f \in Graphs : c \in Range(Receivers[f]) => f = h
  BY <1>1, ChannelsAssumption
<1>4. Source(c) = g /\ Dest(c) = h
  BY <1>1, <1>2, <1>3 DEF Source, Dest
<1>5. \E k \in DOMAIN Targets[g] : Targets[g][k] = c
  BY <1>1 DEF Range
<1>6. \E k \in DOMAIN Receivers[h] : Receivers[h][k] = c
  BY <1>1 DEF Range
<1>7. /\ DOMAIN Targets[g] = 1 .. Len(Targets[g])
      /\ DOMAIN Receivers[h] = 1 .. Len(Receivers[h])
  BY ChannelsAssumption
<1>8. Outlet(c) \in DOMAIN Targets[g] /\ Targets[g][Outlet(c)] = c
  BY <1>4, <1>5 DEF Outlet
<1>9. Inlet(c) \in DOMAIN Receivers[h] /\ Receivers[h][Inlet(c)] = c
  BY <1>4, <1>6 DEF Inlet
<1>. QED
  BY <1>1, <1>4, <1>7, <1>8, <1>9

LEMMA TargetChannel ==
    ASSUME NEW g \in Graphs, NEW k \in 1 .. Len(Targets[g])
    PROVE  /\ Targets[g][k] \in Channels
           /\ Source(Targets[g][k]) = g /\ Outlet(Targets[g][k]) = k
<1>. DEFINE c == Targets[g][k]
<1>1. Targets[g] \in Seq(Channels) /\ IsInjective(Targets[g])
  BY ChannelsAssumption
<1>2. c \in Channels /\ k \in DOMAIN Targets[g] /\ c \in Range(Targets[g])
  BY <1>1 DEF Range
<1>3. Source(c) \in Graphs /\ c \in Range(Targets[Source(c)])
  BY <1>2 DEF Source
<1>4. Source(c) = g
  BY <1>2, <1>3, ChannelsAssumption
<1>5. Outlet(c) \in DOMAIN Targets[g] /\ Targets[g][Outlet(c)] = c
  BY <1>2, <1>4 DEF Outlet
<1>6. Outlet(c) = k
  BY <1>1, <1>2, <1>5 DEF IsInjective
<1>. QED
  BY <1>2, <1>4, <1>6

LEMMA ReceiverChannel ==
    ASSUME NEW g \in Graphs, NEW k \in 1 .. Len(Receivers[g])
    PROVE  /\ Receivers[g][k] \in Channels
           /\ Dest(Receivers[g][k]) = g /\ Inlet(Receivers[g][k]) = k
<1>. DEFINE c == Receivers[g][k]
<1>1. Receivers[g] \in Seq(Channels) /\ IsInjective(Receivers[g])
  BY ChannelsAssumption
<1>2. c \in Channels /\ k \in DOMAIN Receivers[g] /\ c \in Range(Receivers[g])
  BY <1>1 DEF Range
<1>3. Dest(c) \in Graphs /\ c \in Range(Receivers[Dest(c)])
  BY <1>2 DEF Dest
<1>4. Dest(c) = g
  BY <1>2, <1>3, ChannelsAssumption
<1>5. Inlet(c) \in DOMAIN Receivers[g] /\ Receivers[g][Inlet(c)] = c
  BY <1>2, <1>4 DEF Inlet
<1>6. Inlet(c) = k
  BY <1>1, <1>2, <1>5 DEF IsInjective
<1>. QED
  BY <1>2, <1>4, <1>6

LEMMA InReceivers ==
    ASSUME NEW c \in Channels, NEW g \in Graphs
    PROVE  c \in Range(Receivers[g]) <=> Dest(c) = g
<1>1. DOMAIN Receivers[g] = 1 .. Len(Receivers[g])
  BY ChannelsAssumption
<1>2. ASSUME c \in Range(Receivers[g]) PROVE Dest(c) = g
  <2>1. PICK k \in DOMAIN Receivers[g] : Receivers[g][k] = c
    BY <1>2 DEF Range
  <2>. QED
    BY <1>1, <2>1, ReceiverChannel
<1>3. ASSUME Dest(c) = g PROVE c \in Range(Receivers[g])
  BY <1>1, <1>3, Wiring DEF Range
<1>. QED
  BY <1>2, <1>3

\* The first graph has no receivers, and the last one sends nothing.
LEMMA Ends ==
    /\ 0 \in Graphs /\ LastGraph \in Graphs /\ NumGraphs \in Nat /\ Graphs \subseteq Nat
    /\ TotalFrames \in Nat /\ Warmup \in Nat /\ Warmup < TotalFrames
    /\ Receivers[0] = <<>>
    /\ Targets[LastGraph] = <<>>
    /\ \A g \in Graphs : /\ Receivers[g] \in Seq(Channels) /\ Len(Receivers[g]) \in Nat
                         /\ Targets[g] \in Seq(Channels) /\ Len(Targets[g]) \in Nat
                         /\ g >= 0 /\ g <= LastGraph
<1>1. /\ 0 \in Graphs /\ LastGraph \in Graphs /\ NumGraphs \in Nat /\ Graphs \subseteq Nat
      /\ TotalFrames \in Nat /\ Warmup \in Nat /\ Warmup < TotalFrames
      /\ \A g \in Graphs : g >= 0 /\ g <= LastGraph
  BY SizesAssumption DEF Graphs, LastGraph, TotalFrames
<1>2. \A g \in Graphs : /\ Receivers[g] \in Seq(Channels) /\ Len(Receivers[g]) \in Nat
                        /\ Targets[g] \in Seq(Channels) /\ Len(Targets[g]) \in Nat
  BY ChannelsAssumption
<1>3. Receivers[0] = <<>>
  <2>1. SUFFICES ASSUME Receivers[0] # <<>> PROVE FALSE
    OBVIOUS
  <2>2. 1 \in 1 .. Len(Receivers[0])
    BY <1>1, <1>2, <2>1
  <2>3. Receivers[0][1] \in Channels /\ Dest(Receivers[0][1]) = 0
    BY <1>1, <2>2, ReceiverChannel
  <2>4. Source(Receivers[0][1]) \in Graphs /\ Source(Receivers[0][1]) < 0
    BY <2>3, Wiring
  <2>. QED
    BY <2>4, SizesAssumption DEF Graphs
<1>4. Targets[LastGraph] = <<>>
  <2>1. SUFFICES ASSUME Targets[LastGraph] # <<>> PROVE FALSE
    OBVIOUS
  <2>2. 1 \in 1 .. Len(Targets[LastGraph])
    BY <1>1, <1>2, <2>1
  <2>3. Targets[LastGraph][1] \in Channels /\ Source(Targets[LastGraph][1]) = LastGraph
    BY <1>1, <2>2, TargetChannel
  <2>4. Dest(Targets[LastGraph][1]) \in Graphs /\ LastGraph < Dest(Targets[LastGraph][1])
    BY <2>3, Wiring
  <2>. QED
    BY <1>1, <2>4 DEF Graphs, LastGraph
<1>. QED
  BY <1>1, <1>2, <1>3, <1>4

--------------------------------------------------------------------------------
(* Typing. *)

LEMMA InitTyped == Init => Typed
<1>. SUFFICES ASSUME Init PROVE Typed
  OBVIOUS
<1>1. TypeOK
  <2>1. 1 \in 1 .. TotalFrames /\ 0 \in 0 .. TotalFrames
    BY Ends
  <2>2. \A g \in Graphs : pos[g] \in 1 .. Len(Receivers[g] \o Targets[g]) + 1
    BY Ends DEF Init
  <2>3. buffer \in [Channels -> Seq(1 .. TotalFrames)]
    BY DEF Init
  <2>. QED
    BY <2>1, <2>2, <2>3 DEF Init, TypeOK, Pcs
<1>2. LoopInv
  BY Ends DEF Init, LoopInv, Loop, AtReceivers
<1>. QED
  BY <1>1, <1>2 DEF Typed

\* The next frame of a loop, or its end.
LEMMA Looping ==
    ASSUME Typed, NEW g \in Graphs, NextFrame(g)
    PROVE  /\ pc' \in [Graphs -> Pcs] /\ frame' \in [Graphs -> 1 .. TotalFrames]
           /\ \A h \in Graphs \ {g} : pc'[h] = pc[h] /\ frame'[h] = frame[h]
           /\ \/ pc'[g] = "done" /\ frame[g] = TotalFrames /\ frame'[g] = frame[g]
              \/ pc'[g] = "start" /\ frame[g] < TotalFrames /\ frame'[g] = frame[g] + 1
<1>1. frame[g] \in 1 .. TotalFrames /\ frame \in [Graphs -> 1 .. TotalFrames]
      /\ pc \in [Graphs -> Pcs]
  BY DEF Typed, TypeOK
<1>2. CASE frame[g] = TotalFrames
  BY <1>1, <1>2 DEF NextFrame, GoTo, Pcs
<1>3. CASE frame[g] # TotalFrames
  BY <1>1, <1>3, Ends DEF NextFrame, GoTo, Pcs
<1>. QED
  BY <1>2, <1>3

\* Another graph's step leaves a graph's loop alone.
LEMMA OtherLoops ==
    ASSUME LoopInv, NEW g \in Graphs, Loop(g)', pos' \in [Graphs -> Nat \ {0}],
           \A h \in Graphs \ {g} : pc'[h] = pc[h] /\ frame'[h] = frame[h] /\ pos'[h] = pos[h]
    PROVE  LoopInv'
<1>1. ASSUME NEW h \in Graphs \ {g} PROVE Loop(h)'
  BY <1>1 DEF LoopInv, Loop, AtReceivers
<1>. QED
  BY <1>1 DEF LoopInv

LEMMA NextTyped == Typed /\ [Next]_vars => Typed'
<1>. SUFFICES ASSUME Typed, [Next]_vars PROVE Typed'
  OBVIOUS
<1>. USE DEF GoTo, threadVars, channelVars, sharedVars
<1>1. /\ pc \in [Graphs -> Pcs] /\ frame \in [Graphs -> 1 .. TotalFrames]
      /\ tensor \in [Channels -> 0 .. TotalFrames]
      /\ buffer \in [Channels -> Seq(1 .. TotalFrames)]
      /\ readiness \in [Channels -> {"busy", "announced", "ready"}]
      /\ dataSent \in [Channels -> BOOLEAN]
      /\ lastReady \in BOOLEAN /\ arriving \in 0 .. TotalFrames
      /\ latency \subseteq (0 .. TotalFrames) \X (1 .. TotalFrames)
      /\ latencySum \subseteq (0 .. TotalFrames) \X (1 .. TotalFrames)
      /\ pos \in [Graphs -> Nat \ {0}] /\ LoopInv
  BY DEF Typed, TypeOK, LoopInv
\* What a step has to keep for the variables to keep their types: pos is typed by the loops.
<1>2. ASSUME LoopInv',
             pc' \in [Graphs -> Pcs], frame' \in [Graphs -> 1 .. TotalFrames],
             tensor' \in [Channels -> 0 .. TotalFrames],
             buffer' \in [Channels -> Seq(1 .. TotalFrames)],
             readiness' \in [Channels -> {"busy", "announced", "ready"}],
             dataSent' \in [Channels -> BOOLEAN],
             lastReady' \in BOOLEAN, arriving' \in 0 .. TotalFrames,
             latency' \subseteq (0 .. TotalFrames) \X (1 .. TotalFrames),
             latencySum' \subseteq (0 .. TotalFrames) \X (1 .. TotalFrames)
      PROVE  Typed'
  <2>1. \A g \in Graphs : Len(Receivers[g] \o Targets[g]) = Len(Receivers[g]) + Len(Targets[g])
    BY Ends
  <2>2. ASSUME NEW g \in Graphs
        PROVE  pos'[g] \in 1 .. Len(Receivers[g] \o Targets[g]) + 1
    <3>1. Len(Receivers[g]) \in Nat /\ Len(Targets[g]) \in Nat
      BY Ends
    <3>2. Loop(g)' /\ pos'[g] \in Nat \ {0}
      BY <1>2 DEF LoopInv
    <3>3. \/ pos'[g] <= Len(Receivers[g]) + 1
          \/ pos'[g] <= Len(Targets[g]) + 1
          \/ pos'[g] = 1
      BY <3>2 DEF Loop
    <3>4. \A p \in Nat \ {0}, m, n \in Nat :
              p <= m + 1 \/ p <= n + 1 \/ p = 1 => p \in 1 .. (m + n) + 1
      OBVIOUS
    <3>5. pos'[g] \in 1 .. (Len(Receivers[g]) + Len(Targets[g])) + 1
      BY <3>1, <3>2, <3>3, <3>4
    <3>. QED
      BY <2>1, <3>5
  <2>. QED
    BY <1>2, <2>2 DEF Typed, TypeOK
<1>3. \A g, status : status \in [Channels -> {"busy", "announced", "ready"}] =>
          Published(g, status) \in [Channels -> {"busy", "announced", "ready"}]
  BY DEF Published
<1>4. ASSUME NEW g \in Graphs, Start(g) PROVE Typed'
  <2>1. /\ latency' \subseteq (0 .. TotalFrames) \X (1 .. TotalFrames)
        /\ pc' \in [Graphs -> Pcs]
    BY <1>1, <1>4 DEF Start, Pcs
  <2>2. Loop(g)'
    BY <1>1, <1>4 DEF Start, LoopInv, Loop, AtReceivers
  <2>3. LoopInv'
    BY <1>1, <1>4, <2>2, OtherLoops DEF Start
  <2>. QED
    BY <1>1, <1>2, <1>4, <2>1, <2>3 DEF Start
<1>5. ASSUME AwaitLast PROVE Typed'
  <2>0. 0 \in Graphs /\ frame[0] \in 0 .. TotalFrames
    BY <1>1, Ends
  <2>1. arriving' \in 0 .. TotalFrames /\ pc' \in [Graphs -> Pcs]
    BY <1>1, <1>5, <2>0 DEF AwaitLast, Pcs
  <2>2. Loop(0)'
    BY <1>1, <1>5, <2>0 DEF AwaitLast, LoopInv, Loop, AtReceivers
  <2>3. LoopInv'
    BY <1>1, <1>5, <2>0, <2>2, OtherLoops DEF AwaitLast
  <2>. QED
    BY <1>1, <1>2, <1>5, <2>1, <2>3 DEF AwaitLast
<1>6. ASSUME NEW g \in Graphs, Announce(g) PROVE Typed'
  <2>1. pc' \in [Graphs -> Pcs] /\ readiness' \in [Channels -> {"busy", "announced", "ready"}]
    BY <1>1, <1>6 DEF Announce, Pcs
  <2>2. Len(Receivers[g]) \in Nat
    BY Ends
  <2>3. Loop(g)'
    BY <1>1, <1>6, <2>2 DEF Announce, Loop, AtReceivers
  <2>4. LoopInv'
    BY <1>1, <1>6, <2>3, OtherLoops DEF Announce
  <2>. QED
    BY <1>1, <1>2, <1>6, <2>1, <2>4 DEF Announce
<1>7. ASSUME NEW g \in Graphs, ReceiveTransferred(g) PROVE Typed'
  <2>1. /\ pc' \in [Graphs -> Pcs] /\ dataSent' \in [Channels -> BOOLEAN]
        /\ readiness' \in [Channels -> {"busy", "announced", "ready"}]
    BY <1>1, <1>3, <1>7 DEF ReceiveTransferred, Pcs
  <2>2. Len(Receivers[g]) \in Nat /\ pos[g] <= Len(Receivers[g])
    BY <1>7, Ends DEF ReceiveTransferred, MoreReceivers
  <2>3. pos' \in [Graphs -> Nat \ {0}] /\ Loop(g)'
    BY <1>1, <1>7, <2>2 DEF ReceiveTransferred, Loop, AtReceivers
  <2>4. LoopInv'
    BY <1>1, <1>7, <2>3, OtherLoops DEF ReceiveTransferred
  <2>. QED
    BY <1>1, <1>2, <1>7, <2>1, <2>4 DEF ReceiveTransferred
<1>8. ASSUME NEW g \in Graphs, ReceiveQueued(g) PROVE Typed'
  <2>1. /\ Len(Receivers[g]) \in Nat /\ pos[g] <= Len(Receivers[g]) /\ pc[g] = "receive"
        /\ pc' = pc /\ frame' = frame
    BY <1>8, Ends DEF ReceiveQueued, MoreReceivers
  <2>2. pos[g] \in 1 .. Len(Receivers[g])
    BY <1>1, <2>1
  <2>3. Receiver(g) \in Channels
    BY <2>2, ReceiverChannel DEF Receiver
  <2>4. /\ Head(buffer[Receiver(g)]) \in 1 .. TotalFrames
        /\ Tail(buffer[Receiver(g)]) \in Seq(1 .. TotalFrames)
    <3>1. buffer[Receiver(g)] \in Seq(1 .. TotalFrames) /\ buffer[Receiver(g)] # <<>>
      BY <1>1, <1>8, <2>3 DEF ReceiveQueued
    <3>. QED
      BY <3>1, HeadTailProperties
  <2>5. Head(buffer[Receiver(g)]) \in 0 .. TotalFrames
    BY <2>4
  <2>6. /\ tensor' \in [Channels -> 0 .. TotalFrames]
        /\ buffer' \in [Channels -> Seq(1 .. TotalFrames)]
        /\ readiness' \in [Channels -> {"busy", "announced", "ready"}]
    BY <1>1, <1>3, <1>8, <2>4, <2>5 DEF ReceiveQueued
  <2>7. pos' = [pos EXCEPT ![g] = @ + 1]
    BY <1>8 DEF ReceiveQueued
  <2>8. pos' \in [Graphs -> Nat \ {0}] /\ Loop(g)'
    BY <1>1, <2>1, <2>7 DEF Loop, AtReceivers
  <2>9. LoopInv'
    BY <1>1, <2>1, <2>7, <2>8, OtherLoops
  <2>. QED
    BY <1>1, <1>2, <1>8, <2>6, <2>9 DEF ReceiveQueued
<1>9. ASSUME NEW g \in Graphs, Sleep(g) PROVE Typed'
  <2>1. pc' \in [Graphs -> Pcs] /\ readiness' \in [Channels -> {"busy", "announced", "ready"}]
    BY <1>1, <1>3, <1>9 DEF Sleep, Pcs
  <2>2. Len(Receivers[g]) \in Nat /\ pos[g] <= Len(Receivers[g])
    BY <1>9, Ends DEF Sleep, MoreReceivers
  <2>3. Loop(g)'
    BY <1>1, <1>9, <2>2 DEF Sleep, Loop, AtReceivers
  <2>4. LoopInv'
    BY <1>1, <1>9, <2>3, OtherLoops DEF Sleep
  <2>. QED
    BY <1>1, <1>2, <1>9, <2>1, <2>4 DEF Sleep
<1>10. ASSUME NEW g \in Graphs, AllReceived(g) PROVE Typed'
  <2>1. pc' \in [Graphs -> Pcs] /\ pos' \in [Graphs -> Nat \ {0}] /\ Loop(g)'
    BY <1>1, <1>10 DEF AllReceived, Pcs, Loop, AtReceivers
  <2>2. LoopInv'
    BY <1>1, <1>10, <2>1, OtherLoops DEF AllReceived
  <2>. QED
    BY <1>1, <1>2, <1>10, <2>1, <2>2 DEF AllReceived
<1>11. ASSUME NEW g \in Graphs, RunTasks(g) PROVE Typed'
  <2>1. Len(Targets[g]) \in Nat /\ pos[g] = 1
    BY <1>1, <1>11, Ends DEF RunTasks, LoopInv, Loop, AtReceivers
  <2>2. pc' \in [Graphs -> Pcs] /\ Loop(g)'
    BY <1>1, <1>11, <2>1 DEF RunTasks, Pcs, Loop, AtReceivers
  <2>3. LoopInv'
    BY <1>1, <1>11, <2>2, OtherLoops DEF RunTasks
  <2>. QED
    BY <1>1, <1>2, <1>11, <2>2, <2>3 DEF RunTasks
<1>12. ASSUME NEW g \in Graphs, Send(g) PROVE Typed'
  <2>. DEFINE c == Targets[g][pos[g]]
  <2>1. /\ Len(Targets[g]) \in Nat /\ pos[g] <= Len(Targets[g]) /\ pc[g] = "send"
        /\ pc' = pc /\ frame' = frame /\ pos' = [pos EXCEPT ![g] = @ + 1]
    BY <1>12, Ends DEF Send
  <2>2. pos[g] \in 1 .. Len(Targets[g])
    BY <1>1, <2>1
  <2>3. c \in Channels /\ frame[g] \in 1 .. TotalFrames /\ frame[g] \in 0 .. TotalFrames
    <3>1. frame[g] \in 1 .. TotalFrames
      BY <1>1
    <3>. QED
      BY <2>2, <3>1, TargetChannel
  <2>4. Append(buffer[c], frame[g]) \in Seq(1 .. TotalFrames)
    BY <1>1, <2>3
  <2>5. /\ tensor' \in [Channels -> 0 .. TotalFrames]
        /\ buffer' \in [Channels -> Seq(1 .. TotalFrames)]
        /\ readiness' \in [Channels -> {"busy", "announced", "ready"}]
        /\ dataSent' \in [Channels -> BOOLEAN]
    BY <1>1, <1>12, <2>3, <2>4 DEF Send
  <2>6. pos' \in [Graphs -> Nat \ {0}] /\ Loop(g)'
    BY <1>1, <2>1 DEF Loop, AtReceivers
  <2>7. LoopInv'
    BY <1>1, <2>1, <2>6, OtherLoops
  <2>. QED
    BY <1>1, <1>2, <1>12, <2>5, <2>7 DEF Send
<1>13. ASSUME NEW g \in Graphs, AllSent(g) PROVE Typed'
  <2>1. pos' \in [Graphs -> Nat \ {0}] /\ pos' = [pos EXCEPT ![g] = 1]
    BY <1>1, <1>13 DEF AllSent
  <2>2. CASE g = LastGraph
    <3>1. pc' \in [Graphs -> Pcs] /\ Loop(g)'
      BY <1>1, <1>13, <2>1, <2>2 DEF AllSent, Pcs, Loop, AtReceivers
    <3>2. LoopInv'
      BY <1>1, <1>13, <2>1, <2>2, <3>1, OtherLoops DEF AllSent
    <3>. QED
      BY <1>1, <1>2, <1>13, <2>2, <3>1, <3>2 DEF AllSent
  <2>3. CASE g # LastGraph
    <3>1. NextFrame(g)
      BY <1>13, <2>3 DEF AllSent
    <3>2. Loop(g)'
      BY <1>1, <2>1, <3>1, Looping DEF Loop, AtReceivers
    <3>3. LoopInv'
      BY <1>1, <2>1, <3>1, <3>2, Looping, OtherLoops
    <3>. QED
      BY <1>1, <1>2, <1>13, <3>1, <3>3, Looping DEF AllSent
  <2>. QED
    BY <2>2, <2>3
<1>14. ASSUME ReadLatency PROVE Typed'
  <2>1. LastGraph \in Graphs /\ frame[LastGraph] \in 1 .. TotalFrames
    BY <1>1, Ends
  <2>2. <<arriving, frame[LastGraph]>> \in (0 .. TotalFrames) \X (1 .. TotalFrames)
    BY <1>1, <2>1
  <2>3. latencySum' \subseteq (0 .. TotalFrames) \X (1 .. TotalFrames)
    BY <1>1, <1>14, <2>2 DEF ReadLatency
  <2>4. pc' \in [Graphs -> Pcs] /\ Loop(LastGraph)'
    BY <1>1, <1>14, <2>1 DEF ReadLatency, Pcs, LoopInv, Loop, AtReceivers
  <2>5. LoopInv'
    BY <1>1, <1>14, <2>1, <2>4, OtherLoops DEF ReadLatency
  <2>. QED
    BY <1>1, <1>2, <1>14, <2>3, <2>4, <2>5 DEF ReadLatency
<1>15. ASSUME AddLatency PROVE Typed'
  <2>1. LastGraph \in Graphs
    BY Ends
  <2>2. pc' \in [Graphs -> Pcs] /\ Loop(LastGraph)'
    BY <1>1, <1>15, <2>1 DEF AddLatency, Pcs, LoopInv, Loop, AtReceivers
  <2>3. LoopInv'
    BY <1>1, <1>15, <2>1, <2>2, OtherLoops DEF AddLatency
  <2>. QED
    BY <1>1, <1>2, <1>15, <2>2, <2>3 DEF AddLatency
<1>16. ASSUME Signal PROVE Typed'
  <2>1. NextFrame(LastGraph) /\ LastGraph \in Graphs /\ pos' = pos
    BY <1>16, Ends DEF Signal
  <2>2. pos[LastGraph] = 1
    BY <1>1, <1>16, <2>1 DEF Signal, LoopInv, Loop, AtReceivers
  <2>3. Loop(LastGraph)'
    BY <1>1, <2>1, <2>2, Looping DEF Loop, AtReceivers
  <2>4. LoopInv'
    BY <1>1, <2>1, <2>3, Looping, OtherLoops
  <2>. QED
    BY <1>1, <1>2, <1>16, <2>1, <2>4, Looping DEF Signal
<1>17. ASSUME NEW c \in Channels, StoreReady(c) PROVE Typed'
  <2>1. readiness' \in [Channels -> {"busy", "announced", "ready"}]
    BY <1>1, <1>17 DEF StoreReady
  <2>2. LoopInv'
    BY <1>1, <1>17 DEF StoreReady, LoopInv, Loop, AtReceivers
  <2>. QED
    BY <1>1, <1>2, <1>17, <2>1, <2>2 DEF StoreReady
<1>18. CASE UNCHANGED vars
  <2>1. LoopInv'
    BY <1>1, <1>18 DEF vars, LoopInv, Loop, AtReceivers
  <2>. QED
    BY <1>1, <1>2, <1>18, <2>1 DEF vars
<1>. QED
  BY <1>4, <1>5, <1>6, <1>7, <1>8, <1>9, <1>10, <1>11, <1>12, <1>13, <1>14, <1>15, <1>16,
     <1>17, <1>18 DEF Next, Thread

\* Every variable keeps its type in every network: no thread indexes its receivers or
\* targets past their ends, and no loop counts more frames than were asked for.
THEOREM PipelineTyping == Spec => []TypeOK
<1>1. Typed => TypeOK
  BY DEF Typed
<1>. QED
  BY <1>1, InitTyped, NextTyped, PTL DEF Spec

--------------------------------------------------------------------------------
(* What is on its way over a channel. *)

\* Typing facts about a channel, for the provers.
LEMMA Counts ==
    ASSUME Typed, NEW c \in Channels
    PROVE  /\ Outlet(c) \in Nat \ {0} /\ Inlet(c) \in Nat \ {0}
           /\ frame[Source(c)] \in Nat \ {0} /\ frame[Dest(c)] \in Nat \ {0}
           /\ pos[Source(c)] \in Nat \ {0} /\ pos[Dest(c)] \in Nat \ {0}
           /\ Source(c) \in Graphs /\ Dest(c) \in Graphs /\ Source(c) # Dest(c)
           /\ Sent(c) \in Nat /\ Received(c) \in Nat /\ InTensor(c) \in Nat
           /\ buffer[c] \in Seq(1 .. TotalFrames) /\ Len(buffer[c]) \in Nat
           /\ dataSent[c] \in BOOLEAN
           /\ readiness[c] \in {"busy", "announced", "ready"}
<1>1. /\ Source(c) \in Graphs /\ Dest(c) \in Graphs /\ Source(c) < Dest(c)
      /\ Outlet(c) \in 1 .. Len(Targets[Source(c)])
      /\ Inlet(c) \in 1 .. Len(Receivers[Dest(c)])
  BY Wiring
<1>2. Outlet(c) \in Nat \ {0} /\ Inlet(c) \in Nat \ {0}
  BY <1>1, Ends
<1>3. Source(c) # Dest(c)
  <2>1. Source(c) \in Nat /\ Dest(c) \in Nat
    BY <1>1, Ends
  <2>. QED
    BY <1>1, <2>1
<1>4. /\ frame[Source(c)] \in 1 .. TotalFrames /\ frame[Dest(c)] \in 1 .. TotalFrames
      /\ pos[Source(c)] \in Nat \ {0} /\ pos[Dest(c)] \in Nat \ {0}
      /\ buffer[c] \in Seq(1 .. TotalFrames) /\ Len(buffer[c]) \in Nat
      /\ dataSent[c] \in BOOLEAN
      /\ readiness[c] \in {"busy", "announced", "ready"}
  BY <1>1 DEF Typed, TypeOK, LoopInv
<1>5. frame[Source(c)] \in Nat \ {0} /\ frame[Dest(c)] \in Nat \ {0}
  BY <1>4, Ends
<1>6. Sent(c) \in Nat /\ Received(c) \in Nat
  BY <1>5 DEF Sent, Received
<1>7. InTensor(c) \in Nat
  BY <1>6 DEF InTensor
<1>. QED
  BY <1>1, <1>2, <1>3, <1>4, <1>5, <1>6, <1>7

LEMMA SentKept ==
    ASSUME NEW c \in Channels, pc'[Source(c)] = pc[Source(c)],
           frame'[Source(c)] = frame[Source(c)], pos'[Source(c)] = pos[Source(c)]
    PROVE  Sent(c)' = Sent(c)
BY DEF Sent

LEMMA ReceivedKept ==
    ASSUME NEW c \in Channels, pc'[Dest(c)] = pc[Dest(c)],
           frame'[Dest(c)] = frame[Dest(c)], pos'[Dest(c)] = pos[Dest(c)]
    PROVE  Received(c)' = Received(c) /\ (Awaited(c)' <=> Awaited(c))
BY DEF Received, Awaited, PastReceivers, AtReceivers

\* A step that moves nothing over c, and at most shows a store to its receiver_ready.
LEMMA TransitKept ==
    ASSUME NEW c \in Channels, Transit(c),
           tensor'[c] = tensor[c], buffer'[c] = buffer[c], dataSent'[c] = dataSent[c],
           readiness'[c] = readiness[c] \/ (readiness[c] # "busy" /\ readiness'[c] # "busy"),
           Sent(c)' = Sent(c), Received(c)' = Received(c), Awaited(c)' <=> Awaited(c)
    PROVE  Transit(c)'
<1>1. InTensor(c)' = InTensor(c)
  BY DEF InTensor
<1>. QED
  BY <1>1 DEF Transit

LEMMA InitTransit == Init => TransitInv
<1>. SUFFICES ASSUME Init, NEW c \in Channels PROVE Transit(c)
  BY DEF TransitInv
<1>1. Source(c) \in Graphs /\ Dest(c) \in Graphs
  BY Wiring
<1>2. Len(buffer[c]) = 0
  BY DEF Init
<1>3. Sent(c) = 0 /\ Received(c) = 0 /\ dataSent[c] = FALSE /\ readiness[c] = "busy"
  BY <1>1 DEF Init, Sent, Received, PastReceivers, AtReceivers
<1>4. InTensor(c) = 0 /\ tensor[c] = 0
  BY <1>3 DEF InTensor, Init
<1>. QED
  BY <1>2, <1>3, <1>4 DEF Transit

\* The steps of a loop that leave the channels alone.
LEMMA LoopSteps ==
    ASSUME Typed, NEW c \in Channels, Transit(c), UNCHANGED channelVars, NEW g \in Graphs,
           \A h \in Graphs \ {g} : pc'[h] = pc[h] /\ frame'[h] = frame[h] /\ pos'[h] = pos[h],
           \/ /\ frame'[g] = frame[g]
              /\ ~PastReceivers(g) /\ ~PastReceivers(g)'
              /\ ~AtReceivers(g) /\ ~AtReceivers(g)'
           \/ /\ frame'[g] = frame[g]
              /\ AtReceivers(g) /\ pos[g] > Len(Receivers[g])
              /\ pc'[g] = "tasks"
           \/ /\ frame'[g] = frame[g] /\ pos'[g] = 1
              /\ pc[g] = "tasks" /\ pc'[g] = "send"
           \/ /\ pc[g] = "send" /\ pos[g] > Len(Targets[g])
              /\ \/ pc'[g] = "done" /\ frame'[g] = frame[g]
                 \/ pc'[g] = "start" /\ frame'[g] = frame[g] + 1
           \/ /\ g = LastGraph
              /\ PastReceivers(g)
              /\ \/ PastReceivers(g)' /\ frame'[g] = frame[g]
                 \/ pc'[g] = "start" /\ frame'[g] = frame[g] + 1
    PROVE  Transit(c)'
<1>1. /\ tensor'[c] = tensor[c] /\ buffer'[c] = buffer[c] /\ dataSent'[c] = dataSent[c]
      /\ readiness'[c] = readiness[c]
  BY DEF channelVars
<1>2. Sent(c)' = Sent(c)
  <2>1. CASE g = Source(c)
    <3>1. g # LastGraph /\ Outlet(c) <= Len(Targets[g]) /\ Len(Targets[g]) \in Nat
      BY <2>1, Wiring, Ends
    <3>. QED
      BY <2>1, <3>1, Counts DEF Sent, PastReceivers, AtReceivers
  <2>2. CASE g # Source(c)
    BY <2>2, Counts, SentKept
  <2>. QED
    BY <2>1, <2>2
<1>3. Received(c)' = Received(c) /\ (Awaited(c)' <=> Awaited(c))
  <2>1. CASE g = Dest(c)
    <3>1. Inlet(c) <= Len(Receivers[g]) /\ Len(Receivers[g]) \in Nat
      BY <2>1, Wiring, Ends
    <3>2. Inlet(c) \in Nat \ {0} /\ frame[g] \in Nat \ {0} /\ pos[g] \in Nat \ {0}
      BY <2>1, Counts
    <3>3. AtReceivers(g) => ~(pos[g] > Len(Receivers[g])) \/ pos[g] > Inlet(c)
      BY <3>1, <3>2
    <3>4. Received(c) = IF PastReceivers(g) \/ (AtReceivers(g) /\ pos[g] > Inlet(c))
                          THEN frame[g] ELSE frame[g] - 1
      BY <2>1 DEF Received
    <3>5. Received(c)' = IF PastReceivers(g)' \/ (AtReceivers(g)' /\ pos'[g] > Inlet(c))
                           THEN frame'[g] ELSE frame'[g] - 1
      BY <2>1 DEF Received
    <3>6. Awaited(c) <=> AtReceivers(g) /\ ~(pos[g] > Inlet(c))
      BY <2>1, <3>2 DEF Awaited
    <3>7. Awaited(c)' => AtReceivers(g)'
      BY <2>1 DEF Awaited
    <3>8. /\ ~Awaited(c) /\ ~AtReceivers(g)'
          /\ Received(c) = IF PastReceivers(g) \/ AtReceivers(g) THEN frame[g] ELSE frame[g] - 1
      BY <3>3, <3>4, <3>6 DEF PastReceivers, AtReceivers
    <3>9. Received(c)' = Received(c)
      BY <3>2, <3>5, <3>8 DEF PastReceivers, AtReceivers
    <3>. QED
      BY <3>7, <3>8, <3>9
  <2>2. CASE g # Dest(c)
    BY <2>2, Counts, ReceivedKept
  <2>. QED
    BY <2>1, <2>2
<1>. QED
  BY <1>1, <1>2, <1>3, TransitKept

\* Unlocking a mutex publishes the stores to the receivers of the graph, and only shows
\* what was announced.
LEMMA Publishing ==
    ASSUME NEW g \in Graphs, NEW c \in Channels, NEW status
    PROVE  /\ Published(g, status)[c] = status[c]
              \/ (status[c] # "busy" /\ Published(g, status)[c] # "busy")
           /\ status[c] = "busy" => Published(g, status)[c] = "busy"
BY DEF Published

\* Receiving from one channel leaves the others of the graph as they were.
LEMMA OtherReceivers ==
    ASSUME Typed, NEW g \in Graphs, AtReceivers(g), AtReceivers(g)',
           pos[g] \in 1 .. Len(Receivers[g]),
           pos' = [pos EXCEPT ![g] = @ + 1], frame' = frame,
           \A h \in Graphs \ {g} : pc'[h] = pc[h],
           NEW c \in Channels, c # Receiver(g)
    PROVE  Sent(c)' = Sent(c) /\ Received(c)' = Received(c) /\ (Awaited(c)' <=> Awaited(c))
<1>1. Sent(c)' = Sent(c)
  <2>1. CASE g = Source(c)
    <3>1. Sent(c) = frame[g] - 1 /\ Sent(c)' = frame'[g] - 1
      BY <2>1 DEF Sent, AtReceivers
    <3>. QED
      BY <3>1
  <2>2. CASE g # Source(c)
    <3>1. pos'[Source(c)] = pos[Source(c)] /\ pc'[Source(c)] = pc[Source(c)]
      BY <2>2, Counts DEF Typed, LoopInv
    <3>. QED
      BY <3>1, SentKept
  <2>. QED
    BY <2>1, <2>2
<1>2. Received(c)' = Received(c) /\ (Awaited(c)' <=> Awaited(c))
  <2>1. CASE g = Dest(c)
    <3>1. Inlet(c) # pos[g]
      BY <2>1, Wiring DEF Receiver
    <3>2. /\ pos'[g] = pos[g] + 1 /\ pos[g] \in Nat /\ Inlet(c) \in Nat
      BY <2>1, Counts DEF Typed, LoopInv
    <3>3. pos'[g] > Inlet(c) <=> pos[g] > Inlet(c)
      BY <3>1, <3>2
    <3>4. pos'[g] <= Inlet(c) <=> pos[g] <= Inlet(c)
      BY <3>1, <3>2
    <3>. QED
      BY <2>1, <3>3, <3>4 DEF Received, Awaited, PastReceivers, AtReceivers
  <2>2. CASE g # Dest(c)
    <3>1. pos'[Dest(c)] = pos[Dest(c)] /\ pc'[Dest(c)] = pc[Dest(c)]
      BY <2>2, Counts DEF Typed, LoopInv
    <3>. QED
      BY <3>1, ReceivedKept
  <2>. QED
    BY <2>1, <2>2
<1>. QED
  BY <1>1, <1>2

\* Receiving from a channel takes the frame its graph awaited from it.
LEMMA OneReceived ==
    ASSUME Typed, NEW g \in Graphs, AtReceivers(g), AtReceivers(g)',
           pos[g] \in 1 .. Len(Receivers[g]),
           pos' = [pos EXCEPT ![g] = @ + 1], frame' = frame,
           \A h \in Graphs \ {g} : pc'[h] = pc[h],
           NEW c, c = Receiver(g)
    PROVE  /\ c \in Channels /\ Dest(c) = g /\ Awaited(c) /\ ~Awaited(c)'
           /\ Sent(c)' = Sent(c) /\ Received(c)' = Received(c) + 1
<1>1. c \in Channels /\ Dest(c) = g /\ Inlet(c) = pos[g]
  BY ReceiverChannel DEF Receiver
<1>2. pos'[g] = pos[g] + 1 /\ pos[g] \in Nat /\ frame[g] \in Nat \ {0} /\ g # Source(c)
  BY <1>1, Counts DEF Typed, LoopInv
<1>3. Awaited(c) /\ ~Awaited(c)'
  BY <1>1, <1>2 DEF Awaited
<1>4. Received(c) = frame[g] - 1 /\ Received(c)' = frame[g]
  BY <1>1, <1>2 DEF Received, PastReceivers, AtReceivers
<1>5. Sent(c)' = Sent(c)
  <2>1. pos'[Source(c)] = pos[Source(c)] /\ pc'[Source(c)] = pc[Source(c)]
    BY <1>1, <1>2, Counts DEF Typed, LoopInv
  <2>. QED
    BY <1>1, <2>1, SentKept
<1>. QED
  BY <1>1, <1>2, <1>3, <1>4, <1>5

LEMMA AnnounceTransit ==
    ASSUME Typed, TransitInv, NEW g \in Graphs, Announce(g), NEW c \in Channels
    PROVE  Transit(c)'
<1>1. /\ pc[g] = "announce" /\ pc'[g] = "receive" /\ frame' = frame /\ pos'[g] = 1
      /\ tensor' = tensor /\ buffer' = buffer /\ dataSent' = dataSent
      /\ \A h \in Graphs \ {g} : pc'[h] = pc[h] /\ pos'[h] = pos[h]
      /\ readiness'[c] = IF c \in Range(Receivers[g]) THEN "announced" ELSE readiness[c]
  BY DEF Announce, GoTo, Typed, TypeOK, LoopInv
<1>2. Transit(c)
  BY DEF TransitInv
<1>3. Sent(c)' = Sent(c)
  <2>1. CASE g = Source(c)
    BY <1>1, <2>1 DEF Sent
  <2>2. CASE g # Source(c)
    BY <1>1, <2>2, Counts, SentKept
  <2>. QED
    BY <2>1, <2>2
<1>4. CASE g = Dest(c)
  <2>1. readiness'[c] = "announced"
    BY <1>1, <1>4, InReceivers
  <2>2. ~Awaited(c) /\ ~dataSent[c]
    BY <1>1, <1>2, <1>4 DEF Awaited, AtReceivers, Transit
  <2>3. Awaited(c)'
    BY <1>1, <1>4, Counts DEF Awaited, AtReceivers
  <2>4. Received(c)' = Received(c)
    BY <1>1, <1>4, Counts DEF Received, PastReceivers, AtReceivers
  <2>5. InTensor(c)' = InTensor(c)
    BY <1>1, <2>4 DEF InTensor
  <2>. QED
    BY <1>1, <1>2, <1>3, <2>1, <2>2, <2>3, <2>5 DEF Transit
<1>5. CASE g # Dest(c)
  <2>1. readiness'[c] = readiness[c]
    BY <1>1, <1>5, InReceivers
  <2>2. Received(c)' = Received(c) /\ (Awaited(c)' <=> Awaited(c))
    BY <1>1, <1>5, Counts, ReceivedKept
  <2>. QED
    BY <1>1, <1>2, <1>3, <2>1, <2>2, TransitKept
<1>. QED
  BY <1>4, <1>5

LEMMA ReceiveTransferredTransit ==
    ASSUME Typed, TransitInv, NEW g \in Graphs, ReceiveTransferred(g), NEW c \in Channels
    PROVE  Transit(c)'
<1>1. /\ AtReceivers(g) /\ AtReceivers(g)' /\ pos[g] <= Len(Receivers[g])
      /\ pos' = [pos EXCEPT ![g] = @ + 1] /\ frame' = frame
      /\ tensor' = tensor /\ buffer' = buffer
      /\ \A h \in Graphs \ {g} : pc'[h] = pc[h]
      /\ dataSent[Receiver(g)]
      /\ dataSent' = [dataSent EXCEPT ![Receiver(g)] = FALSE]
      /\ readiness' = Published(g, readiness)
  BY DEF ReceiveTransferred, MoreReceivers, GoTo, Typed, TypeOK, AtReceivers
<1>2. pos[g] \in 1 .. Len(Receivers[g])
  <2>1. pos[g] \in Nat \ {0} /\ Len(Receivers[g]) \in Nat
    BY Ends DEF Typed, LoopInv
  <2>. QED
    BY <1>1, <2>1
<1>3. Transit(c)
  BY DEF TransitInv
<1>4. CASE c = Receiver(g)
  <2>1. /\ Sent(c)' = Sent(c) /\ Received(c)' = Received(c) + 1
    BY <1>1, <1>2, <1>4, OneReceived
  <2>2. dataSent[c] /\ ~dataSent'[c]
    BY <1>1, <1>4 DEF Typed, TypeOK
  <2>3. readiness'[c] = "busy"
    BY <1>1, <1>3, <2>2, Publishing DEF Transit
  <2>4. InTensor(c)' = InTensor(c)
    BY <2>1, <2>2, Counts DEF InTensor
  <2>. QED
    BY <1>1, <1>3, <2>1, <2>2, <2>3, <2>4 DEF Transit
<1>5. CASE c # Receiver(g)
  <2>1. dataSent'[c] = dataSent[c]
    BY <1>1, <1>5 DEF Typed, TypeOK
  <2>2. readiness'[c] = readiness[c] \/ (readiness[c] # "busy" /\ readiness'[c] # "busy")
    BY <1>1, Publishing
  <2>. QED
    BY <1>1, <1>2, <1>3, <1>5, <2>1, <2>2, OtherReceivers, TransitKept
<1>. QED
  BY <1>4, <1>5

LEMMA ReceiveQueuedTransit ==
    ASSUME Typed, TransitInv, NEW g \in Graphs, ReceiveQueued(g), NEW c \in Channels
    PROVE  Transit(c)'
<1>. DEFINE busied == [readiness EXCEPT ![Receiver(g)] = "busy"]
<1>1. /\ AtReceivers(g) /\ AtReceivers(g)' /\ pos[g] <= Len(Receivers[g])
      /\ pos' = [pos EXCEPT ![g] = @ + 1] /\ frame' = frame
      /\ \A h \in Graphs \ {g} : pc'[h] = pc[h]
      /\ ~dataSent[Receiver(g)] /\ dataSent' = dataSent
      /\ buffer[Receiver(g)] # <<>>
      /\ tensor' = [tensor EXCEPT ![Receiver(g)] = Head(buffer[Receiver(g)])]
      /\ buffer' = [buffer EXCEPT ![Receiver(g)] = Tail(@)]
      /\ readiness' = Published(g, busied)
  BY DEF ReceiveQueued, MoreReceivers, AtReceivers
<1>2. pos[g] \in 1 .. Len(Receivers[g])
  <2>1. pos[g] \in Nat \ {0} /\ Len(Receivers[g]) \in Nat
    BY Ends DEF Typed, LoopInv
  <2>. QED
    BY <1>1, <2>1
<1>3. Transit(c)
  BY DEF TransitInv
<1>4. CASE c = Receiver(g)
  <2>1. /\ Sent(c)' = Sent(c) /\ Received(c)' = Received(c) + 1
    BY <1>1, <1>2, <1>4, OneReceived
  <2>2. ~dataSent[c] /\ ~dataSent'[c] /\ tensor'[c] = Head(buffer[c]) /\ buffer'[c] = Tail(buffer[c])
    BY <1>1, <1>4 DEF Typed, TypeOK
  <2>3. readiness'[c] = "busy"
    <3>1. busied[c] = "busy"
      BY <1>4 DEF Typed, TypeOK
    <3>. HIDE DEF busied
    <3>. QED
      BY <1>1, <3>1, Publishing
  <2>4. InTensor(c) = Received(c) /\ InTensor(c)' = Received(c) + 1
    BY <2>1, <2>2 DEF InTensor
  <2>5. buffer[c] \in Seq(1 .. TotalFrames) /\ buffer[c] # <<>> /\ Received(c) \in Nat
    BY <1>1, <1>4, Counts
  <2>6. /\ Len(buffer[c]) \in Nat \ {0} /\ Len(Tail(buffer[c])) = Len(buffer[c]) - 1
        /\ \A k \in 1 .. Len(Tail(buffer[c])) : Tail(buffer[c])[k] = buffer[c][k + 1]
        /\ Head(buffer[c]) = buffer[c][1]
    BY <2>5, HeadTailProperties
  <2>7. tensor'[c] = InTensor(c)'
    BY <1>3, <2>2, <2>4, <2>5, <2>6 DEF Transit
  <2>8. Len(buffer'[c]) + InTensor(c)' = Sent(c)'
    BY <1>3, <2>1, <2>2, <2>4, <2>5, <2>6 DEF Transit
  <2>9. ASSUME NEW k \in 1 .. Len(buffer'[c]) PROVE buffer'[c][k] = InTensor(c)' + k
    <3>1. k \in Nat /\ k + 1 \in 1 .. Len(buffer[c]) /\ buffer'[c][k] = buffer[c][k + 1]
      BY <2>2, <2>6, <2>9
    <3>2. buffer[c][k + 1] = Received(c) + (k + 1)
      BY <1>3, <2>4, <3>1 DEF Transit
    <3>. QED
      BY <2>4, <2>5, <3>1, <3>2
  <2>. QED
    BY <2>2, <2>3, <2>7, <2>8, <2>9 DEF Transit
<1>5. CASE c # Receiver(g)
  <2>1. tensor'[c] = tensor[c] /\ buffer'[c] = buffer[c] /\ dataSent'[c] = dataSent[c]
    BY <1>1, <1>5 DEF Typed, TypeOK
  <2>2. readiness'[c] = readiness[c] \/ (readiness[c] # "busy" /\ readiness'[c] # "busy")
    <3>1. busied[c] = readiness[c]
      BY <1>5 DEF Typed, TypeOK
    <3>. HIDE DEF busied
    <3>. QED
      BY <1>1, <3>1, Publishing
  <2>3. Sent(c)' = Sent(c) /\ Received(c)' = Received(c) /\ (Awaited(c)' <=> Awaited(c))
    BY <1>1, <1>2, <1>5, OtherReceivers
  <2>. QED
    BY <1>3, <2>1, <2>2, <2>3, TransitKept
<1>. QED
  BY <1>4, <1>5

LEMMA SleepTransit ==
    ASSUME Typed, TransitInv, NEW g \in Graphs, Sleep(g), NEW c \in Channels
    PROVE  Transit(c)'
<1>1. /\ AtReceivers(g) /\ AtReceivers(g)' /\ frame' = frame /\ pos' = pos
      /\ tensor' = tensor /\ buffer' = buffer /\ dataSent' = dataSent
      /\ \A h \in Graphs \ {g} : pc'[h] = pc[h]
      /\ readiness' = Published(g, readiness)
  BY DEF Sleep, GoTo, Typed, TypeOK, AtReceivers
<1>2. readiness'[c] = readiness[c] \/ (readiness[c] # "busy" /\ readiness'[c] # "busy")
  BY <1>1, Publishing
<1>3. Sent(c)' = Sent(c)
  BY <1>1, Counts, SentKept DEF Sent, AtReceivers
<1>4. Received(c)' = Received(c) /\ (Awaited(c)' <=> Awaited(c))
  BY <1>1, Counts, ReceivedKept DEF Received, Awaited, PastReceivers, AtReceivers
<1>. QED
  BY <1>1, <1>2, <1>3, <1>4, TransitKept DEF TransitInv

LEMMA SendTransit ==
    ASSUME Typed, TransitInv, NEW g \in Graphs, Send(g), NEW c \in Channels
    PROVE  Transit(c)'
<1>. DEFINE target == Targets[g][pos[g]]
<1>1. /\ pc[g] = "send" /\ pos[g] <= Len(Targets[g])
      /\ pc' = pc /\ frame' = frame /\ pos' = [pos EXCEPT ![g] = @ + 1]
      /\ \/ /\ readiness[target] # "ready" \/ buffer[target] # <<>>
            /\ buffer' = [buffer EXCEPT ![target] = Append(@, frame[g])]
            /\ UNCHANGED <<tensor, readiness, dataSent>>
         \/ /\ readiness[target] = "ready" /\ buffer[target] = <<>>
            /\ readiness' = [readiness EXCEPT ![target] = "busy"]
            /\ tensor' = [tensor EXCEPT ![target] = frame[g]]
            /\ dataSent' = [dataSent EXCEPT ![target] = TRUE]
            /\ UNCHANGED buffer
  BY DEF Send
<1>2. pos[g] \in 1 .. Len(Targets[g]) /\ pos[g] \in Nat \ {0}
  <2>1. pos[g] \in Nat \ {0} /\ Len(Targets[g]) \in Nat
    BY Ends DEF Typed, LoopInv
  <2>. QED
    BY <1>1, <2>1
<1>3. target \in Channels /\ Source(target) = g /\ Outlet(target) = pos[g]
  BY <1>2, TargetChannel
<1>. HIDE DEF target
<1>4. Transit(c)
  BY DEF TransitInv
<1>5. pos'[g] = pos[g] + 1 /\ \A h \in Graphs \ {g} : pos'[h] = pos[h]
  BY <1>1 DEF Typed, LoopInv
<1>6. Received(c)' = Received(c) /\ (Awaited(c)' <=> Awaited(c))
  <2>1. CASE g = Dest(c)
    BY <1>1, <2>1 DEF Received, Awaited, PastReceivers, AtReceivers
  <2>2. CASE g # Dest(c)
    BY <1>1, <1>5, <2>2, Counts, ReceivedKept
  <2>. QED
    BY <2>1, <2>2
<1>7. CASE c = target
  <2>1. Sent(c) = frame[g] - 1 /\ Sent(c)' = frame[g] /\ frame[g] \in Nat \ {0}
    BY <1>1, <1>2, <1>3, <1>5, <1>7, Counts DEF Sent
  <2>2. CASE buffer' = [buffer EXCEPT ![target] = Append(@, frame[g])]
             /\ UNCHANGED <<tensor, readiness, dataSent>>
    <3>1. /\ buffer'[c] = Append(buffer[c], frame[g]) /\ tensor'[c] = tensor[c]
          /\ readiness'[c] = readiness[c] /\ dataSent'[c] = dataSent[c]
      BY <1>7, <2>2 DEF Typed, TypeOK
    <3>2. /\ buffer[c] \in Seq(1 .. TotalFrames) /\ Len(buffer[c]) \in Nat
          /\ InTensor(c) \in Nat
      BY Counts
    <3>3. /\ Len(Append(buffer[c], frame[g])) = Len(buffer[c]) + 1
          /\ \A k \in 1 .. Len(buffer[c]) : Append(buffer[c], frame[g])[k] = buffer[c][k]
          /\ Append(buffer[c], frame[g])[Len(buffer[c]) + 1] = frame[g]
      BY <3>2
    <3>4. InTensor(c)' = InTensor(c)
      BY <1>6, <3>1 DEF InTensor
    <3>5. Len(buffer[c]) + InTensor(c) = frame[g] - 1
      BY <1>4, <2>1 DEF Transit
    <3>6. Len(buffer'[c]) = Len(buffer[c]) + 1
      BY <3>1, <3>3, Zenon
    <3>7. \A l, i \in Nat, f \in Nat \ {0} : l + i = f - 1 => (l + 1) + i = f
      OBVIOUS
    <3>8. (Len(buffer[c]) + 1) + InTensor(c) = frame[g]
      BY <2>1, <3>2, <3>5, <3>7
    <3>9. Len(buffer'[c]) + InTensor(c)' = Sent(c)'
      BY <2>1, <3>4, <3>8, <3>6
    <3>10. ASSUME NEW k \in 1 .. Len(buffer'[c]) PROVE buffer'[c][k] = InTensor(c)' + k
      <4>1. CASE k \in 1 .. Len(buffer[c])
        BY <1>4, <3>1, <3>3, <3>4, <4>1 DEF Transit
      <4>2. CASE k = Len(buffer[c]) + 1
        <5>1. buffer'[c][k] = frame[g]
          BY <3>1, <3>3, <4>2
        <5>. QED
          BY <3>2, <3>4, <3>8, <4>2, <5>1
      <4>. QED
        BY <3>1, <3>2, <3>3, <3>10, <4>1, <4>2
    <3>. QED
      BY <1>4, <1>6, <3>1, <3>4, <3>9, <3>10 DEF Transit
  <2>3. CASE /\ readiness[target] = "ready" /\ buffer[target] = <<>>
             /\ readiness' = [readiness EXCEPT ![target] = "busy"]
             /\ tensor' = [tensor EXCEPT ![target] = frame[g]]
             /\ dataSent' = [dataSent EXCEPT ![target] = TRUE]
             /\ UNCHANGED buffer
    <3>1. /\ readiness[c] = "ready" /\ Len(buffer[c]) = 0 /\ buffer'[c] = buffer[c]
          /\ readiness'[c] = "busy" /\ tensor'[c] = frame[g] /\ dataSent'[c] = TRUE
      BY <1>7, <2>3 DEF Typed, TypeOK
    <3>2. ~dataSent[c] /\ Awaited(c)
      BY <1>4, <3>1 DEF Transit
    <3>3. InTensor(c) = Received(c) /\ InTensor(c)' = Received(c) + 1 /\ Received(c) \in Nat
      BY <1>6, <3>1, <3>2, Counts DEF InTensor
    <3>4. Received(c) = frame[g] - 1
      BY <1>4, <2>1, <3>1, <3>3 DEF Transit
    <3>. QED
      BY <1>6, <2>1, <3>1, <3>2, <3>3, <3>4 DEF Transit
  <2>. QED
    BY <1>1, <2>2, <2>3
<1>8. CASE c # target
  <2>1. /\ tensor'[c] = tensor[c] /\ buffer'[c] = buffer[c]
        /\ dataSent'[c] = dataSent[c] /\ readiness'[c] = readiness[c]
    BY <1>1, <1>8 DEF Typed, TypeOK
  <2>2. Sent(c)' = Sent(c)
    <3>1. CASE g = Source(c)
      <4>1. Outlet(c) # pos[g] /\ Outlet(c) \in Nat
        BY <1>8, <3>1, Wiring, Counts DEF target
      <4>2. pos'[g] > Outlet(c) <=> pos[g] > Outlet(c)
        BY <1>2, <1>5, <4>1
      <4>. QED
        BY <1>1, <3>1, <4>2 DEF Sent
    <3>2. CASE g # Source(c)
      BY <1>1, <1>5, <3>2, Counts, SentKept
    <3>. QED
      BY <3>1, <3>2
  <2>. QED
    BY <1>4, <1>6, <2>1, <2>2, TransitKept
<1>. QED
  BY <1>7, <1>8

LEMMA NextTransit == Typed /\ TransitInv /\ [Next]_vars => TransitInv'
<1>. SUFFICES ASSUME Typed, TransitInv, [Next]_vars, NEW c \in Channels PROVE Transit(c)'
  BY DEF TransitInv
<1>. USE DEF GoTo, threadVars, sharedVars
<1>1. /\ pc \in [Graphs -> Pcs] /\ frame \in [Graphs -> 1 .. TotalFrames]
      /\ pos \in [Graphs -> Nat \ {0}] /\ Transit(c)
  BY DEF Typed, TypeOK, LoopInv, TransitInv
<1>2. ASSUME NEW g \in Graphs, Start(g) PROVE Transit(c)'
  BY <1>1, <1>2, LoopSteps DEF Start, PastReceivers, AtReceivers
<1>3. ASSUME AwaitLast PROVE Transit(c)'
  BY <1>1, <1>3, LoopSteps, Ends DEF AwaitLast, PastReceivers, AtReceivers
<1>4. ASSUME NEW g \in Graphs, AllReceived(g) PROVE Transit(c)'
  <2>1. pos[g] > Len(Receivers[g])
    BY <1>1, <1>4, Ends DEF AllReceived, MoreReceivers
  <2>. QED
    BY <1>1, <1>4, <2>1, LoopSteps DEF AllReceived, AtReceivers
<1>5. ASSUME NEW g \in Graphs, RunTasks(g) PROVE Transit(c)'
  <2>1. pos'[g] = 1
    BY <1>5 DEF RunTasks, Typed, LoopInv, Loop, AtReceivers
  <2>. QED
    BY <1>1, <1>5, <2>1, LoopSteps DEF RunTasks
<1>6. ASSUME NEW g \in Graphs, AllSent(g) PROVE Transit(c)'
  <2>1. CASE g = LastGraph
    BY <1>1, <1>6, <2>1, LoopSteps DEF AllSent, PastReceivers
  <2>2. CASE g # LastGraph
    <3>1. NextFrame(g) /\ pc[g] = "send" /\ pos[g] > Len(Targets[g])
          /\ UNCHANGED channelVars /\ pos' = [pos EXCEPT ![g] = 1]
      BY <1>6, <2>2 DEF AllSent
    <3>. QED
      BY <1>1, <3>1, Looping, LoopSteps
  <2>. QED
    BY <2>1, <2>2
<1>7. ASSUME ReadLatency PROVE Transit(c)'
  BY <1>1, <1>7, LoopSteps, Ends DEF ReadLatency, PastReceivers
<1>8. ASSUME AddLatency PROVE Transit(c)'
  BY <1>1, <1>8, LoopSteps, Ends DEF AddLatency, PastReceivers
<1>9. ASSUME Signal PROVE Transit(c)'
  <2>1. /\ NextFrame(LastGraph) /\ pc[LastGraph] = "signal" /\ pos' = pos
        /\ UNCHANGED channelVars /\ LastGraph \in Graphs
    BY <1>9, Ends DEF Signal
  <2>2. PastReceivers(LastGraph)
    BY <2>1 DEF PastReceivers
  <2>3. \/ PastReceivers(LastGraph)' /\ frame'[LastGraph] = frame[LastGraph]
        \/ pc'[LastGraph] = "start" /\ frame'[LastGraph] = frame[LastGraph] + 1
    BY <2>1, Looping DEF PastReceivers
  <2>. QED
    BY <1>1, <2>1, <2>2, <2>3, Looping, LoopSteps
<1>10. ASSUME NEW d \in Channels, StoreReady(d) PROVE Transit(c)'
  <2>1. /\ tensor' = tensor /\ buffer' = buffer /\ dataSent' = dataSent
        /\ pc' = pc /\ frame' = frame /\ pos' = pos
        /\ readiness'[c] = readiness[c] \/ (readiness[c] # "busy" /\ readiness'[c] # "busy")
    BY <1>10 DEF StoreReady, Typed, TypeOK
  <2>. QED
    BY <1>1, <2>1, SentKept, ReceivedKept, TransitKept
<1>11. CASE UNCHANGED vars
  BY <1>1, <1>11, SentKept, ReceivedKept, TransitKept DEF vars, channelVars
<1>. QED
  BY <1>2, <1>3, <1>4, <1>5, <1>6, <1>7, <1>8, <1>9, <1>10, <1>11, AnnounceTransit,
     ReceiveTransferredTransit, ReceiveQueuedTransit, SleepTransit, SendTransit
     DEF Next, Thread

LEMMA ChannelsAlways == Spec => [](Typed /\ TransitInv)
  BY InitTyped, NextTyped, InitTransit, NextTransit, PTL DEF Spec

\* When a graph of any network runs its tasks for the n-th time, each of its receivers
\* holds frame n, whichever of its channels transferred and whichever queued, and however
\* far its senders are ahead.
THEOREM AlignedInputs == Spec => []InputsAligned
<1>1. ASSUME Typed, TransitInv PROVE InputsAligned
  <2>1. SUFFICES ASSUME NEW c \in Channels, pc[Dest(c)] = "tasks"
                 PROVE  tensor[c] = frame[Dest(c)] /\ ~dataSent[c]
    BY DEF InputsAligned
  <2>2. Transit(c)
    BY <1>1 DEF TransitInv
  <2>3. ~dataSent[c]
    BY <2>1, <2>2 DEF Transit, Awaited, AtReceivers
  <2>4. tensor[c] = Received(c)
    BY <2>2, <2>3 DEF Transit, InTensor
  <2>. QED
    BY <2>1, <2>3, <2>4 DEF Received, PastReceivers
<1>. QED
  BY <1>1, ChannelsAlways, PTL

--------------------------------------------------------------------------------
(* One frame at a time. *)

\* The frames graph g has taken from all its receivers.
Taken(g) == IF PastReceivers(g) THEN frame[g] ELSE frame[g] - 1

\* The frames the first graph has started on, and those the last one has finished.
Admitted == IF pc[0] \in {"start", "await"} THEN frame[0] - 1 ELSE frame[0]
Completed == IF pc[LastGraph] = "done" THEN TotalFrames ELSE frame[LastGraph] - 1

\* ready is set exactly between the end of a frame in the last graph and the start of the
\* next one in the first graph, and no graph is ahead of the first one.
SwitchInv ==
    /\ \A g \in Graphs : Taken(g) <= Admitted
    /\ Completed <= Admitted /\ Admitted <= Completed + 1
    /\ lastReady <=> Admitted = Completed
    /\ arriving = Admitted

SwitchTyped == Typed /\ TransitInv /\ SwitchInv

LEMMA Progress ==
    ASSUME Typed
    PROVE  /\ Admitted \in Nat /\ Completed \in Nat
           /\ \A g \in Graphs : Taken(g) \in Nat /\ frame[g] \in Nat \ {0}
                                /\ frame[g] <= TotalFrames
<1>1. \A g \in Graphs : frame[g] \in Nat \ {0} /\ frame[g] <= TotalFrames
  <2>1. \A g \in Graphs : frame[g] \in 1 .. TotalFrames
    BY DEF Typed, TypeOK
  <2>. QED
    BY <2>1, Ends
<1>2. \A g \in Graphs : Taken(g) \in Nat
  BY <1>1 DEF Taken
<1>. QED
  BY <1>1, <1>2, Ends DEF Admitted, Completed

\* A graph takes no frame its senders have not taken before.
LEMMA Downstream ==
    ASSUME Typed, NEW c \in Channels, Transit(c)
    PROVE  /\ Taken(Dest(c)) <= Taken(Source(c))
           /\ AtReceivers(Dest(c)) /\ pos[Dest(c)] > Inlet(c) =>
                frame[Dest(c)] <= Taken(Source(c))
<1>. DEFINE g == Source(c)  h == Dest(c)
<1>1. /\ frame[g] \in Nat \ {0} /\ frame[h] \in Nat \ {0}
      /\ Sent(c) \in Nat /\ Received(c) \in Nat /\ Len(buffer[c]) \in Nat
  BY Counts
<1>2. Received(c) <= Sent(c)
  <2>1. InTensor(c) = Received(c) \/ InTensor(c) = Received(c) + 1
    BY DEF InTensor
  <2>2. Len(buffer[c]) + InTensor(c) = Sent(c)
    BY DEF Transit
  <2>. QED
    BY <1>1, <2>1, <2>2
<1>3. Sent(c) <= Taken(g)
  BY <1>1 DEF Sent, Taken, PastReceivers
<1>4. /\ Taken(h) <= Received(c)
      /\ AtReceivers(h) /\ pos[h] > Inlet(c) => frame[h] = Received(c)
  BY <1>1 DEF Received, Taken
<1>5. Taken(g) \in Nat /\ Taken(h) \in Nat
  BY <1>1 DEF Taken
<1>. HIDE DEF g, h
<1>6. /\ Taken(h) <= Taken(g)
      /\ AtReceivers(h) /\ pos[h] > Inlet(c) => frame[h] <= Taken(g)
  BY <1>1, <1>2, <1>3, <1>4, <1>5
<1>. QED
  BY <1>6 DEF g, h

\* The steps that take no frame and admit none.
LEMMA TakenKept ==
    ASSUME Typed, NEW g \in Graphs,
           \A h \in Graphs \ {g} : pc'[h] = pc[h] /\ frame'[h] = frame[h],
           \/ /\ frame'[g] = frame[g]
              /\ ~PastReceivers(g) /\ ~PastReceivers(g)'
              /\ g = 0 => (pc[g] \in {"start", "await"} <=> pc'[g] \in {"start", "await"})
           \/ /\ PastReceivers(g)
              /\ \/ PastReceivers(g)' /\ frame'[g] = frame[g]
                 \/ pc'[g] = "start" /\ frame'[g] = frame[g] + 1
    PROVE  Admitted' = Admitted /\ \A h \in Graphs : Taken(h)' = Taken(h)
<1>1. frame[g] \in Nat \ {0} /\ 0 \in Graphs
  BY Progress, Ends
<1>2. Taken(g)' = Taken(g)
  BY <1>1 DEF Taken, PastReceivers
<1>3. ASSUME NEW h \in Graphs \ {g} PROVE Taken(h)' = Taken(h)
  BY <1>3 DEF Taken, PastReceivers
<1>4. Admitted' = Admitted
  <2>1. CASE g = 0
    BY <1>1, <2>1 DEF Admitted, PastReceivers
  <2>2. CASE g # 0
    BY <1>1, <2>2 DEF Admitted
  <2>. QED
    BY <2>1, <2>2
<1>. QED
  BY <1>2, <1>3, <1>4

LEMMA CompletedKept ==
    ASSUME Typed, NEW g \in Graphs,
           \A h \in Graphs \ {g} : pc'[h] = pc[h] /\ frame'[h] = frame[h],
           g = LastGraph => pc[g] # "done" /\ pc'[g] # "done" /\ frame'[g] = frame[g]
    PROVE  Completed' = Completed
BY Ends DEF Completed

\* Where the network is after a step: as before, a graph may have taken a frame that was
\* admitted; or one frame further at its start or at its end.
Moved ==
    /\ \A h \in Graphs : Taken(h)' <= Admitted
    /\ Admitted' = Admitted /\ Completed' = Completed
    /\ lastReady' = lastReady /\ arriving' = arriving

Admitting ==
    /\ lastReady /\ Admitted < TotalFrames
    /\ \A h \in Graphs : Taken(h)' = Taken(h)
    /\ Admitted' = Admitted + 1 /\ Completed' = Completed
    /\ lastReady' = FALSE /\ arriving' = Admitted + 1

Completing ==
    /\ Completed + 1 <= Admitted
    /\ \A h \in Graphs : Taken(h)' = Taken(h)
    /\ Admitted' = Admitted /\ Completed' = Completed + 1
    /\ lastReady' = TRUE /\ arriving' = arriving

LEMMA Steps ==
    ASSUME SwitchTyped, [Next]_vars
    PROVE  Moved \/ Admitting \/ Completing
<1>. USE DEF GoTo, threadVars, sharedVars
<1>1. /\ pc \in [Graphs -> Pcs] /\ frame \in [Graphs -> 1 .. TotalFrames]
      /\ Typed /\ TransitInv /\ SwitchInv
  BY DEF SwitchTyped, Typed, TypeOK
<1>2. ASSUME lastReady' = lastReady, arriving' = arriving, Admitted' = Admitted,
             Completed' = Completed, \A h \in Graphs : Taken(h)' = Taken(h)
      PROVE  Moved
  BY <1>1, <1>2 DEF Moved, SwitchInv
<1>3. ASSUME NEW g \in Graphs, Start(g) PROVE Moved
  BY <1>1, <1>2, <1>3, TakenKept, CompletedKept DEF Start, PastReceivers
<1>4. ASSUME AwaitLast PROVE Admitting
  <2>1. /\ 0 \in Graphs /\ LastGraph \in Graphs /\ frame[0] \in Nat \ {0}
        /\ frame[0] <= TotalFrames /\ TotalFrames \in Nat
    BY <1>1, Progress, Ends
  <2>2. /\ lastReady /\ pc[0] = "await" /\ pc'[0] = "announce" /\ frame' = frame
        /\ \A h \in Graphs \ {0} : pc'[h] = pc[h]
        /\ lastReady' = FALSE /\ arriving' = frame[0]
    BY <1>1, <1>4, <2>1 DEF AwaitLast
  <2>3. Admitted = frame[0] - 1 /\ Admitted' = frame[0]
    BY <2>2 DEF Admitted
  <2>4. Completed' = Completed
    BY <1>1, <2>1, <2>2, CompletedKept
  <2>5. \A h \in Graphs : Taken(h)' = Taken(h)
    BY <2>2 DEF Taken, PastReceivers
  <2>. QED
    BY <2>1, <2>2, <2>3, <2>4, <2>5 DEF Admitting
<1>5. ASSUME NEW g \in Graphs, Announce(g) PROVE Moved
  BY <1>1, <1>2, <1>5, TakenKept, CompletedKept DEF Announce, PastReceivers
<1>6. ASSUME NEW g \in Graphs, ReceiveTransferred(g) PROVE Moved
  BY <1>1, <1>2, <1>6, TakenKept, CompletedKept DEF ReceiveTransferred, PastReceivers
<1>7. ASSUME NEW g \in Graphs, ReceiveQueued(g) PROVE Moved
  BY <1>1, <1>2, <1>7, TakenKept, CompletedKept DEF ReceiveQueued, PastReceivers
<1>8. ASSUME NEW g \in Graphs, Sleep(g) PROVE Moved
  BY <1>1, <1>2, <1>8, TakenKept, CompletedKept DEF Sleep, PastReceivers
<1>9. ASSUME NEW g \in Graphs, AllReceived(g) PROVE Moved
  <2>1. /\ pc[g] = "receive" /\ pos[g] > Len(Receivers[g])
        /\ pc'[g] = "tasks" /\ frame' = frame
        /\ \A h \in Graphs \ {g} : pc'[h] = pc[h]
        /\ lastReady' = lastReady /\ arriving' = arriving
    <3>1. pos[g] \in Nat /\ Len(Receivers[g]) \in Nat
      BY <1>1, Ends DEF Typed, LoopInv
    <3>. QED
      BY <1>1, <1>9, <3>1 DEF AllReceived, MoreReceivers
  <2>2. Completed' = Completed
    BY <1>1, <2>1, CompletedKept
  <2>3. Admitted' = Admitted
    BY <2>1, Ends DEF Admitted
  <2>4. ASSUME NEW h \in Graphs \ {g} PROVE Taken(h)' <= Admitted
    BY <1>1, <2>1, <2>4 DEF Taken, PastReceivers, SwitchInv
  <2>5. frame[g] <= Admitted
    <3>1. CASE g = 0
      BY <2>1, <3>1, Progress, <1>1 DEF Admitted
    <3>2. CASE g # 0
      <4>1. 1 \in 1 .. Len(Receivers[g])
        <5>1. Receivers[g] # <<>> /\ Receivers[g] \in Seq(Channels)
          BY <3>2, ChannelsAssumption
        <5>. QED
          BY <5>1
      <4>. DEFINE c == Receivers[g][1]
      <4>2. c \in Channels /\ Dest(c) = g /\ Inlet(c) = 1
        BY <4>1, ReceiverChannel
      <4>. HIDE DEF c
      <4>3. pos[g] > 1
        <5>1. pos[g] \in Nat /\ Len(Receivers[g]) \in Nat
          BY <1>1, Ends DEF Typed, LoopInv
        <5>. QED
          BY <2>1, <4>1, <5>1
      <4>4. frame[g] <= Taken(Source(c)) /\ Source(c) \in Graphs
        BY <1>1, <2>1, <4>2, <4>3, Downstream, Wiring DEF TransitInv, AtReceivers
      <4>5. Taken(Source(c)) <= Admitted
        BY <1>1, <4>4 DEF SwitchInv
      <4>. QED
        BY <1>1, <4>4, <4>5, Progress
    <3>. QED
      BY <3>1, <3>2
  <2>6. Taken(g)' <= Admitted
    BY <2>1, <2>5 DEF Taken, PastReceivers
  <2>. QED
    BY <2>1, <2>2, <2>3, <2>4, <2>6 DEF Moved
<1>10. ASSUME NEW g \in Graphs, RunTasks(g) PROVE Moved
  BY <1>1, <1>2, <1>10, TakenKept, CompletedKept DEF RunTasks, PastReceivers
<1>11. ASSUME NEW g \in Graphs, Send(g) PROVE Moved
  BY <1>1, <1>2, <1>11, TakenKept, CompletedKept DEF Send, PastReceivers
<1>12. ASSUME NEW g \in Graphs, AllSent(g) PROVE Moved
  <2>1. CASE g = LastGraph
    BY <1>1, <1>2, <1>12, <2>1, TakenKept, CompletedKept DEF AllSent, PastReceivers
  <2>2. CASE g # LastGraph
    <3>1. NextFrame(g) /\ pc[g] = "send" /\ lastReady' = lastReady /\ arriving' = arriving
      BY <1>12, <2>2 DEF AllSent
    <3>2. PastReceivers(g)
      BY <3>1 DEF PastReceivers
    <3>3. \/ PastReceivers(g)' /\ frame'[g] = frame[g]
          \/ pc'[g] = "start" /\ frame'[g] = frame[g] + 1
      BY <1>1, <3>1, Looping DEF PastReceivers
    <3>4. \A h \in Graphs \ {g} : pc'[h] = pc[h] /\ frame'[h] = frame[h]
      BY <1>1, <3>1, Looping
    <3>5. Admitted' = Admitted /\ \A h \in Graphs : Taken(h)' = Taken(h)
      BY <1>1, <3>2, <3>3, <3>4, TakenKept
    <3>6. Completed' = Completed
      BY <1>1, <2>2, <3>4, CompletedKept
    <3>. QED
      BY <1>2, <3>1, <3>5, <3>6
  <2>. QED
    BY <2>1, <2>2
<1>13. ASSUME ReadLatency PROVE Moved
  BY <1>1, <1>2, <1>13, TakenKept, CompletedKept, Ends DEF ReadLatency, PastReceivers
<1>14. ASSUME AddLatency PROVE Moved
  BY <1>1, <1>2, <1>14, TakenKept, CompletedKept, Ends DEF AddLatency, PastReceivers
<1>15. ASSUME Signal PROVE Completing
  <2>. DEFINE g == LastGraph
  <2>1. /\ NextFrame(g) /\ pc[g] = "signal" /\ lastReady' = TRUE /\ arriving' = arriving
        /\ g \in Graphs
    BY <1>15, Ends DEF Signal
  <2>2. PastReceivers(g)
    BY <2>1 DEF PastReceivers
  <2>3. \/ pc'[g] = "done" /\ frame[g] = TotalFrames /\ frame'[g] = frame[g]
        \/ pc'[g] = "start" /\ frame'[g] = frame[g] + 1
    BY <1>1, <2>1, Looping
  <2>4. \A h \in Graphs \ {g} : pc'[h] = pc[h] /\ frame'[h] = frame[h]
    BY <1>1, <2>1, Looping
  <2>5. Admitted' = Admitted /\ \A h \in Graphs : Taken(h)' = Taken(h)
    <3>1. \/ PastReceivers(g)' /\ frame'[g] = frame[g]
          \/ pc'[g] = "start" /\ frame'[g] = frame[g] + 1
      BY <2>3 DEF PastReceivers
    <3>. HIDE DEF g
    <3>. QED
      BY <1>1, <2>1, <2>2, <2>4, <3>1, TakenKept
  <2>6. frame[g] \in Nat \ {0} /\ Admitted \in Nat
    BY <1>1, <2>1, Progress
  <2>7. Completed = frame[g] - 1 /\ Completed' = frame[g]
    BY <2>1, <2>3, <2>6 DEF Completed
  <2>8. frame[g] <= Admitted
    BY <1>1, <2>1, <2>2 DEF SwitchInv, Taken
  <2>. QED
    BY <2>1, <2>5, <2>6, <2>7, <2>8 DEF Completing
<1>16. ASSUME NEW c \in Channels, StoreReady(c) PROVE Moved
  BY <1>1, <1>2, <1>16, Ends DEF StoreReady, Taken, Admitted, Completed, PastReceivers
<1>17. CASE UNCHANGED vars
  BY <1>1, <1>2, <1>17, Ends DEF vars, Taken, Admitted, Completed, PastReceivers
<1>. QED
  BY <1>3, <1>4, <1>5, <1>6, <1>7, <1>8, <1>9, <1>10, <1>11, <1>12, <1>13, <1>14, <1>15,
     <1>16, <1>17 DEF Next, Thread

LEMMA InitSwitch == Init => SwitchInv
<1>. SUFFICES ASSUME Init PROVE SwitchInv
  OBVIOUS
<1>1. Admitted = 0 /\ Completed = 0 /\ \A g \in Graphs : Taken(g) = 0
  BY Ends DEF Init, Admitted, Completed, Taken, PastReceivers
<1>. QED
  BY <1>1 DEF Init, SwitchInv

LEMMA NextSwitch == SwitchTyped /\ [Next]_vars => SwitchInv'
<1>. SUFFICES ASSUME SwitchTyped, [Next]_vars PROVE SwitchInv'
  OBVIOUS
<1>1. /\ Admitted \in Nat /\ Completed \in Nat /\ \A g \in Graphs : Taken(g) \in Nat
      /\ SwitchInv
  BY Progress DEF SwitchTyped
<1>2. CASE Moved
  BY <1>1, <1>2 DEF Moved, SwitchInv
<1>3. CASE Admitting
  BY <1>1, <1>3 DEF Admitting, SwitchInv
<1>4. CASE Completing
  BY <1>1, <1>4 DEF Completing, SwitchInv
<1>. QED
  BY <1>2, <1>3, <1>4, Steps

LEMMA SwitchAlways == Spec => []SwitchTyped
<1>1. Init => SwitchTyped
  BY InitTyped, InitTransit, InitSwitch DEF SwitchTyped
<1>2. SwitchTyped /\ [Next]_vars => SwitchTyped'
  BY NextTyped, NextTransit, NextSwitch DEF SwitchTyped
<1>. QED
  BY <1>1, <1>2, PTL DEF Spec

\* Every network works on one frame at a time: the first graph starts on a frame only when
\* the last has finished the one before, through the flag ready alone.
THEOREM PipelineSwitches == Spec => SwitchedSpec
<1>1. Init => Switched!Init
  BY Ends DEF Init, Switched!Init
<1>2. SwitchTyped /\ [Next]_vars => [Switched!Next]_(Switched!switchedVars)
  <2>. SUFFICES ASSUME SwitchTyped, [Next]_vars
                PROVE  [Switched!Next]_(Switched!switchedVars)
    OBVIOUS
  <2>. USE DEF Admitted, Completed
  <2>1. CASE Moved
    BY <2>1 DEF Moved, Switched!switchedVars
  <2>2. CASE Admitting
    <3>1. Admitted = Completed
      BY <2>2 DEF Admitting, SwitchTyped, SwitchInv
    <3>2. Switched!Admit
      BY <2>2, <3>1 DEF Admitting, Switched!Admit
    <3>. QED
      BY <3>2 DEF Switched!Next
  <2>3. CASE Completing
    <3>1. Completed < Admitted
      <4>1. Admitted \in Nat /\ Completed \in Nat
        BY Progress DEF SwitchTyped
      <4>. HIDE DEF Admitted, Completed
      <4>. QED
        BY <2>3, <4>1 DEF Completing
    <3>2. Switched!Complete
      BY <2>3, <3>1 DEF Completing, Switched!Complete
    <3>. QED
      BY <3>2 DEF Switched!Next
  <2>. QED
    BY <2>1, <2>2, <2>3, Steps
<1>. QED
  BY <1>1, <1>2, SwitchAlways, PTL DEF Spec, SwitchedSpec, Switched!Spec

--------------------------------------------------------------------------------
(* The latencies summed. *)

\* Every graph but the last sends to a later one, so every graph leads to the last: no
\* output of the network is in a graph of its own.
Connected == \A g \in Graphs \ {LastGraph} : Targets[g] # <<>>

\* Graph g has reset the timings, if it ever will.
Underway(g) == frame[g] > Warmup + 1 \/ (frame[g] = Warmup + 1 /\ pc[g] # "start")

\* The frames whose latency is in the sum.
Measured ==
    IF pc[LastGraph] \in {"signal", "done"} THEN frame[LastGraph] ELSE frame[LastGraph] - 1

\* Once every graph has reset it, latency_time counts the measured frames, and the sum the
\* last graph is about to store counts the next one.
LatencyInv ==
    (\A g \in Graphs : Underway(g)) =>
        /\ latency = {<<f, f>> : f \in Warmup + 1 .. Measured}
        /\ pc[LastGraph] = "add" =>
             latencySum = latency \cup {<<frame[LastGraph], frame[LastGraph]>>}

\* No graph takes a frame that a graph before it on a path has not taken; if all lead to
\* the last graph, that one is behind all others.
LEMMA LastBehind ==
    ASSUME Connected, Typed, TransitInv
    PROVE  \A g \in Graphs : Taken(LastGraph) <= Taken(g)
<1>. DEFINE Ahead == {n \in Nat : \E g \in Graphs : n = LastGraph - g /\ Taken(g) < Taken(LastGraph)}
            Less == {p \in Nat \X Nat : p[1] < p[2]}
<1>1. SUFFICES ASSUME NEW h \in Graphs, ~(Taken(LastGraph) <= Taken(h)) PROVE FALSE
  OBVIOUS
<1>2. \A g \in Graphs : Taken(g) \in Nat /\ LastGraph - g \in Nat
  <2>1. ASSUME NEW g \in Graphs PROVE LastGraph - g \in Nat
    BY SizesAssumption DEF Graphs, LastGraph
  <2>. QED
    BY <2>1, Progress
<1>3. LastGraph - h \in Ahead
  BY <1>1, <1>2, Ends
<1>4. IsWellFoundedOn(Less, Nat)
  BY NatLessThanWellFounded DEF OpToRel
<1>5. PICK n \in Ahead : \A m \in Ahead : <<m, n>> \notin Less
  <2>1. Ahead \subseteq Nat /\ Ahead # {}
    BY <1>3
  <2>. HIDE DEF Less, Ahead
  <2>. QED
    BY <1>4, <2>1, WFMin
<1>6. PICK g \in Graphs : n = LastGraph - g /\ Taken(g) < Taken(LastGraph)
  BY <1>5
<1>7. g # LastGraph
  BY <1>2, <1>6
<1>8. 1 \in 1 .. Len(Targets[g])
  <2>1. Targets[g] # <<>> /\ Targets[g] \in Seq(Channels)
    BY <1>7, Ends DEF Connected
  <2>. QED
    BY <2>1
<1>. DEFINE c == Targets[g][1]
<1>9. c \in Channels /\ Source(c) = g
  BY <1>8, TargetChannel
<1>. HIDE DEF c
<1>10. Dest(c) \in Graphs /\ g < Dest(c) /\ Taken(Dest(c)) <= Taken(g)
  BY <1>9, Wiring, Downstream DEF TransitInv
<1>11. Taken(Dest(c)) < Taken(LastGraph)
  <2>1. Taken(Dest(c)) \in Nat /\ Taken(g) \in Nat /\ Taken(LastGraph) \in Nat
    BY <1>2, <1>10, Ends
  <2>. QED
    BY <1>6, <1>10, <2>1
<1>12. LastGraph - Dest(c) \in Ahead
  BY <1>2, <1>10, <1>11
<1>13. LastGraph - Dest(c) < n
  BY <1>6, <1>10, SizesAssumption DEF Graphs, LastGraph
<1>. QED
  BY <1>5, <1>12, <1>13

LEMMA InitLatency == Init => LatencyInv
<1>. SUFFICES ASSUME Init PROVE ~Underway(0)
  BY Ends DEF LatencyInv
<1>. QED
  BY Ends DEF Init, Underway

\* A step neither of the latency nor of the first measured frame's start.
LEMMA LatencyKept ==
    ASSUME Typed, LatencyInv, NEW g \in Graphs,
           latency' = latency, latencySum' = latencySum,
           \A h \in Graphs \ {g} : pc'[h] = pc[h] /\ frame'[h] = frame[h],
           \/ /\ frame'[g] = frame[g]
              /\ pc'[g] # "start" /\ (pc[g] = "start" => frame[g] # Warmup + 1)
              /\ g = LastGraph => /\ pc[g] \notin {"signal", "done"}
                                  /\ pc'[g] \notin {"signal", "done", "add"}
           \/ /\ pc[g] # "start"
              /\ g = LastGraph => pc[g] = "signal"
              /\ \/ pc'[g] = "done" /\ frame'[g] = frame[g]
                 \/ pc'[g] = "start" /\ frame'[g] = frame[g] + 1
    PROVE  LatencyInv'
<1>1. frame[g] \in Nat \ {0} /\ Warmup \in Nat /\ LastGraph \in Graphs
  BY Progress, Ends
<1>2. Underway(g)' <=> Underway(g)
  BY <1>1 DEF Underway
<1>3. ASSUME NEW h \in Graphs \ {g} PROVE Underway(h)' <=> Underway(h)
  BY <1>3 DEF Underway
<1>4. /\ Measured' = Measured
      /\ pc'[LastGraph] = "add" =>
           pc[LastGraph] = "add" /\ frame'[LastGraph] = frame[LastGraph]
  BY <1>1 DEF Measured
<1>. QED
  BY <1>2, <1>3, <1>4 DEF LatencyInv

LEMMA NextLatency ==
    ASSUME Connected, SwitchTyped, LatencyInv, [Next]_vars
    PROVE  LatencyInv'
<1>. USE DEF GoTo, threadVars, sharedVars
<1>1. /\ pc \in [Graphs -> Pcs] /\ frame \in [Graphs -> 1 .. TotalFrames]
      /\ Typed /\ TransitInv /\ SwitchInv
  BY DEF SwitchTyped, Typed, TypeOK
<1>2. /\ LastGraph \in Graphs /\ frame[LastGraph] \in Nat \ {0} /\ Warmup \in Nat
      /\ Taken(LastGraph) \in Nat
  BY <1>1, Progress, Ends
<1>3. ASSUME NEW g \in Graphs, Start(g) PROVE LatencyInv'
  <2>1. /\ pc[g] = "start" /\ pc'[g] \in {"await", "announce"} /\ frame' = frame
        /\ \A h \in Graphs \ {g} : pc'[h] = pc[h]
        /\ latencySum' = latencySum
        /\ latency' = IF frame[g] = Warmup + 1 THEN {} ELSE latency
    BY <1>1, <1>3 DEF Start
  <2>2. CASE frame[g] # Warmup + 1
    BY <1>1, <2>1, <2>2, LatencyKept
  <2>3. CASE frame[g] = Warmup + 1
    <3>1. SUFFICES ASSUME \A h \in Graphs : Underway(h)'
                   PROVE  Measured' <= Warmup /\ pc'[LastGraph] # "add"
      <4>1. ASSUME Measured' <= Warmup PROVE {<<f, f>> : f \in Warmup + 1 .. Measured'} = {}
        <5>1. Measured' \in Nat
          BY <1>2, <2>1 DEF Measured
        <5>2. Warmup + 1 .. Measured' = {}
          BY <1>2, <4>1, <5>1
        <5>. QED
          BY <5>2
      <4>. QED
        BY <2>1, <2>3, <4>1 DEF LatencyInv
    <3>2. Taken(g) = Warmup
      BY <1>2, <2>1, <2>3 DEF Taken, PastReceivers
    <3>3. Taken(LastGraph) <= Warmup
      BY <1>1, <3>2, LastBehind
    <3>4. Underway(LastGraph)'
      BY <1>2, <3>1
    <3>5. frame[LastGraph] >= Warmup + 1
      BY <1>2, <2>1, <3>4 DEF Underway
    <3>6. ~PastReceivers(LastGraph) /\ frame[LastGraph] = Warmup + 1
      BY <1>2, <3>3, <3>5 DEF Taken
    <3>7. pc'[LastGraph] \notin {"add", "signal", "done"}
      BY <1>2, <2>1, <3>6 DEF PastReceivers
    <3>. QED
      BY <1>2, <2>1, <3>6, <3>7 DEF Measured
  <2>. QED
    BY <2>2, <2>3
<1>4. ASSUME AwaitLast PROVE LatencyInv'
  BY <1>1, <1>4, Ends, LatencyKept DEF AwaitLast
<1>5. ASSUME NEW g \in Graphs, Announce(g) PROVE LatencyInv'
  BY <1>1, <1>5, LatencyKept DEF Announce
<1>6. ASSUME NEW g \in Graphs, ReceiveTransferred(g) PROVE LatencyInv'
  BY <1>1, <1>6, LatencyKept DEF ReceiveTransferred
<1>7. ASSUME NEW g \in Graphs, ReceiveQueued(g) PROVE LatencyInv'
  BY <1>1, <1>7, LatencyKept DEF ReceiveQueued
<1>8. ASSUME NEW g \in Graphs, Sleep(g) PROVE LatencyInv'
  BY <1>1, <1>8, LatencyKept DEF Sleep
<1>9. ASSUME NEW g \in Graphs, AllReceived(g) PROVE LatencyInv'
  BY <1>1, <1>9, LatencyKept DEF AllReceived
<1>10. ASSUME NEW g \in Graphs, RunTasks(g) PROVE LatencyInv'
  BY <1>1, <1>10, LatencyKept DEF RunTasks
<1>11. ASSUME NEW g \in Graphs, Send(g) PROVE LatencyInv'
  BY <1>1, <1>11, LatencyKept DEF Send
<1>12. ASSUME NEW g \in Graphs, AllSent(g) PROVE LatencyInv'
  <2>1. CASE g = LastGraph
    BY <1>1, <1>12, <2>1, LatencyKept DEF AllSent
  <2>2. CASE g # LastGraph
    <3>1. /\ NextFrame(g) /\ pc[g] = "send"
          /\ latency' = latency /\ latencySum' = latencySum
      BY <1>12, <2>2 DEF AllSent
    <3>. QED
      BY <1>1, <2>2, <3>1, Looping, LatencyKept
  <2>. QED
    BY <2>1, <2>2
<1>13. ASSUME ReadLatency PROVE LatencyInv'
  <2>1. /\ pc[LastGraph] = "measure" /\ pc'[LastGraph] = "add" /\ frame' = frame
        /\ \A h \in Graphs \ {LastGraph} : pc'[h] = pc[h]
        /\ latency' = latency
        /\ latencySum' = latency \cup {<<arriving, frame[LastGraph]>>}
    BY <1>1, <1>2, <1>13 DEF ReadLatency
  <2>2. arriving = frame[LastGraph]
    <3>1. Taken(LastGraph) = frame[LastGraph] /\ Completed = frame[LastGraph] - 1
      BY <2>1 DEF Taken, PastReceivers, Completed
    <3>2. /\ frame[LastGraph] <= Admitted /\ Admitted <= (frame[LastGraph] - 1) + 1
          /\ Admitted \in Nat /\ arriving = Admitted
      BY <1>1, <1>2, <3>1, Progress DEF SwitchInv
    <3>. QED
      BY <1>2, <3>2
  <2>3. \A h \in Graphs : Underway(h)' <=> Underway(h)
    BY <2>1 DEF Underway
  <2>4. Measured' = Measured
    BY <2>1 DEF Measured
  <2>. QED
    BY <2>1, <2>2, <2>3, <2>4 DEF LatencyInv
<1>14. ASSUME AddLatency PROVE LatencyInv'
  <2>1. /\ pc[LastGraph] = "add" /\ pc'[LastGraph] = "signal" /\ frame' = frame
        /\ \A h \in Graphs \ {LastGraph} : pc'[h] = pc[h]
        /\ latency' = latencySum
    BY <1>1, <1>2, <1>14 DEF AddLatency
  <2>2. SUFFICES ASSUME \A h \in Graphs : Underway(h)'
                 PROVE  latencySum = {<<f, f>> : f \in Warmup + 1 .. Measured'}
    BY <2>1 DEF LatencyInv
  <2>3. \A h \in Graphs : Underway(h)
    BY <2>1, <2>2 DEF Underway
  <2>. DEFINE n == frame[LastGraph]
  <2>4. Measured = n - 1 /\ Measured' = n
    BY <2>1 DEF Measured
  <2>5. latencySum = {<<f, f>> : f \in Warmup + 1 .. n - 1} \cup {<<n, n>>}
    BY <2>1, <2>3, <2>4 DEF LatencyInv
  <2>6. n \in Nat /\ n >= Warmup + 1
    BY <1>2, <2>3 DEF Underway
  <2>. HIDE DEF n
  <2>7. Warmup + 1 .. n = (Warmup + 1 .. n - 1) \cup {n}
    BY <1>2, <2>6
  <2>. QED
    BY <2>4, <2>5, <2>7
<1>15. ASSUME Signal PROVE LatencyInv'
  <2>1. /\ NextFrame(LastGraph) /\ pc[LastGraph] = "signal"
        /\ latency' = latency /\ latencySum' = latencySum
    BY <1>15 DEF Signal
  <2>. QED
    BY <1>1, <1>2, <2>1, Looping, LatencyKept
<1>16. ASSUME NEW c \in Channels, StoreReady(c) PROVE LatencyInv'
  BY <1>16 DEF StoreReady, LatencyInv, Underway, Measured
<1>17. CASE UNCHANGED vars
  BY <1>17 DEF vars, LatencyInv, Underway, Measured
<1>. QED
  BY <1>3, <1>4, <1>5, <1>6, <1>7, <1>8, <1>9, <1>10, <1>11, <1>12, <1>13, <1>14, <1>15,
     <1>16, <1>17 DEF Next, Thread

\* If every graph leads to the last one, print_times divides the latencies of exactly the
\* measured frames, each counted from its own arrival, for any number of frames, although
\* every graph resets the sum and the last one adds to it without a lock.
THEOREM AverageOfRuns == ASSUME Connected PROVE Spec => []AverageCoversRuns
<1>1. Init => LatencyInv
  BY InitLatency
<1>2. SwitchTyped /\ LatencyInv /\ [Next]_vars => LatencyInv'
  BY NextLatency
<1>3. SwitchTyped /\ LatencyInv => AverageCoversRuns
  <2>. SUFFICES ASSUME SwitchTyped, LatencyInv, AllDone
                PROVE  latency = {<<f, f>> : f \in Warmup + 1 .. TotalFrames}
    BY DEF AverageCoversRuns
  <2>1. \A g \in Graphs : pc[g] = "done" /\ frame[g] = TotalFrames
    BY DEF AllDone, SwitchTyped, Typed, LoopInv, Loop
  <2>2. Warmup + 1 <= TotalFrames /\ Warmup \in Nat /\ TotalFrames \in Nat
    BY Ends
  <2>3. \A g \in Graphs : Underway(g)
    BY <2>1, <2>2 DEF Underway
  <2>4. Measured = TotalFrames
    BY <2>1, Ends DEF Measured
  <2>. QED
    BY <2>3, <2>4 DEF LatencyInv
<1>. QED
  BY <1>1, <1>2, <1>3, SwitchAlways, PTL DEF Spec
================================================================================
