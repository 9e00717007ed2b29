------------------------- MODULE TransferChannelProofs -------------------------
(***************************************************************************)
(* Proofs about TransferChannel for every number of frames: its type       *)
(* invariant, and for a CPU or GPU receiver the inductive invariant, the   *)
(* order of the frames and the refinement of FrameFifo.                    *)
(***************************************************************************)
EXTENDS TransferChannel, SequenceTheorems, TLAPS

\* TypeOK is not inductive alone: that received stays in range is due to LoopInv.
TypedLoops == TypeOK /\ LoopInv

LEMMA InitTyped == Init => TypedLoops
<1> SUFFICES ASSUME Init PROVE TypedLoops
  OBVIOUS
<1>1. buffer \in Seq(1 .. NumFrames)
  BY DEF Init
<1>2. receiverPc \in ReceiverPcs /\ (receiverPc = "done" \/ received < NumFrames)
  <2>1. CASE NumFrames = 0
    BY <2>1 DEF Init, ReceiverPcs
  <2>2. CASE NumFrames # 0
    BY <2>2, NumFramesAssumption DEF Init, ReceiverPcs
  <2>3. QED
    BY <2>1, <2>2
<1>3. TypeOK
  <2>1. sent \in 0 .. NumFrames /\ received \in 0 .. NumFrames /\ tensor \in 0 .. NumFrames
    BY NumFramesAssumption DEF Init
  <2>2. npuBuffer \in Nat
    BY DEF Init
  <2>3. QED
    BY <1>1, <1>2, <2>1, <2>2, Zenon DEF Init, TypeOK, SenderPcs
<1>4. LoopInv
  BY <1>2 DEF Init, LoopInv, Receiving
<1>5. QED
  BY <1>3, <1>4 DEF TypedLoops

LEMMA NextTyped == TypedLoops /\ [Next]_vars => TypedLoops'
<1> SUFFICES ASSUME TypedLoops, [Next]_vars
             PROVE  TypedLoops'
  OBVIOUS
<1> USE NumFramesAssumption, IsNpuAssumption
    DEF TypedLoops, TypeOK, LoopInv, Receiving, SenderPcs, ReceiverPcs,
        senderVars, receiverVars, channelVars, ReceiverUnlock
<1>1. CASE Compute
  BY <1>1 DEF Compute
<1>2. CASE SendLock
  BY <1>2 DEF SendLock
<1>3. CASE SendTest
  BY <1>3 DEF SendTest
<1>4. CASE SendEnqueue
  <2>1. sent \in 1 .. NumFrames
    BY <1>4 DEF SendEnqueue
  <2>2. buffer' \in Seq(1 .. NumFrames)
    BY <1>4, <2>1 DEF SendEnqueue
  <2>3. npuBuffer' \in Nat
    BY <1>4 DEF SendEnqueue
  <2>4. QED
    BY <1>4, <2>2, <2>3 DEF SendEnqueue
<1>5. CASE SendTransfer
  BY <1>5 DEF SendTransfer
<1>6. CASE SetReceiverReady
  BY <1>6 DEF SetReceiverReady
<1>7. CASE ReceiveLock
  BY <1>7 DEF ReceiveLock
<1>8. CASE ReceiveTest
  BY <1>8 DEF ReceiveTest
<1>9. CASE ReceiveTransferred
  <2>1. ready' \in BOOLEAN /\ readyPending' \in BOOLEAN
    BY <1>9 DEF ReceiveTransferred
  <2>2. received' \in 0 .. NumFrames /\ received' > 0
    BY <1>9 DEF ReceiveTransferred
  <2>3. QED
    BY <1>9, <2>1, <2>2 DEF ReceiveTransferred
<1>10. CASE Sleep
  BY <1>10 DEF Sleep
<1>11. CASE Relock
  BY <1>11 DEF Relock
<1>12. CASE ReceiveQueued
  <2>1. tensor' \in 0 .. NumFrames /\ buffer' \in Seq(1 .. NumFrames)
    <3>1. CASE IsNpu
      BY <1>12, <3>1 DEF ReceiveQueued
    <3>2. CASE ~IsNpu
      <4>1. buffer # <<>>
        BY <1>12, <3>2 DEF ReceiveQueued, Backlog
      <4>2. Head(buffer) \in 1 .. NumFrames /\ Tail(buffer) \in Seq(1 .. NumFrames)
        BY <4>1
      <4>3. tensor' = Head(buffer) /\ buffer' = Tail(buffer)
        BY <1>12, <3>2 DEF ReceiveQueued
      <4>4. tensor' \in 0 .. NumFrames
        BY <4>2, <4>3
      <4>5. QED
        BY <4>2, <4>3, <4>4
    <3>3. QED
      BY <3>1, <3>2
  <2>2. received' \in 0 .. NumFrames /\ received' > 0
    BY <1>12 DEF ReceiveQueued
  <2>3. QED
    BY <1>12, <2>1, <2>2 DEF ReceiveQueued
<1>13. CASE RunTasks
  BY <1>13 DEF RunTasks
<1>14. CASE StoreReady
  BY <1>14 DEF StoreReady
<1>15. CASE SpuriousWakeup
  BY <1>15 DEF SpuriousWakeup
<1>16. CASE UNCHANGED vars
  BY <1>16 DEF vars
<1>17. QED
  BY <1>1, <1>2, <1>3, <1>4, <1>5, <1>6, <1>7, <1>8, <1>9, <1>10, <1>11, <1>12, <1>13,
     <1>14, <1>15, <1>16 DEF Next, Sender, Receiver

\* Every variable keeps its type, for CPU, GPU and NPU receivers: in particular the
\* stages never count more frames than their loops have.
THEOREM Typing == Spec => []TypeOK
<1>1. Init => TypedLoops
  BY InitTyped
<1>2. TypedLoops /\ [Next]_vars => TypedLoops'
  BY NextTyped
<1>3. TypedLoops => TypeOK
  BY DEF TypedLoops
<1>4. QED
  BY <1>1, <1>2, <1>3, PTL DEF Spec

--------------------------------------------------------------------------------
(* The channel of a CPU or GPU receiver. *)

IInv == TypedLoops /\ ChannelInv

LEMMA InitChannel == ASSUME ~IsNpu PROVE Init => ChannelInv
<1> SUFFICES ASSUME Init PROVE ChannelInv
  OBVIOUS
<1>1. Len(buffer) = 0
  BY DEF Init
<1>2. TransitInv
  BY <1>1 DEF Init, TransitInv, Pushed, Direct
<1>3. MutexInv /\ ReadyInv /\ WaitInv /\ InputInOrder
  BY Zenon DEF Init, MutexInv, ReadyInv, WaitInv, InputInOrder, Receiving
<1>4. LoopInv
  BY InitTyped DEF TypedLoops
<1>5. QED
  BY <1>2, <1>3, <1>4 DEF ChannelInv

LEMMA NextChannel == ASSUME ~IsNpu PROVE IInv /\ [Next]_vars => ChannelInv'
<1> SUFFICES ASSUME IInv, [Next]_vars
             PROVE  ChannelInv'
  OBVIOUS
<1> USE DEF IInv, ChannelInv, TypedLoops, TypeOK, SenderPcs, ReceiverPcs, MutexInv,
            ReadyInv, TransitInv, WaitInv, LoopInv, InputInOrder, Receiving, Direct,
            Pushed, Backlog, senderVars, receiverVars, channelVars, ReceiverUnlock
<1>1. CASE Compute
  BY <1>1, NumFramesAssumption DEF Compute
<1>2. CASE SendLock
  BY <1>2, NumFramesAssumption DEF SendLock
<1>3. CASE SendTest
  BY <1>3, NumFramesAssumption DEF SendTest
<1>4. CASE SendEnqueue
  <2>1. /\ buffer' = Append(buffer, sent)
        /\ Len(buffer') = Len(buffer) + 1
        /\ \A i \in 1 .. Len(buffer) : buffer'[i] = buffer[i]
        /\ buffer'[Len(buffer) + 1] = sent
    <3>1. buffer' = Append(buffer, sent) /\ sent \in 1 .. NumFrames
      BY <1>4 DEF SendEnqueue
    <3>2. buffer \in Seq(1 .. NumFrames)
      OBVIOUS
    <3>3. QED
      BY ONLY <3>1, <3>2, AppendProperties
  <2>2. /\ Pushed = sent - 1 /\ Pushed' = sent
        /\ Direct' = Direct /\ received' = received
        /\ sent \in Nat /\ Direct \in Nat /\ received \in Nat /\ Len(buffer) \in Nat
        /\ Pushed = received + Direct + Len(buffer)
    BY <1>4 DEF SendEnqueue
  <2>3. TransitInv'
    <3>1. Pushed' = received' + Direct' + Len(buffer')
      BY ONLY <2>1, <2>2
    <3>2. dataSent' => tensor' = received' + 1
      BY <1>4 DEF SendEnqueue
    <3>3. ASSUME NEW i \in 1 .. Len(buffer')
          PROVE  buffer'[i] = received' + Direct' + i
      <4>1. CASE i \in 1 .. Len(buffer)
        BY <2>1, <2>2, <4>1
      <4>2. CASE i = Len(buffer) + 1
        BY ONLY <2>1, <2>2, <4>2
      <4>3. QED
        BY <2>1, <3>3, <4>1, <4>2
    <3>4. QED
      BY <3>1, <3>2, <3>3, Zenon
  <2>4. MutexInv' /\ LoopInv' /\ InputInOrder'
    BY <1>4 DEF SendEnqueue
  <2>5. ReadyInv'
    BY <1>4 DEF SendEnqueue
  <2>6. WaitInv'
    BY <1>4 DEF SendEnqueue
  <2>7. QED
    BY <2>3, <2>4, <2>5, <2>6
<1>5. CASE SendTransfer
  BY <1>5, NumFramesAssumption DEF SendTransfer
<1>6. CASE SetReceiverReady
  BY <1>6, NumFramesAssumption DEF SetReceiverReady
<1>7. CASE ReceiveLock
  BY <1>7, NumFramesAssumption DEF ReceiveLock
<1>8. CASE ReceiveTest
  BY <1>8, NumFramesAssumption DEF ReceiveTest
<1>9. CASE ReceiveTransferred
  BY <1>9, NumFramesAssumption DEF ReceiveTransferred
<1>10. CASE Sleep
  BY <1>10, NumFramesAssumption DEF Sleep
<1>11. CASE Relock
  BY <1>11, NumFramesAssumption DEF Relock
<1>12. CASE ReceiveQueued
  <2>1. buffer # <<>> /\ Len(buffer) > 0
    BY <1>12 DEF ReceiveQueued
  <2>2. /\ tensor' = buffer[1]
        /\ Len(buffer') = Len(buffer) - 1
        /\ \A i \in 1 .. Len(buffer') : buffer'[i] = buffer[i + 1]
    <3>1. tensor' = Head(buffer) /\ buffer' = Tail(buffer)
      BY <1>12 DEF ReceiveQueued
    <3>2. buffer \in Seq(1 .. NumFrames)
      OBVIOUS
    <3>3. QED
      BY ONLY <2>1, <3>1, <3>2, HeadTailProperties
  <2>3. tensor' = received'
    BY <1>12, <2>1, <2>2 DEF ReceiveQueued
  <2>4. TransitInv'
    <3>1. /\ Direct = 0 /\ Direct' = 0 /\ ~dataSent'
          /\ received' = received + 1 /\ Pushed' = Pushed
      BY <1>12 DEF ReceiveQueued
    <3>2. Pushed' = received' + Direct' + Len(buffer')
      BY <2>2, <3>1
    <3>3. ASSUME NEW i \in 1 .. Len(buffer')
          PROVE  buffer'[i] = received' + Direct' + i
      <4>1. i + 1 \in 1 .. Len(buffer)
        BY <2>1, <2>2
      <4>2. QED
        BY <2>2, <3>1, <4>1
    <3>4. QED
      BY <3>1, <3>2, <3>3, Zenon
  <2>5. MutexInv' /\ LoopInv'
    BY <1>12 DEF ReceiveQueued
  <2>6. InputInOrder'
    BY <2>3
  <2>7. ReadyInv'
    BY <1>12, <2>1 DEF ReceiveQueued
  <2>8. WaitInv'
    BY <1>12 DEF ReceiveQueued
  <2>9. QED
    BY <2>4, <2>5, <2>6, <2>7, <2>8
<1>13. CASE RunTasks
  BY <1>13, NumFramesAssumption DEF RunTasks
<1>14. CASE StoreReady
  BY <1>14, NumFramesAssumption DEF StoreReady
<1>15. CASE SpuriousWakeup
  BY <1>15, NumFramesAssumption DEF SpuriousWakeup
<1>16. CASE UNCHANGED vars
  BY <1>16 DEF vars
<1>17. QED
  BY <1>1, <1>2, <1>3, <1>4, <1>5, <1>6, <1>7, <1>8, <1>9, <1>10, <1>11, <1>12, <1>13, <1>14, <1>15, <1>16 DEF Next, Sender, Receiver

LEMMA ChannelInvariance == ASSUME ~IsNpu PROVE Spec => []IInv
<1>1. Init => IInv
  BY InitTyped, InitChannel DEF IInv
<1>2. IInv /\ [Next]_vars => IInv'
  BY NextTyped, NextChannel DEF IInv
<1>3. QED
  BY <1>1, <1>2, PTL DEF Spec

\* For a CPU or GPU receiver, in a stream of any length: every run of the receiving
\* stage's tasks has the frame of its turn in the input tensor.
THEOREM InOrderDelivery == ASSUME ~IsNpu PROVE Spec => []InputInOrder
<1>1. IInv => InputInOrder
  BY DEF IInv, ChannelInv
<1>2. QED
  BY <1>1, ChannelInvariance, PTL

\* For a CPU or GPU receiver, in a stream of any length: a receiver asleep in
\* condVar.wait has no frame in the queue that its predicate does not look at.
THEOREM NoSleepOverBacklog == ASSUME ~IsNpu PROVE Spec => []NoBacklogAsleep
<1>1. IInv => NoBacklogAsleep
  BY DEF IInv, ChannelInv, ReadyInv, WaitInv, NoBacklogAsleep
<1>2. QED
  BY <1>1, ChannelInvariance, PTL

--------------------------------------------------------------------------------
(* The channel of a CPU or GPU receiver implements FrameFifo. *)

LEMMA InitFifo == Init => Fifo!Init
<1> SUFFICES ASSUME Init PROVE Fifo!Init
  OBVIOUS
<1>1. InTransit = <<>>
  BY DEF Init, InTransit
<1>2. QED
  BY <1>1 DEF Init, Fifo!Init, Fifo!Idle, Pushed

\* What a step does to the frames in transit.
LEMMA TransitOnTransfer ==
    ASSUME NEW t \in Nat, NEW q \in Seq(Nat)
    PROVE  /\ <<t>> \o q # <<>>
           /\ Head(<<t>> \o q) = t
           /\ Tail(<<t>> \o q) = q
           /\ <<>> \o q = q
  OBVIOUS

LEMMA TransitOnEnqueue ==
    ASSUME NEW p \in Seq(Nat), NEW q \in Seq(Nat), NEW e \in Nat
    PROVE  p \o Append(q, e) = Append(p \o q, e)
  OBVIOUS

LEMMA NextFifo == ASSUME ~IsNpu PROVE IInv /\ [Next]_vars => [Fifo!Next]_(Fifo!fifoVars)
<1> SUFFICES ASSUME IInv, [Next]_vars
             PROVE  [Fifo!Next]_(Fifo!fifoVars)
  OBVIOUS
<1> DEFINE Stutter == UNCHANGED <<Pushed, InTransit, IF receiverPc = "run" THEN tensor ELSE 0>>
<1> USE DEF TypedLoops, TypeOK, senderVars, receiverVars, channelVars
<1>1. ASSUME Stutter PROVE [Fifo!Next]_(Fifo!fifoVars)
  BY <1>1 DEF Fifo!fifoVars
<1>2. /\ TypeOK /\ LoopInv /\ MutexInv /\ ReadyInv /\ TransitInv /\ WaitInv /\ InputInOrder
      /\ NumFrames \in Nat
  BY NumFramesAssumption DEF IInv, ChannelInv
<1>3. buffer \in Seq(Nat) /\ tensor \in Nat /\ sent \in Nat
  BY <1>2, SeqMonotonic
<1>4. CASE Compute
  <2>1. Pushed' = Pushed
    BY <1>2, <1>4 DEF Compute, Pushed
  <2>2. UNCHANGED <<InTransit, IF receiverPc = "run" THEN tensor ELSE 0>>
    BY <1>4 DEF Compute, InTransit
  <2>3. QED
    BY <1>1, <2>1, <2>2
<1>5. CASE SendEnqueue
  <2>1. Pushed' = Pushed + 1 /\ Pushed < NumFrames /\ sent = Pushed + 1
    BY <1>2, <1>5 DEF SendEnqueue, Pushed
  <2>2. InTransit' = Append(InTransit, sent)
    <3>1. buffer' = Append(buffer, sent) /\ dataSent' = dataSent /\ tensor' = tensor
      BY <1>5 DEF SendEnqueue
    <3>2. (IF dataSent THEN <<tensor>> ELSE <<>>) \in Seq(Nat)
      BY <1>3
    <3>3. QED
      BY <1>3, <3>1, <3>2, TransitOnEnqueue DEF InTransit
  <2>3. UNCHANGED (IF receiverPc = "run" THEN tensor ELSE 0)
    BY <1>5 DEF SendEnqueue
  <2>4. Fifo!Put
    BY <2>1, <2>2, <2>3 DEF Fifo!Put
  <2>5. QED
    BY <2>4 DEF Fifo!Next
<1>6. CASE SendTransfer
  <2>1. Pushed' = Pushed + 1 /\ Pushed < NumFrames /\ sent = Pushed + 1
    BY <1>2, <1>6 DEF SendTransfer, Pushed
  <2>2. buffer = <<>> /\ ~dataSent /\ receiverPc # "run" /\ receiverPc' # "run"
    BY <1>2, <1>6 DEF SendTransfer, ReadyInv, Backlog, Receiving
  <2>3. InTransit = <<>> /\ InTransit' = <<sent>>
    BY <1>3, <1>6, <2>2 DEF SendTransfer, InTransit
  <2>4. Fifo!Put
    BY <2>1, <2>2, <2>3, <1>3 DEF Fifo!Put
  <2>5. QED
    BY <2>4 DEF Fifo!Next
<1>7. CASE ReceiveTransferred
  <2>1. Pushed' = Pushed
    BY <1>7 DEF ReceiveTransferred, Pushed
  <2>2. InTransit = <<tensor>> \o buffer /\ InTransit' = <<>> \o buffer /\ tensor' = tensor
    BY <1>7 DEF ReceiveTransferred, InTransit
  <2>3. InTransit # <<>> /\ Head(InTransit) = tensor /\ Tail(InTransit) = InTransit'
    BY <1>3, <2>2, TransitOnTransfer
  <2>4. receiverPc # "run" /\ receiverPc' = "run"
    BY <1>7 DEF ReceiveTransferred
  <2>5. Fifo!Get
    BY <2>1, <2>2, <2>3, <2>4 DEF Fifo!Get, Fifo!Idle
  <2>6. QED
    BY <2>5 DEF Fifo!Next
<1>8. CASE ReceiveQueued
  <2>1. Pushed' = Pushed
    BY <1>8 DEF ReceiveQueued, Pushed
  <2>2. InTransit = buffer /\ InTransit' = buffer'
    <3>1. InTransit = <<>> \o buffer /\ InTransit' = <<>> \o buffer'
      BY <1>8 DEF ReceiveQueued, InTransit
    <3>2. buffer # <<>> /\ buffer' = Tail(buffer)
      BY <1>8 DEF ReceiveQueued, Backlog
    <3>3. buffer' \in Seq(Nat)
      BY <1>3, <3>2, HeadTailProperties
    <3>4. QED
      BY <1>3, <3>1, <3>3, TransitOnTransfer
  <2>3. buffer # <<>> /\ tensor' = Head(buffer) /\ buffer' = Tail(buffer)
    BY <1>8 DEF ReceiveQueued, Backlog
  <2>4. receiverPc # "run" /\ receiverPc' = "run"
    BY <1>8 DEF ReceiveQueued
  <2>5. Fifo!Get
    BY <2>1, <2>2, <2>3, <2>4 DEF Fifo!Get, Fifo!Idle
  <2>6. QED
    BY <2>5 DEF Fifo!Next
<1>9. CASE RunTasks
  <2>1. UNCHANGED <<Pushed, InTransit>>
    BY <1>9 DEF RunTasks, Pushed, InTransit
  <2>2. receiverPc = "run" /\ receiverPc' # "run" /\ tensor # 0
    BY <1>2, <1>9 DEF RunTasks, LoopInv, InputInOrder
  <2>3. Fifo!Done
    BY <2>1, <2>2 DEF Fifo!Done, Fifo!Idle
  <2>4. QED
    BY <2>3 DEF Fifo!Next
<1>10. CASE SendLock \/ SendTest \/ SetReceiverReady \/ ReceiveLock \/ ReceiveTest \/ Sleep
            \/ Relock \/ StoreReady \/ SpuriousWakeup
  <2>1. Stutter
    BY <1>10 DEF SendLock, SendTest, SetReceiverReady, ReceiveLock, ReceiveTest, Sleep,
                 Relock, StoreReady, SpuriousWakeup, Pushed, InTransit
  <2>2. QED
    BY <1>1, <2>1
<1>11. CASE UNCHANGED vars
  <2>1. Stutter
    BY <1>11 DEF vars, Pushed, InTransit
  <2>2. QED
    BY <1>1, <2>1
<1>12. QED
  BY <1>4, <1>5, <1>6, <1>7, <1>8, <1>9, <1>10, <1>11 DEF Next, Sender, Receiver

\* For a CPU or GPU receiver, in a stream of any length: the two threads with their
\* mutex, condition variable, racy flag and queue behave as one FIFO.
THEOREM ChannelIsFifo == ASSUME ~IsNpu PROVE Spec => FifoSpec
<1>1. Init => Fifo!Init
  BY InitFifo
<1>2. IInv /\ [Next]_vars => [Fifo!Next]_(Fifo!fifoVars)
  BY NextFifo
<1>3. QED
  BY <1>1, <1>2, ChannelInvariance, PTL DEF Spec, FifoSpec, Fifo!Spec

================================================================================
