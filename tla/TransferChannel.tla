---------------------------- MODULE TransferChannel ----------------------------
(***************************************************************************)
(* The connection between two stages (partitions) of a network: one        *)
(* TensorPipelineReceiver, the stage thread that sends frames to it and    *)
(* the stage thread that receives them.                                    *)
(*                                                                         *)
(* The sender never blocks on the receiver.  It copies the frame straight  *)
(* into the receiver's tensor when the receiver said it is ready and       *)
(* nothing is queued, and queues a copy otherwise.  The receiver announces *)
(* that it is ready, then takes the frame that was copied directly, or the *)
(* oldest queued one, or sleeps on the condition variable.                 *)
(*                                                                         *)
(* receiver_ready is a plain bool that set_receiver_ready writes without   *)
(* the mutex while send_data reads it under the mutex: a data race.  The   *)
(* store is modelled as pending until some later moment, at the latest the *)
(* receiver's next unlock of the mutex (readyPending, StoreReady).         *)
(*                                                                         *)
(* Frames are numbered from 1 in the order the sending stage computes      *)
(* them; a tensor is the number of the frame in it.                        *)
(***************************************************************************)
EXTENDS Naturals, Sequences

CONSTANTS NumFrames,     \* iterations of each stage thread: nn + warmup_n
          IsNpu          \* the receiver's is_npu flag

ASSUME NumFramesAssumption == NumFrames \in Nat
ASSUME IsNpuAssumption == IsNpu \in BOOLEAN

VARIABLES
    senderPc,            \* where the sending stage's thread is
    sent,                \* number of the frame in the sender's tensor
    receiverPc,          \* where the receiving stage's thread is
    received,            \* receive_data calls that returned
    tensor,              \* the frame in the receiver's tensor, 0 before the first
    buffer,              \* the queue of copies
    npuBuffer,           \* length of NPU_buffer, whose elements all point into the
                         \* sender's tensor
    ready,               \* *receiver_ready as the sender reads it
    readyPending,        \* a store of TRUE to it is not visible yet
    dataSent,            \* *data_sent
    mutex                \* the thread that holds mutex_, or "free"

senderVars   == <<senderPc, sent>>
receiverVars == <<receiverPc, received>>
channelVars  == <<tensor, buffer, npuBuffer, ready, readyPending, dataSent, mutex>>
vars == <<senderVars, receiverVars, channelVars>>

SenderPcs   == {"compute", "lock", "test", "enqueue", "transfer"}
ReceiverPcs == {"announce", "lock", "test", "wait", "asleep", "woken", "run", "done"}

TypeOK ==
    /\ senderPc \in SenderPcs
    /\ sent \in 0 .. NumFrames
    /\ receiverPc \in ReceiverPcs
    /\ received \in 0 .. NumFrames
    /\ tensor \in 0 .. NumFrames
    /\ buffer \in Seq(1 .. NumFrames)
    /\ npuBuffer \in Nat
    /\ ready \in BOOLEAN
    /\ readyPending \in BOOLEAN
    /\ dataSent \in BOOLEAN
    /\ mutex \in {"free", "sender", "receiver"}

Init ==
    /\ senderPc = "compute"
    /\ sent = 0
    /\ receiverPc = IF NumFrames = 0 THEN "done" ELSE "announce"
    /\ received = 0
    /\ tensor = 0
    /\ buffer = <<>>
    /\ npuBuffer = 0
    /\ ready = FALSE
    /\ readyPending = FALSE
    /\ dataSent = FALSE
    /\ mutex = "free"

\* Frames are queued for the receiver.
Backlog == IF IsNpu THEN npuBuffer > 0 ELSE buffer # <<>>

--------------------------------------------------------------------------------
(* The sending stage: its tasks fill the sender's tensor, then send_data. *)

\* Mutant of Compute: the loop runs once too often.
ComputeOnceMore ==
    /\ senderPc = "compute"
    /\ sent <= NumFrames
    /\ sent' = sent + 1
    /\ senderPc' = "lock"
    /\ UNCHANGED <<receiverVars, channelVars>>

Compute ==
    /\ senderPc = "compute"
    /\ sent < NumFrames
    /\ sent' = sent + 1
    /\ senderPc' = "lock"
    /\ UNCHANGED <<receiverVars, channelVars>>

SendLock ==
    /\ senderPc = "lock"
    /\ mutex = "free"
    /\ mutex' = "sender"
    /\ senderPc' = "test"
    /\ UNCHANGED <<sent, receiverVars, tensor, buffer, npuBuffer, ready,
                   readyPending, dataSent>>

\* Mutant of SendTest: a ready receiver gets the frame although others are queued.
SendTestReadyOnly ==
    /\ senderPc = "test"
    /\ senderPc' = IF ~ready THEN "enqueue" ELSE "transfer"
    /\ UNCHANGED <<sent, receiverVars, channelVars>>

\* The racy read of receiver_ready is a step of its own: the receiver may store
\* to it between the test and the branch taken.
SendTest ==
    /\ senderPc = "test"
    /\ senderPc' = IF ~ready \/ Backlog THEN "enqueue" ELSE "transfer"
    /\ UNCHANGED <<sent, receiverVars, channelVars>>

\* A CPU or GPU receiver gets a copy, an NPU receiver a pointer.
SendEnqueue ==
    /\ senderPc = "enqueue"
    /\ IF IsNpu
         THEN npuBuffer' = npuBuffer + 1 /\ UNCHANGED buffer
         ELSE buffer' = Append(buffer, sent) /\ UNCHANGED npuBuffer
    /\ mutex' = "free"
    /\ senderPc' = "compute"
    /\ UNCHANGED <<sent, receiverVars, tensor, ready, readyPending, dataSent>>

\* Mutant of SendTransfer: no notify_all.
SendTransferSilently ==
    /\ senderPc = "transfer"
    /\ ready' = FALSE
    /\ tensor' = sent
    /\ dataSent' = TRUE
    /\ mutex' = "free"
    /\ senderPc' = "compute"
    /\ UNCHANGED <<sent, receiverPc, received, buffer, npuBuffer, readyPending>>

\* The copy, data_sent and notify_all; receiver_ready is lowered.
SendTransfer ==
    /\ senderPc = "transfer"
    /\ ready' = FALSE
    /\ tensor' = sent
    /\ dataSent' = TRUE
    /\ receiverPc' = IF receiverPc = "asleep" THEN "woken" ELSE receiverPc
    /\ mutex' = "free"
    /\ senderPc' = "compute"
    /\ UNCHANGED <<sent, received, buffer, npuBuffer, readyPending>>

--------------------------------------------------------------------------------
(* The receiving stage: set_receiver_ready, receive_data, then its tasks. *)

SetReceiverReady ==
    /\ receiverPc = "announce"
    /\ readyPending' = TRUE
    /\ receiverPc' = "lock"
    /\ UNCHANGED <<senderVars, received, tensor, buffer, npuBuffer, ready, dataSent,
                   mutex>>

\* The racy store reaches the sender's core.
StoreReady ==
    /\ readyPending
    /\ ready' = TRUE
    /\ readyPending' = FALSE
    /\ UNCHANGED <<senderVars, receiverVars, tensor, buffer, npuBuffer, dataSent, mutex>>

\* Unlocking the mutex publishes every earlier store of the thread.
ReceiverUnlock ==
    /\ mutex' = "free"
    /\ ready' = (ready \/ readyPending)
    /\ readyPending' = FALSE

ReceiveLock ==
    /\ receiverPc = "lock"
    /\ mutex = "free"
    /\ mutex' = "receiver"
    /\ receiverPc' = "test"
    /\ UNCHANGED <<senderVars, received, tensor, buffer, npuBuffer, ready, readyPending,
                   dataSent>>

\* Mutant of ReceiveTest: the receiver waits for a transfer without a look at the queue.
ReceiveTestAlwaysWait ==
    /\ receiverPc = "test"
    /\ receiverPc' = "wait"
    /\ UNCHANGED <<senderVars, received, channelVars>>

\* Into condVar.wait: nothing queued, or a direct transfer to take first.
ReceiveTest ==
    /\ receiverPc = "test"
    /\ ~Backlog \/ dataSent
    /\ receiverPc' = "wait"
    /\ UNCHANGED <<senderVars, received, channelVars>>

\* The predicate of condVar.wait holds: the frame is in the tensor already.
ReceiveTransferred ==
    /\ receiverPc = "wait"
    /\ dataSent
    /\ dataSent' = FALSE
    /\ received' = received + 1
    /\ receiverPc' = "run"
    /\ ReceiverUnlock
    /\ UNCHANGED <<senderVars, tensor, buffer, npuBuffer>>

\* The predicate does not hold.  It looks at data_sent only, never at the queue.
Sleep ==
    /\ receiverPc = "wait"
    /\ ~dataSent
    /\ receiverPc' = "asleep"
    /\ ReceiverUnlock
    /\ UNCHANGED <<senderVars, received, tensor, buffer, npuBuffer, dataSent>>

SpuriousWakeup ==
    /\ receiverPc = "asleep"
    /\ receiverPc' = "woken"
    /\ UNCHANGED <<senderVars, received, channelVars>>

Relock ==
    /\ receiverPc = "woken"
    /\ mutex = "free"
    /\ mutex' = "receiver"
    /\ receiverPc' = "wait"
    /\ UNCHANGED <<senderVars, received, tensor, buffer, npuBuffer, ready, readyPending,
                   dataSent>>

\* Mutant of ReceiveQueued: the receiver stays ready while its tasks run.
ReceiveQueuedStaysReady ==
    /\ receiverPc = "test"
    /\ Backlog
    /\ ~dataSent
    /\ tensor' = Head(buffer)
    /\ buffer' = Tail(buffer)
    /\ received' = received + 1
    /\ receiverPc' = "run"
    /\ ReceiverUnlock
    /\ UNCHANGED <<senderVars, npuBuffer, dataSent>>

\* The oldest queued frame.  For an NPU nothing is read and nothing is popped.
ReceiveQueued ==
    /\ receiverPc = "test"
    /\ Backlog
    /\ ~dataSent
    /\ IF IsNpu
         THEN UNCHANGED <<tensor, buffer>>
         ELSE tensor' = Head(buffer) /\ buffer' = Tail(buffer)
    /\ ready' = FALSE
    /\ readyPending' = FALSE
    /\ received' = received + 1
    /\ receiverPc' = "run"
    /\ mutex' = "free"
    /\ UNCHANGED <<senderVars, npuBuffer, dataSent>>

\* The tasks have read the tensor; the next iteration, or the loop's end.
RunTasks ==
    /\ receiverPc = "run"
    /\ receiverPc' = IF received = NumFrames THEN "done" ELSE "announce"
    /\ UNCHANGED <<senderVars, received, channelVars>>

--------------------------------------------------------------------------------

Sender == Compute \/ SendLock \/ SendTest \/ SendEnqueue \/ SendTransfer

Receiver ==
    \/ SetReceiverReady \/ ReceiveLock \/ ReceiveTest \/ ReceiveTransferred \/ Sleep
    \/ Relock \/ ReceiveQueued \/ RunTasks

\* Both threads left their loops; run() joins them.
Finished == senderPc = "compute" /\ sent = NumFrames /\ receiverPc = "done"

Next == Sender \/ Receiver \/ StoreReady \/ SpuriousWakeup \/ (Finished /\ UNCHANGED vars)

Spec == Init /\ [][Next]_vars

\* The scheduler runs both threads, and a store reaches memory.  The sender gets the
\* mutex in the end even if the receiver wakes up spuriously again and again.
FairSpec ==
    /\ Spec
    /\ WF_vars(Sender)
    /\ SF_vars(SendLock)
    /\ WF_vars(Receiver)
    /\ WF_vars(StoreReady)

--------------------------------------------------------------------------------
(* Properties *)

\* The k-th time the receiving stage runs its tasks, its input holds the k-th frame:
\* send_data and receive_data lose, duplicate and reorder nothing, and no transfer
\* overwrites a tensor the tasks are reading.
InputInOrder == receiverPc = "run" => tensor = received

\* A receiver asleep in condVar.wait, whose predicate never looks at the queue, has no
\* frame waiting in the queue: the flag it announced with has sent the frame to it.
NoBacklogAsleep == receiverPc = "asleep" => ~Backlog /\ ~dataSent

\* Frames that send_data has finished with.
Pushed == IF senderPc = "compute" THEN sent ELSE sent - 1

\* Frames on their way, oldest first: the one copied directly, then the queue.
InTransit == (IF dataSent THEN <<tensor>> ELSE <<>>) \o buffer

\* The channel is a FIFO whose consumer keeps its input until it is done with it.
Fifo == INSTANCE FrameFifo
    WITH put <- Pushed,
         fifo <- InTransit,
         input <- IF receiverPc = "run" THEN tensor ELSE 0

FifoSpec == Fifo!Spec

\* Every frame the sending stage computed is received: no wake-up is lost, though
\* receiver_ready is written without the mutex and without a notification.
AllDelivered == \A n \in 1 .. NumFrames : sent >= n ~> received >= n

--------------------------------------------------------------------------------
(* The inductive invariant behind the safety properties of a CPU or GPU receiver. *)

Receiving == receiverPc \in {"lock", "test", "wait", "asleep", "woken"}

Direct == IF dataSent THEN 1 ELSE 0

\* Who holds the mutex is told by the program counters.
MutexInv ==
    /\ mutex = "sender" <=> senderPc \in {"test", "enqueue", "transfer"}
    /\ mutex = "receiver" <=> receiverPc \in {"test", "wait"}

\* From its announcement until it has a frame, the receiver's readiness is in exactly
\* one of three places: the store buffer, the flag, or the frame transferred for it.
ReadyInv ==
    /\ Receiving <=> ready \/ readyPending \/ dataSent
    /\ ~(ready /\ readyPending) /\ ~(ready /\ dataSent) /\ ~(readyPending /\ dataSent)
    /\ receiverPc \in {"asleep", "woken"} => ~readyPending
    /\ receiverPc = "asleep" => ready
    /\ senderPc = "transfer" => ready /\ ~Backlog

\* The frames in transit are the ones after the last received, in order.
TransitInv ==
    /\ Pushed = received + Direct + Len(buffer)
    /\ dataSent => tensor = received + 1
    /\ \A i \in 1 .. Len(buffer) : buffer[i] = received + Direct + i

\* A receiver committed to waiting for a direct transfer gets one: nothing is queued
\* and the sender is not about to queue.
WaitInv ==
    receiverPc \in {"wait", "asleep", "woken"} /\ ~dataSent
        => ~Backlog /\ senderPc # "enqueue"

\* The loops' bounds.
LoopInv ==
    /\ senderPc # "compute" => sent > 0
    /\ receiverPc = "announce" \/ Receiving => received < NumFrames
    /\ receiverPc = "run" => received > 0

\* Not a property of its own: what makes InputInOrder and the refinement inductive.
ChannelInv ==
    /\ MutexInv
    /\ ReadyInv
    /\ TransitInv
    /\ WaitInv
    /\ LoopInv
    /\ InputInOrder
================================================================================
