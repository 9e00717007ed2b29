----------------------------- MODULE SerialPipeline -----------------------------
(***************************************************************************)
(* A whole run of a partitioned network: StreamPipeline::run starts one    *)
(* thread per partition (graph, stage), each thread executes               *)
(* warmup_and_execute_graph_serial on its graph, and run joins them.       *)
(*                                                                         *)
(* The graphs exchange frames over channels.  A channel is the             *)
(* TensorPipelineReceiver of the graph it leads to, registered with one    *)
(* TensorPipelineSender of the graph it comes from.  Channels are those of *)
(* TransferChannel for CPU and GPU receivers, one critical section of      *)
(* their mutex being one step here; the racy store to receiver_ready still *)
(* becomes visible at a later moment of its own.                           *)
(*                                                                         *)
(* Frames are numbered from 1, so the first measured frame is Warmup + 1.  *)
(***************************************************************************)
EXTENDS Naturals, Sequences, Functions

CONSTANTS
    NumGraphs,           \* num_graphs
    Channels,            \* receivers of the whole network
    Receivers,           \* graph -> its workload's receivers, in their order
    Targets,             \* graph -> the receivers its senders send to, in their order
    Warmup,              \* warmup_n
    Runs                 \* nn, the frames asked for

Graphs == 0 .. NumGraphs - 1
LastGraph == NumGraphs - 1
TotalFrames == Warmup + Runs

\* The graph a channel leads to.
Dest(c) == CHOOSE g \in Graphs : c \in Range(Receivers[g])

ASSUME SizesAssumption ==
    NumGraphs \in Nat \ {0} /\ Warmup \in Nat /\ Runs \in Nat \ {0}

\* Every channel has one sender and one receiver and leads to a later graph: next_layer
\* fills the graphs in increasing order of layers.  Every graph but the first takes its
\* input from earlier ones.
ASSUME ChannelsAssumption ==
    /\ Receivers \in [Graphs -> Seq(Channels)]
    /\ Targets \in [Graphs -> Seq(Channels)]
    /\ \A g \in Graphs : IsInjective(Receivers[g]) /\ IsInjective(Targets[g])
    /\ \A g, h \in Graphs : g # h =>
         /\ Range(Receivers[g]) \cap Range(Receivers[h]) = {}
         /\ Range(Targets[g]) \cap Range(Targets[h]) = {}
    /\ \A c \in Channels : \E g, h \in Graphs :
         c \in Range(Targets[g]) /\ c \in Range(Receivers[h]) /\ g < h
    /\ \A g \in Graphs \ {0} : Receivers[g] # <<>>

VARIABLES
    pc,                  \* graph -> where its thread is
    frame,               \* graph -> the frame of its current iteration
    pos,                 \* graph -> position in its receivers or targets
    tensor,              \* channel -> frame in the receiver's tensor
    buffer,              \* channel -> queue of copies
    readiness,           \* channel -> receiver_ready: "busy" FALSE, "announced" stored
                         \* but not visible, "ready" TRUE
    dataSent,            \* channel -> data_sent
    lastReady,           \* ready of the GraphManagerPipeline, under _mtx
    arriving,            \* the frame whose arrival is in t_arriving
    latency,             \* the latencies summed in latency_time, as pairs: the frame that
                         \* arrived, the frame that was completed
    latencySum           \* the sum the last graph has computed for +=

threadVars  == <<pc, frame, pos>>
channelVars == <<tensor, buffer, readiness, dataSent>>
sharedVars  == <<lastReady, arriving, latency, latencySum>>
vars == <<threadVars, channelVars, sharedVars>>

Pcs == {"start", "await", "announce", "receive", "asleep", "tasks", "send", "measure",
        "add", "signal", "done"}

TypeOK ==
    /\ pc \in [Graphs -> Pcs]
    /\ frame \in [Graphs -> 1 .. TotalFrames]
    /\ \A g \in Graphs : pos[g] \in 1 .. Len(Receivers[g] \o Targets[g]) + 1
    /\ tensor \in [Channels -> 0 .. TotalFrames]
    /\ buffer \in [Channels -> Seq(1 .. TotalFrames)]
    /\ readiness \in [Channels -> {"busy", "announced", "ready"}]
    /\ dataSent \in [Channels -> BOOLEAN]
    /\ lastReady \in BOOLEAN
    /\ arriving \in 0 .. TotalFrames
    /\ latency \subseteq (0 .. TotalFrames) \X (1 .. TotalFrames)
    /\ latencySum \subseteq (0 .. TotalFrames) \X (1 .. TotalFrames)

Init ==
    /\ pc = [g \in Graphs |-> "start"]
    /\ frame = [g \in Graphs |-> 1]
    /\ pos = [g \in Graphs |-> 1]
    /\ tensor = [c \in Channels |-> 0]
    /\ buffer = [c \in Channels |-> <<>>]
    /\ readiness = [c \in Channels |-> "busy"]
    /\ dataSent = [c \in Channels |-> FALSE]
    /\ lastReady = TRUE
    /\ arriving = 0
    /\ latency = {}
    /\ latencySum = {}

GoTo(g, label) == pc' = [pc EXCEPT ![g] = label]

\* Mutant of NextFrame: the loop runs once too often.
NextFrameOnceMore(g) ==
    IF frame[g] > TotalFrames
      THEN GoTo(g, "done") /\ UNCHANGED frame
      ELSE GoTo(g, "start") /\ frame' = [frame EXCEPT ![g] = @ + 1]

\* The next iteration of graph g's loop, or the end of its thread.
NextFrame(g) ==
    IF frame[g] = TotalFrames
      THEN GoTo(g, "done") /\ UNCHANGED frame
      ELSE GoTo(g, "start") /\ frame' = [frame EXCEPT ![g] = @ + 1]

--------------------------------------------------------------------------------
(* The head of an iteration. *)

\* Mutant of Start: the timings are reset one frame late.
StartResetsLate(g) ==
    /\ pc[g] = "start"
    /\ latency' = IF frame[g] = Warmup + 2 THEN {} ELSE latency
    /\ GoTo(g, IF g = 0 THEN "await" ELSE "announce")
    /\ UNCHANGED <<frame, pos, channelVars, lastReady, arriving, latencySum>>

\* The first measured frame resets the timings, without a lock: those of the graph, and
\* latency_time, which all graphs share.  The first graph goes on to wait for the last.
Start(g) ==
    /\ pc[g] = "start"
    /\ latency' = IF frame[g] = Warmup + 1 THEN {} ELSE latency
    /\ GoTo(g, IF g = 0 THEN "await" ELSE "announce")
    /\ UNCHANGED <<frame, pos, channelVars, lastReady, arriving, latencySum>>

\* Mutant of AwaitLast: ready stays set.
AwaitLastKeepsReady ==
    /\ pc[0] = "await"
    /\ lastReady
    /\ arriving' = frame[0]
    /\ GoTo(0, "announce")
    /\ UNCHANGED <<frame, pos, channelVars, lastReady, latency, latencySum>>

\* condVar_serial.wait under _mtx; the last graph sets and notifies under _mtx.
AwaitLast ==
    /\ pc[0] = "await"
    /\ lastReady
    /\ lastReady' = FALSE
    /\ arriving' = frame[0]
    /\ GoTo(0, "announce")
    /\ UNCHANGED <<frame, pos, channelVars, latency, latencySum>>

--------------------------------------------------------------------------------
(* call_all_receivers: mark all the graph's receivers ready, then receive one by one. *)

Announce(g) ==
    /\ pc[g] = "announce"
    /\ readiness' = [c \in Channels |-> IF c \in Range(Receivers[g]) THEN "announced"
                                        ELSE readiness[c]]
    /\ pos' = [pos EXCEPT ![g] = 1]
    /\ GoTo(g, "receive")
    /\ UNCHANGED <<frame, tensor, buffer, dataSent, sharedVars>>

\* One of the racy stores reaches the sender's core.
StoreReady(c) ==
    /\ readiness[c] = "announced"
    /\ readiness' = [readiness EXCEPT ![c] = "ready"]
    /\ UNCHANGED <<threadVars, tensor, buffer, dataSent, sharedVars>>

\* The first unlock of any mutex publishes all the stores graph g's thread made.
Published(g, status) ==
    [c \in Channels |-> IF c \in Range(Receivers[g]) /\ status[c] = "announced"
                          THEN "ready" ELSE status[c]]

\* Mutant of MoreReceivers: the last receiver is skipped.
MoreReceiversButLast(g) == pos[g] < Len(Receivers[g])

\* The receiver graph g receives from next.
MoreReceivers(g) == pos[g] <= Len(Receivers[g])
Receiver(g) == Receivers[g][pos[g]]

ReceiveTransferred(g) ==
    /\ pc[g] \in {"receive", "asleep"}
    /\ MoreReceivers(g)
    /\ dataSent[Receiver(g)]
    /\ dataSent' = [dataSent EXCEPT ![Receiver(g)] = FALSE]
    /\ readiness' = Published(g, readiness)
    /\ pos' = [pos EXCEPT ![g] = @ + 1]
    /\ GoTo(g, "receive")
    /\ UNCHANGED <<frame, tensor, buffer, sharedVars>>

ReceiveQueued(g) ==
    /\ pc[g] = "receive"
    /\ MoreReceivers(g)
    /\ ~dataSent[Receiver(g)]
    /\ buffer[Receiver(g)] # <<>>
    /\ tensor' = [tensor EXCEPT ![Receiver(g)] = Head(buffer[Receiver(g)])]
    /\ buffer' = [buffer EXCEPT ![Receiver(g)] = Tail(@)]
    /\ readiness' = Published(g, [readiness EXCEPT ![Receiver(g)] = "busy"])
    /\ pos' = [pos EXCEPT ![g] = @ + 1]
    /\ UNCHANGED <<pc, frame, dataSent, sharedVars>>

\* Asleep in condVar.wait, from which only data_sent leads out.
Sleep(g) ==
    /\ pc[g] = "receive"
    /\ MoreReceivers(g)
    /\ ~dataSent[Receiver(g)]
    /\ buffer[Receiver(g)] = <<>>
    /\ readiness' = Published(g, readiness)
    /\ GoTo(g, "asleep")
    /\ UNCHANGED <<frame, pos, tensor, buffer, dataSent, sharedVars>>

AllReceived(g) ==
    /\ pc[g] = "receive"
    /\ ~MoreReceivers(g)
    /\ pos' = [pos EXCEPT ![g] = 1]
    /\ GoTo(g, "tasks")
    /\ UNCHANGED <<frame, channelVars, sharedVars>>

--------------------------------------------------------------------------------
(* call_all_tasks_pipeline, call_all_senders, and the end of an iteration. *)

\* The tasks turn the receivers' tensors into the senders' tensors.
RunTasks(g) ==
    /\ pc[g] = "tasks"
    /\ GoTo(g, "send")
    /\ UNCHANGED <<frame, pos, channelVars, sharedVars>>

\* send_data of the next target: transfer directly to a ready receiver, or queue.
Send(g) ==
    /\ pc[g] = "send"
    /\ pos[g] <= Len(Targets[g])
    /\ LET c == Targets[g][pos[g]] IN
       IF readiness[c] # "ready" \/ buffer[c] # <<>>
         THEN /\ buffer' = [buffer EXCEPT ![c] = Append(@, frame[g])]
              /\ UNCHANGED <<tensor, readiness, dataSent>>
         ELSE /\ readiness' = [readiness EXCEPT ![c] = "busy"]
              /\ tensor' = [tensor EXCEPT ![c] = frame[g]]
              /\ dataSent' = [dataSent EXCEPT ![c] = TRUE]
              /\ UNCHANGED buffer
    /\ pos' = [pos EXCEPT ![g] = @ + 1]
    /\ UNCHANGED <<pc, frame, sharedVars>>

AllSent(g) ==
    /\ pc[g] = "send"
    /\ pos[g] > Len(Targets[g])
    /\ pos' = [pos EXCEPT ![g] = 1]
    /\ IF g = LastGraph THEN GoTo(g, "measure") /\ UNCHANGED frame ELSE NextFrame(g)
    /\ UNCHANGED <<channelVars, sharedVars>>

\* latency_time += l reads and writes latency_time without a lock.
ReadLatency ==
    /\ pc[LastGraph] = "measure"
    /\ latencySum' = latency \cup {<<arriving, frame[LastGraph]>>}
    /\ GoTo(LastGraph, "add")
    /\ UNCHANGED <<frame, pos, channelVars, lastReady, arriving, latency>>

AddLatency ==
    /\ pc[LastGraph] = "add"
    /\ latency' = latencySum
    /\ GoTo(LastGraph, "signal")
    /\ UNCHANGED <<frame, pos, channelVars, lastReady, arriving, latencySum>>

\* Mutant of Signal: the first graph is not told.
SignalLost ==
    /\ pc[LastGraph] = "signal"
    /\ NextFrame(LastGraph)
    /\ UNCHANGED <<pos, channelVars, lastReady, arriving, latency, latencySum>>

Signal ==
    /\ pc[LastGraph] = "signal"
    /\ lastReady' = TRUE
    /\ NextFrame(LastGraph)
    /\ UNCHANGED <<pos, channelVars, arriving, latency, latencySum>>

--------------------------------------------------------------------------------

Thread(g) ==
    \/ Start(g) \/ Announce(g)
    \/ ReceiveTransferred(g) \/ ReceiveQueued(g) \/ Sleep(g) \/ AllReceived(g)
    \/ RunTasks(g) \/ Send(g) \/ AllSent(g)
    \/ g = 0 /\ AwaitLast
    \/ g = LastGraph /\ (ReadLatency \/ AddLatency \/ Signal)

\* run() has joined all the threads and prints the times.
AllDone == \A g \in Graphs : pc[g] = "done"

Next ==
    \/ \E g \in Graphs : Thread(g)
    \/ \E c \in Channels : StoreReady(c)

Spec == Init /\ [][Next]_vars

\* The scheduler runs every thread that can go on.
FairSpec ==
    /\ Spec
    /\ \A g \in Graphs : WF_vars(Thread(g))
    /\ \A c \in Channels : WF_vars(StoreReady(c))

--------------------------------------------------------------------------------
(* Properties *)

\* When a graph runs its tasks, all its receivers hold the frame of its iteration,
\* however unevenly the branches that lead to them progress.
InputsAligned ==
    \A c \in Channels :
        LET g == Dest(c) IN
        pc[g] = "tasks" => tensor[c] = frame[g] /\ ~dataSent[c]

\* When print_times divides latency_time by the number of runs, it holds the latencies
\* of the frames after the warm-up, all of them and no other, each of them counted from
\* the arrival of its own frame although t_arriving is one static variable, written by the
\* first graph's thread.
AverageCoversRuns == AllDone => latency = {<<f, f>> : f \in Warmup + 1 .. TotalFrames}

\* The run ends: no handshake between the graphs blocks forever.
Termination == <>AllDone

\* The network as a whole works on one frame at a time.
Switched == INSTANCE SwitchedInference
    WITH admitted <- IF pc[0] \in {"start", "await"} THEN frame[0] - 1 ELSE frame[0],
         completed <- IF pc[LastGraph] = "done" THEN TotalFrames ELSE frame[LastGraph] - 1

SwitchedSpec == Switched!Spec
================================================================================
