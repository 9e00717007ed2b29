# TLA+ models of ARM-CO-UP

ARM-CO-UP extends the graph front end of the ARM Compute Library. It cuts a neural network
into *partitions* (graphs), maps each to a processor (little or big CPU cluster, GPU, NPU),
runs one thread per graph, and moves tensors between the graphs. This directory models that
part: from the mapping string on the command line, over the construction of the graphs and
of the channels between them, to the threads that run frames through them. The kernels and
the rest of the ARM Compute Library are not modelled.

Paths in this file are relative to the repository; `src/graph/...` is the C++ implementation.

## 1. The system

| Component | State it keeps | Operations | Interacts with |
|---|---|---|---|
| Partitioning: `config_pipeline` (`utils/UtilsPipeline.h`), `StreamPipeline::add_graph` | the order string; `start_layer`, `end_layer`, `PE`, `all_hints` per graph | the loop over the order, `add_graph` | read by the construction |
| Construction: `StreamPipeline`, `SubStream`, `IStreamPipeline`, `NodeMap`, joining layers | `current_layer`, `_target_graph`, `_hints`, `node_map` (static, shared by all streams); each stream's `_tail_node`, `tail_graph_id`; each graph's nodes | `operator<<` = `next_layer` + `add_layer`; `SubStream(s)`, `forward_tail`, `tail_node` | creates Sender and Receiver nodes, hence the channels |
| Connection: `TensorPipelineSender`, `TensorPipelineReceiver` | tensor, queue of copies, `NPU_buffer`, `receiver_ready`, `data_sent`, mutex, condition variable | `send_data`, `set_receiver_ready`, `receive_data` | shared by one sending and one receiving thread |
| Switching execution: `StreamPipeline::run`, `GraphManagerPipeline::warmup_and_execute_graph_serial`, `call_all_receivers/tasks/senders` | `ready` and its mutex, `t_arriving`, `latency_time`, per-graph timings | one loop per graph thread | the graphs' channels; the first and the last graph's handshake |
| Governor and GPIO: `set_freqs`, `set_freq_map`, `set_governor_freqs`, `set_GPIO_tasks`, `ExecutionTask` | `governor`, frequencies and pin switches per task; the statics of `commit_freq`; the pin | at each prompt, before the run; `apply_freq` after a task | the frequency driver, the pin of a power meter |
| Transition memory: `DepthConcatSubTensorMutator`, `configure_transition_manager`, the lifetime managers, memory groups and pools | handles and sub-tensor handles; `tensors_in_flight`; occupied and free blobs; mappings | before the run, one pass over the tasks; per frame `acquire` and `release` | the tasks of one graph; the tensors that receivers fill and senders read |
| Finalising: `StreamPipeline::finalize`, `NPUNode::restructure_graph`, `Graph`, `dfs`, mutators | `_nodes`, `_edges`, `_tensors` of each graph; the list of sorted nodes | before the run, one graph after the other: merge of an NPU graph, sort | backends; the workloads the graph threads run |
| CPU schedulers: `Scheduler::get`, `IScheduler::schedule_common`, `CPPScheduler`, its `Thread`s | the static `_scheduler_type`; per scheduler a mutex and worker threads, each with pointers to its job, two flags, a mutex and a condition variable; the feeder and the workloads on the caller's stack | `get`, `schedule`; `start`, `wait` and the worker's loop | the kernels of tasks on a CPU cluster; the threads of all CPU graphs share the schedulers |
| NPU back end, OpenCL and NEON back ends, weights manager | library state | called by tasks | vendor libraries |

What makes each right, and what is hard about it:

* **Partitioning.** Every layer must be in one graph, on the component its letter names. The
  loop's boundaries are the hard part: the first letter is outside the loop, and the last one can
  need two graphs in one iteration.
* **Construction.** Every layer must read the values the network description gave it, although
  the producer may be in another graph, may have been received here already, or may be known to
  the stream only by the position it had before a boundary. The code keeps positions in streams,
  in layers' lists of inputs and in `node_map`, and rewrites them at different times.
* **Connection.** The sender never waits. Frames must arrive once, in order, without touching
  the tensor the receiver computes on, although `receiver_ready` is written without the mutex, and
  although the condition the receiver sleeps on ignores the queue.
* **Execution.** Graphs with several receivers must combine tensors of one frame. The first
  graph must admit a frame only when the last one is done. The latency must be measured on the
  frames after the warm-up. No thread may be left waiting.
* **Governor.** A layer's levels are committed by the task that ends the layer before, the first
  layer's by the last task of the frame before. The list the user enters, the letters of the order
  and the list of governing tasks have different lengths and must stay aligned, request after request.
  The pin must show a power meter one phase per layer or per frame.
* **Finalising.** The merge of an NPU graph moves connections one at a time, each recorded in four
  places, to a node whose inputs and outputs are counted by running indices. What left the graph must
  leave it unchanged, what entered it must enter the NPU node, and every node must become a task once,
  after those it reads.
* **Transition memory.** Tensors whose lifetimes do not meet share memory. Lifetimes are counted over
  the tasks in sorted order, while a tensor may consist of parts that several tasks write; what crosses a graph's
  boundary is used while the graph has no pool.

* **CPU schedulers.** A graph's thread cuts a kernel into workloads, hands them to workers and must go on only
  when each was executed, once. The workers fetch from a counter on the caller's stack, are given their job outside
  the mutex they read it under, and share a condition variable with whoever waits for them. CO-UP has made
  two schedulers of the library's one, for the two clusters, and chooses between them through one static variable
  that all graphs' threads test and set without a lock.

## 2. Modules

| Module | What it is | Run configurations |
|---|---|---|
| `FrameFifo` | abstract: an unbounded FIFO with a consumer whose current input is left alone | - |
| `TransferChannel` | one connection, at the granularity of locks and racy accesses; implements `FrameFifo` | `MCTransferChannel`, `MCTransferChannelNpu` |
| `TransferChannelProofs` | its theorems | - |
| `SwitchedInference` | abstract: one frame in the network at a time | - |
| `SerialPipeline` | all graphs' threads over any acyclic network of channels; implements `SwitchedInference` | `MCSerialPipeline` |
| `SerialPipelineProofs` | its theorems | - |
| `OrderPartition` | `config_pipeline` | `MCOrderPartition` |
| `OrderPartitionProofs` | its theorems | - |
| `StreamBuilder` | the construction of graphs and channels | `MCStreamBuilder`, `MCStreamBuilderGcc` |
| `StreamBuilderProofs` | its theorems | - |
| `GraphFinalize` | one constructed graph: merge of the layers into an NPU node, order of the nodes | `MCGraphFinalize`, `MCGraphFinalizeShared` |
| `GraphFinalizeProofs` | its theorems | - |
| `AscendingSets` | a set of numbers as a sequence: `GraphFinalize` and `Governor` use it | - |
| `TransitionMemory` | one sorted graph: the pool its tasks' tensors share, and the frames that use it | `MCTransitionMemory` |
| `TransitionMemoryProofs` | its theorems | - |
| `Governor` | frequencies and power pin, from the prompt to the tasks | `MCGovernor` |
| `GovernorProofs` | its theorems | - |
| `ParallelFor` | abstract: a graph goes on when each iteration of its kernel was executed once | - |
| `KernelWindows` | how a kernel's window is cut into workloads: `split_window`, `split_2d` and `schedule_common`'s choice between them | - |
| `CpuScheduler` | the threads of CPU graphs and the workers of the two schedulers; implements `ParallelFor` | `MCCpuScheduler`, `MCCpuSchedulerGet` |
| `CpuSchedulerProofs` | its theorems, and that the workloads of `KernelWindows` are the kernel's iterations, each once | - |

The modules hand over to each other as the code does. `OrderPartition` shows the layer ranges
that `RangesAssumption` of `StreamBuilder` asks for. `StreamBuilder`'s `ChannelsLeadForward`,
`OneChannelPerValue` and `UsedGraphsFirst` are what `ChannelsAssumption` of `SerialPipeline` asks
for. `GraphFinalize` takes up one constructed graph and orders its nodes into the
tasks that `SerialPipeline` runs in one step; `TransitionMemory` takes the sorted nodes, and its phases of a
frame are the steps `Receiver`, `RunTasks` and `Send` of a graph's thread. `SerialPipeline` contains `TransferChannel`'s protocol with one critical section per step,
which `TransferChannel` justifies: nothing but the store to `receiver_ready` happens outside
one. `Governor` executes the tasks of all graphs one after the other, which
`SwitchedSpec` justifies for a chain of graphs. `CpuScheduler` is what happens inside the step `RunTasks` of a graph
on a CPU cluster, for as many such graphs as work at once: the two branches of `serial_branch`, for instance.
`ParallelForSpec` is what allows the other modules to see a task as something that has been done when it returns.

### TransferChannel

`senderPc` and `receiverPc` are the positions of the two threads in `send_data` and in
`call_all_receivers`/`receive_data`. `tensor`, `buffer`, `npuBuffer`, `ready`, `dataSent` and
`mutex` are the members of `TensorPipelineReceiver`; a tensor is represented by the number of the
frame in it. `readyPending` stands for the data race: `set_receiver_ready` stores TRUE without
the mutex, the sender sees it at `StoreReady`, which may happen at any later moment, and at the
latest when the receiver next unlocks the mutex. `SendTest` is a step of its own, so the store
may become visible between the sender's test and its branch. A frame's `Compute` and `RunTasks`
stand for the tasks of the two graphs.

The mapping to `FrameFifo`: frames put are those the sender has brought into the tensor or the
queue, the FIFO is the transferred frame (if `data_sent`) followed by the queue, and the
consumer's input is the tensor while the tasks run.

### SerialPipeline

One process per graph with the loop of `warmup_and_execute_graph_serial`: reset of the timings,
wait for the last graph (graph 0), receivers, tasks, senders, latency and signal (last graph).
`Channels`, `Receivers` and `Targets` describe the network; a graph's receivers and targets are
sequences, since `call_all_receivers` and `send_data` go through them in order. `Announce` marks all
of a graph's receivers ready, as `call_all_receivers` does before it receives from the first.
`latency` is the set of the latencies in `latency_time`, each as the frame whose arrival and the frame whose
completion it lies between; the unlocked `+=` is a read and a write (`ReadLatency`, `AddLatency`). `arriving` is the
frame `t_arriving` belongs to.

### OrderPartition

The locals of `config_pipeline`'s loop and the list of graphs. The four actions are the four
outcomes of an iteration. Letters not in `add_graph`'s switch give any target, since the variable
is left uninitialised.

### StreamBuilder

A *position* is a node id and a graph id, as in `node_map`. `nodes[g]` are the nodes of graph g.
Ids count from 1 here. A node carries its *value*: the number of the layer whose output it has; a
Sender and a Receiver have the value they pass on. `wants` and `meant` are history: the values the
network description gave the layer, and the value each stream's tail stands for. They are never
read by an action's guard or by the state that models the code.

`BeginLayer` is the joining layer's constructor, `operator<<` and the head of `next_layer`;
`InputPresent`, `InputFirstUse` and `InputSent` are the three outcomes of the loop over the layer's
inputs; `CreateLayer` is the end of `next_layer` and `add_layer`. `OpenSubStream` is a
`SubStream`'s constructor or its copy. Inputs chosen freely: which stream gets the next layer, whether the
layer joins two substreams, whether its name is in the table of starting layers. Two constants stand
for what the code leaves to others: `GraphIdFirst`, the unspecified order of evaluation of
`make_pair`'s arguments; `ForwardAcross`, whether an example forwards a tail into another graph.

`npuHint` is `_hints`, as far as it matters to a Receiver: it is replaced only by a layer with the first
number of its graph. The first Receiver of a Sender takes its target from there; a second one takes
the sender's (`src/graph/frontend/StreamPipeline.cpp:715`), so in an NPU graph it works as a CPU's, and one
fed from an NPU graph as an NPU's.

### GraphFinalize

`g` is a `Graph`: nodes with their `_input_edges`, `_output_edges` and `_outputs` (`ins`, `outs`,
`tensors`), edges, and each tensor's bound edges. `AddNode`, `Connect`, `Disconnect` and `WithoutNode`
are its operations as functions of a graph; `Disconnect` takes the set of edges a loop removes. `Construct` builds any graph that layers, inputs and
outputs can make, with Const nodes for weights, and connects the inputs of a new node one per step (`ConnectInput`). `work` is what is left of the
loop under way: the nodes to connect, the outputs, the inputs, the nodes to remove. `AddNpuNode` to `RemoveNode` are the merge of
an NPU graph, one connection or node per step; `StartSort` to `FinishSort` are `dfs` and the removal of repeated
nodes after it. The choice between the two ways into `StartSort` is the graph's target. `slot` is the
running index of `restructure_graph`; a write past the end of `_input_edges`, which only an assertion guards,
is not found again afterwards, or ends the program. Which inputs are Receivers is chosen when the
sort starts, the only place where it matters. The mutators that fuse nodes before the sort are left out.

### TransitionMemory

A node and its output tensor share a number. Every pass of the code is a loop of the model, one step per iteration, so that an invariant
can say how far it has come. `phase` is the pass under way; `task`, `stage` and `slot` are the indices of its loops.

* `mutating`, backwards over the concatenations: `LeaveConcat` and `JoinConcat` are the two outcomes of an iteration of the mutator. Which
  happens depends on layouts and quantisation and is left open. `parent` and `depth` are what the handles say from then on: a part
  has the parent of its whole, and begins somewhere in it.
* `lifetimes`, over the tasks and each task's inputs, output and inputs again (`NextTask`, `NextStage`): `AcquireHandle` is `acquire`, with
  `manage` and `start_lifetime`; `ReleaseRead` counts off a read that is not the last; `ReleaseLast` is `allocate` with
  `end_lifetime`. `SkipHandle` passes over what is not managed or is in flight already. `inFlight` is
  `tensors_in_flight`, `occupied` and `free` are the lists of blobs, the first by the id of the tensor that has the blob.
* `placing`, whenever a release leaves no blob occupied, in the middle of the graph or at its end: `PlaceBlob` is an
  iteration of `update_blobs_and_mappings` and `cursor` its locals, `FinishUpdate` its end. The manager of the CPU backend sets offsets in one area, in the
  order of the list; the GPU's gives each blob an area of its own, from the largest blob on (`ComesNext`).
* A frame: `waiting`, `received`, `running`, `sending`, from `ReceiveInputs` to `SendOutputs`, again and again.

`memory` says for each cell which node wrote it and in which frame (modulo 2). A cell is a place in an area
of the pool or in a tensor of its own. A tensor holds its value if it has memory and each cell was written
last by its node, in this frame; a concatenation in place, if its parts do, which fill it (`Holds`).

### Governor

`tasks` are the tasks of all workloads. A layer on the CPU or GPU has two, `head` and `tail`, the
second in the table of ending tasks; an NPU graph has one. `Networks` selects what else the
examples contain (`LayerTasks`; a task's number, three times its layer plus its place there, gives the order of `tasks`): in a `trailing` network (ResNet) a layer goes on after its ending task; in a
`detection` network (YOLOv3) some layers are exempt, by name, from switching pins and from
governing. `Enter` is `set_freqs` with all it calls, then `set_GPIO_tasks`: which tasks govern
(`Governing`), which element goes to which of them (`FreqMap`, written as a function rather than as
the loop: element k goes to the governor as many places on as elements before it were read), and
what `map::at` does when one has none. `StartTask` and `FinishTask` are the two halves of
`ExecutionTask::operator()`. `registers` are the statics of `commit_freq`, the GPU's counted downwards
as in the code, so that a level of -1 reverses it. `prev_p` is uninitialised: `Leftovers` is the set
of values it may have.

### KernelWindows and CpuScheduler

An iteration of a kernel is a pair of numbers, of which a kernel split along one dimension uses the first. A kernel is
its strategy, its numbers of iterations and the hint's threshold. A workload is the set of iterations that `split_window`
(`Part`) gives it; `Workloads` is `schedule_common`'s vector. `RoundedRoot` is the rounded square root by comparison of
squares, which `split_2d` takes of `max_threads * n / m`: the inverse of the ratio in the comment above it
(`src/runtime/SchedulerUtils.cpp:40`), so that the longer dimension gets the fewer threads. Every iteration
is executed all the same.

`pc` and `workerPc` are the positions of the graphs' and the workers' threads. `TestType`, `SetType` and `Find` are the
accesses of `Scheduler::get` to `_scheduler_type`; `Lock` to `NotifyWorker` are the head of `run_workloads` with `Thread::start`;
`Run` and `Work` are an iteration of `process_workloads` with the `fetch_add` that ends it; `Wait` and `Return` the loop
over all workers, also those that were given nothing. A worker holds its mutex while it works (`Locked`), as in the code. `job` stands for
`_workloads`, `_feeder` and `_info`, which are assigned together; `thread_id` is always the worker's place in
the list. A sleeper in `cv.wait` may wake up for no reason (`SpuriousWakeup`) and then tests its condition again; nothing relies
on it, for `Spec` is not fair to it. Which kernel is scheduled is chosen freely in `ScheduleCommon`.

`done` is history: how often each iteration of a graph's kernel was executed. The mapping to `ParallelFor`: a graph
is busy from `schedule_common` to its return.

## 3. What the runs check

Bounds are constants of the configurations; no model has a hidden one.

| Run | Bounds | Shows |
|---|---|---|
| `channel` | 5 frames | `TypeOK`; `InputInOrder`: the n-th time the tasks run, the tensor holds frame n; `NoBacklogAsleep`: no sleep while a frame waits; `FifoSpec`; `AllDelivered`: each sent frame is received in the end |
| `serial_branch` | 4 graphs, 2 warm-up and 2 measured frames | two branches that meet in the last graph, listed in an order opposite to the one they are fed in: `InputsAligned`, `AverageCoversRuns`: the average is over the measured frames, each latency counted from the arrival of its own frame; `SwitchedSpec`: one frame at a time, which also keeps the queues of copies short; `Termination` |
| `order` | all orders of 2 to 5 characters over L, B, G, N and one that names no component | `EveryLayerPlaced`, `GraphsInOrder`, `NeighboursDiffer` |
| `builder` | 3 graphs of one layer number, a stream and 2 substreams, 3 layers after the input | `LayersReadTheirInputs`, `ChannelsLeadForward`, `OneChannelPerValue`, `NoStrayChannel`, `UsedGraphsFirst`, `FirstReceiverTargets` |
| `finalize` | 5 nodes and any Const nodes, layers of up to 2 inputs, either target | `Consistent`: the four records of each connection agree at every step; `OutputsKeepTheirTensors`; `NpuReadsItsInputs`; `SortedTopologically` |
| `memory` | all networks of up to 3 nodes, those of 4 in which nothing is both sent and read, and five typical ones of 6 to 8 nodes; tensors of 1 or 3 units, alignment 2 | `InputsIntact`: a task's inputs are not overwritten before it is done; `SentIntact`: what is sent is still there when the pool has been released; `WithinPool`; `AllFinalized`; `FewestBlobs`: reuse is as good as it can be |
| `governor` | 3 layers in any mapping whose first is not on the NPU, the three kinds of network, the three power modes, 1 request of any form with levels 1 and 2, 2 in a plain network, 1 warm-up and 1 measured frame | `AtRequestedLevels` (plain networks), `CompleteRequestsRun`, `PhasesPerFrame` |
| `scheduler` | 2 graphs, one on each cluster; 3 threads on one cluster (2 workers), 1 on the other; 2 kernels of one graph, 1 of the other, of five kinds: more windows than threads, fewer, windows in two dimensions with an empty one, none, not parallelisable | `UnlockedAssignAlone`, `ParallelForSpec`, `KernelsReturn` |

Why the bounds are enough. Five frames fill the queue while a frame is in the tensor and let the
race come out both ways several times; the proofs cover any number. Four graphs are the least with two
parallel branches that join, and two frames of each phase let every pair of neighbouring frames,
and the change of phase, meet. Five letters allow three graphs with inner letters; the
proofs cover any length. Three layers are the least in which a value is used in two later
graphs, a received value is sent on, and a joining layer finds one input local, one received and
one in another graph; each of the three outcomes of the input loop, and each finding below,
occurs within them. The two substreams are interchangeable, so the run uses symmetry.
Five nodes are the least for two inputs, a layer that joins them and two outputs, for a diamond,
and for the three of the problem in `finalize_shared`; they include an NPU node with two edges from one input,
which `dfs` visits twice.
A blob is used again from five nodes on; `Chain` has six, so that two are. The typical networks add a tensor
read twice, a fire module done in place, a concatenation within one, and lifetimes that all end in the
middle. Sizes 1 and 3 make a blob grow or not, with alignment 2 each leaves a gap, and frames repeat for ever, so what one leaves the next finds.
The proofs cover any network, sizes and alignment.
Three layers allow every neighbourhood of same, different and NPU letters, and the wrap from the last
layer to the first; two requests let every form follow every other in a plain network; since each frame commits
the same levels in the same order, one warm-up frame stands for three.
Three threads are the least with which a worker can be left without work while another has some. A graph that was given the other
cluster's scheduler competes for it with the graph that belongs there, whose two kernels come one before and one after;
with one thread on the other cluster, the graph that is sent there runs its kernels alone or, in two dimensions,
without workers. The proofs cover any number of threads, graphs and kernels; only `KernelsReturn` rests on these bounds.

Runs in which the code breaks what its documentation or comments say:

| Run | Property | What happens |
|---|---|---|
| `channel_npu` | `InputInOrder` | an NPU receiver neither reads nor pops its queue (`src/graph/TensorPipeline.cpp:561`) |
| `builder_gcc` | `NoStrayChannel` | GCC evaluates `get_tail_graph_id()` before `tail_node()` (`arm_compute/graph/frontend/Layers.h:738`); a residual block whose first convolution starts a graph then sends an unrelated tensor as well |
| `finalize_shared` | `ConnectionsInRange` | an input that two layers of an NPU graph read becomes two edges to a node with one slot (`src/graph/nodes/NPUNode.cpp:103`) |
| `scheduler_get` | `PrivateBuffers` | a graph is given the scheduler that another graph has just chosen (`src/runtime/Scheduler.cpp:137`), and its kernel runs on more threads than it has buffers for (`src/core/NEON/kernels/arm_gemm/gemm_interleaved.hpp:737`) |

The passing runs also keep clear of some cases in which the code does not do what it should.
Each is a value of a constant, so that the case can be seen by changing it in a configuration:

| Constant | Fails | Why |
|---|---|---|
| `Orders` with a sequence of one letter, defined in `MCOrderPartition` | `EveryLayerPlaced` | an order of one letter adds no graph (`utils/UtilsPipeline.h:132`) |
| `HeadChannels`, `HeadReceivers`, `HeadTargets`, defined in `MCSerialPipeline`, for 3 graphs, 1 warm-up and 2 measured frames | `AverageCoversRuns` | a graph off the path to the last one, as a detection head can be, resets the shared `latency_time` late (`src/graph/GraphManagerPipeline.cpp:377`) |
| `JoinsUnmanaged = TRUE` in `MCTransitionMemory` | `InputsIntact` | `allocate` does nothing on a sub-tensor (`src/graph/backends/NEON/NESubTensorHandle.cpp:40`), so a received or sent value that is joined in place has no memory; it takes a concatenation along the channels in the layout NCHW, which is not the default, in another graph than its input |
| `ForwardAcross = TRUE` in `MCStreamBuilder` | `NoStrayChannel`, `LayersReadTheirInputs` | `forward_tail` leaves the graph id behind (`src/graph/frontend/StreamPipeline.cpp:763`); of the examples only MobileNetV2 could meet it, which has no table of starting layers and is never partitioned |
| `Orders` with orders that begin with N, in `MCGovernor` | `CompleteRequestsRun` | first layer on the NPU and an N in the uninitialised `prev_p` (`src/graph/GraphManagerPipeline.cpp:1552`) |
| `GpuInBrackets = FALSE` in `MCGovernor` | `AtRequestedLevels` | a plain index is not read for the GPU (`src/graph/GraphManagerPipeline.cpp:1525`) |
| `Requests` with 2 requests in trailing networks, in `MCGovernor` | `CompleteRequestsRun` | the last task of a ResNet graph, a `Relu`, governs after a request by graph; `extract_governor_tasks` clears the flags in two of three modes only (`src/graph/GraphManagerPipeline.cpp:1316`), so the next request, by layer, finds a governing task without levels and `map::at` ends the program |
| trailing networks, which `AtRequestedLevels` leaves out | `AtRequestedLevels` | ResNet's `Relu` runs at the next layer's levels (`utils/main_layer_checker.h:87`) |
| detection networks, which it leaves out too | `AtRequestedLevels` | a graph that ends with a YOLO head does not govern (`src/graph/GraphManagerPipeline.cpp:1353`) |

A character that names no component, such as the hyphens of the documented form `B-L-G`
(`utils/CommonGraphOptions.cpp:271`), makes a graph with an uninitialised target
(`src/graph/frontend/StreamPipeline.cpp:567`).

Each property of a passing run also has a mutant, an operator next to the definition it replaces,
with a mistake the code could well contain: a dropped reset, a missing notification, a tail
not moved, a boundary off by one.

**Fairness.** `TransferChannel!FairSpec`: weak fairness of the two threads and of the racy
store, because the scheduler runs every runnable thread and a store reaches memory; strong
fairness of the sender's lock, because the receiver can take the mutex again and again after
spurious wake-ups. `SerialPipeline!FairSpec`: weak fairness of every thread and every store. Nothing
is assumed about wake-ups beyond the notification the code sends. `CpuScheduler!Spec`: weak fairness of every thread of a graph and
every worker. A `std::mutex` is not fair, but a graph comes back to a scheduler's mutex only as often as it schedules kernels,
so it cannot keep another one from it for ever.

**Deadlock** is checked except where the system stops by itself: the threads of
`SerialPipeline` end (`Termination` says that they end nowhere else), `config_pipeline` returns,
the network is complete, the graph is sorted, the program is at its last prompt, and the
workers sleep when no kernel is left (`KernelsReturn` says that they never do before).

## 4. What is proved

`TransferChannelProofs`, for every number of frames (`NumFramesAssumption`) and both kinds of
receiver unless said otherwise:

* `Typing`: `Spec => []TypeOK`.
* `InOrderDelivery` (receivers that are not of an NPU): `Spec => []InputInOrder`.
* `NoSleepOverBacklog` (same): `Spec => []NoBacklogAsleep`.
* `ChannelIsFifo` (same): `Spec => FifoSpec`.

The three rest on the inductive invariant `ChannelInv`. `InputInOrder` is not inductive: that the
tensor holds frame n when the tasks start depends on what is under way. `MutexInv` says who may be
between lock and unlock; `ReadyInv`, that the receiver is ready, or about to be, only
between its announcement and the frame that answers it; `TransitInv`, that the transferred frame
followed by the queue is the consecutive numbers from `received + 1` to the last frame pushed;
`WaitInv`, that a receiver in `condVar.wait` without a transferred frame has an empty queue and is
seen as ready at the sender's next test; `LoopInv` bounds the counters. The heart of it is `WaitInv`: the sleep is
safe because the unlock inside `wait` publishes the racy store before the sender can lock.

`OrderPartitionProofs`, for every set of orders over any letters (`OrdersAssumption`):

* `PartitionTyping`, `Partition`, `NeighboursApart`: `Spec => []TypeOK`, `Spec => []GraphsInOrder`, `Spec => []NeighboursDiffer`.
* `Placement`: if no order has length 1, `EveryLayerPlaced` holds.

They rest on `PartitionInv`: letters before `start` are placed, those from `start` to `i` are equal
and form the graph under construction, whose letter differs from the last graph's.

`SerialPipelineProofs`, for every network that meets `ChannelsAssumption` (any number of graphs, of channels and of receivers and
targets per graph) and any number of warm-up and measured frames:

* `PipelineTyping`: `Spec => []TypeOK`.
* `AlignedInputs`: `Spec => []InputsAligned`.
* `PipelineSwitches`: `Spec => SwitchedSpec`.
* `AverageOfRuns`, if every graph but the last has a target (`Connected`): `Spec => []AverageCoversRuns`. Without this a graph
  that leads nowhere may still be in its first iterations, and reset the sum, when the last one adds to it.

The counters of two graphs differ by as much as the channels between them let them, so none of these is inductive.
`LoopInv` says where a thread can be. `TransitInv` derives from the two threads' positions how many frames were sent on a channel and
received from it, and says that those in between are in the tensor and in the queue, consecutively; hence the tensor holds the frame
of the iteration when the tasks run. `SwitchInv` says that the first graph has admitted at most one frame more than the last has completed, that
`ready` is set exactly when the two are equal, and that no graph has taken a frame that was not admitted. A channel's receiver never takes
a frame before its sender has (`Downstream`), so in a connected network the last graph is behind all others (`LastBehind`, by a least
element); `LatencyInv` says that the sum counts the measured frames once every graph has reset it, and
every graph has by the time the last one adds.

`StreamBuilderProofs`, for every partition that meets `RangesAssumption`, any number of streams, any number of layers and whichever
names are in the table of starting layers, assuming `~GraphIdFirst` and `~ForwardAcross` (the runs `MCStreamBuilderGcc` and the bounds
below show what happens otherwise):

* `BuilderTyping`, `LayersRead`, `ForwardChannels`, `SingleChannels`, `NoStray`, `FirstGraphsUsed`, `FirstReceivers`: `Spec => []P` for
  `TypeOK`, `LayersReadTheirInputs`, `ChannelsLeadForward`, `OneChannelPerValue`, `NoStrayChannel`, `UsedGraphsFirst` and `FirstReceiverTargets`.

The inductive invariant `Inv` ties `node_map` to the graphs. `Entry`: each key of `node_map` is a node that holds a value, in an earlier graph than the current
one, with one Sender there and at least one Receiver; `LinkInv`: the channels are exactly the pairs of these; `OwnerInv`: every Sender and Receiver
stands for one key, and no two keys share one. `TailInv` and `WorkInv` say that the tails and the listed inputs carry the value they stand for and that, once
the list is worked through, all that the layer reads is in its graph. `TargetInv` ties the graphs in use and the hints to the layer number, which
rests on the ranges: `NextTarget` shows that the layer after one in graph g is in g, or is the first of g + 1. Three properties are about nodes that are there already
(`ReadsInv`, `StrayInv`, `FirstInv`) and are carried along, since graphs only grow (`Grown`).
Together with `Partition`, these are the facts that `ChannelsAssumption` asks of the network that `SerialPipelineProofs` starts from.

`CpuSchedulerProofs`, for every kernel, of any strategy and any numbers of iterations, and any number of threads:

* `PartsDisjoint`, `PartsCover`: the parts that `split_window` makes of a window do not overlap and leave nothing out.
* `WorkloadsTile`: `schedule_common` makes at least one workload, and each iteration is in exactly one.

Part `id` ends where part `id + 1` begins (`PartFromFirst`), and where they begin is monotone in `id`. That `split_2d` finds
a rounded root and a factor at all is shown by least elements (`RoundedRootNat`, `Split2dType`); `Locator` takes a workload's number apart again.

In the same module, for any number of graphs, of threads of either scheduler and of kernels to schedule, under the assumptions
`CpuScheduler` names:

* `SchedulerTyping`: `Spec => []TypeOK`.
* `AssignsAlone`: `Spec => []UnlockedAssignAlone`.
* `SchedulerIsParallelFor`: `Spec => ParallelForSpec`.

They rest on the inductive invariant `SchedulerInv`. `OwnerInv` says that a scheduler's mutex is held by the one graph that is
in its `run_workloads`; `GraphInv`, where the graph's loops over the workers are; `WorkerInv`, that a worker whose
job is not complete works for that graph, which has started it and not yet waited for it. This is what makes the unlocked assignments of `start` safe,
and no worker alone can tell: its flags are set by whoever holds another mutex. For the refinement, `ProgressInv` says who has which
workload: the feeder's counter is past those that are with a thread, no two threads have the same, and the iterations executed are those
of the workloads no longer pending. `Pending` counts a worker's first workload as the worker's from `Lock` on, before it is
started, while it has not begun, and while it executes it, so that the steps in between change nothing; `Lock`, `Run` and `Work` are
the steps that do. When the graph has waited for every worker nothing is pending (`AllDone`), and by `WorkloadsTile` every
iteration was executed once.

`GraphFinalizeProofs`, for graphs with any number of nodes, of any shape, and layers with any number of inputs:

* `FinalizeTyping`: `Spec => []TypeOK`.
* `RecordsAgree`: `Spec => []Consistent`.
* `TensorsKept`: `Spec => []OutputsKeepTheirTensors`.
* `TasksInOrder`: `Spec => []SortedTopologically`.
* `InputsRead`: `Spec => []NpuReadsItsInputs`.

`Sound` says of any graph what `Consistent` says of the current one, together with the types of its records. One lemma per
operation of `Graph` says what it changes (`Disconnected`, `Connected`, `Extended`, `Retensored`, `NodeRemoved`), and one that it keeps a graph
sound, on conditions: a connection is made only to an input that is free, or past the last one, and a node is removed only if
the edges that lead to it are in its list of inputs, since `remove_node` finds them there. The inductive invariant `IInv` is what makes the
conditions hold: `Shaped`, that only an NPU node is led to past its inputs; `Unconnected`, that the inputs still free are the last of
the last node; `Loops`, that the NPU node's inputs from `slot` on are free and that the loops are over nodes of their kind. `Merging` says
for each output which tensor it reads, and from the NPU node once the loop has come to it.

For the sort the invariant is strengthened by two more. `EdgeInv` says where edges lead: `Forward`, that in a constructed graph they lead
from earlier nodes to later ones, no two of them between the same nodes, and that the first input of a layer comes from an input or a
layer, so that some layer reads an input (`SomeInputRead`: the first layer does); that this is still so of the NPU node when its edges have been
moved; and that after a merge inputs lead to the NPU node only. `SortInv` says what `dfs` has done: `NoneLost`, that a source, and a node
with everything it reads in the order, is on the stack or in the order itself; `StackReady` and `ReadsPrecede`, that what a node on
the stack or in the order reads is already there; and for graphs that were not merged `InOrderOnce` and `StackOnce`. That the sources are
the bottom of the stack is part of the latter: a node made ready by a source is then not on the stack yet, since nothing but sources is
below, and one made ready by another node waited for that node. When the stack is empty the first node missing from
the order would read only nodes that are there (`AllInOrder`; in a merged graph, which does not lead forward, there are two levels above the
inputs). For the NPU `SortedIs` shows what dropping repetitions keeps.

`InputsRead` compares numbers of edges, for which `CountInv` is added: at every step of the merge each input has as many edges to layers or
the NPU node as it had to layers when the graph was constructed (`MoveOutput` swaps an edge to an output for another, `MoveInput` one to a layer
for one to the NPU node, and a removed node takes no edge from an input with it), and the edges to the NPU node lead to its slots up to
their number, which is `slot`. With `TotalUses` no larger than the number of inputs these slots are all in its list, so that each edge is found
in it (`ReadOverSlots`). Where there are more edges the property says nothing: `MoveInput` then writes past the list
(section 3). TLC checks `IInv`, `EdgeInv`, `SortInv` and `CountInv` on the instance of the `finalize` run with 4 nodes.

`GovernorProofs`, for mappings of any length, any number of requests and of frames, any hosts, levels and side layers:

* `GovernorTyping`: `Spec => []TypeOK`, `OnePhaseEach`: `Spec => []PhasesPerFrame`.
* `CompleteNeverTerminates`: `Spec => []CompleteRequestsRun`, if `prev_p` does not hold N where the first layer is on the NPU
  (`PrevIsNotNpu`) and a trailing network is asked once (`TrailingOnce`).
* `RunsAtRequestedLevels`: `Spec => []AtRequestedLevels`, if `PrevIsNotNpu`, the user writes brackets (`GpuInBrackets`) and a
  frame of warming up comes first.

Each of these hypotheses is one of the bounds of section 3 that fails when it is lifted; the run meets them all.

The pin: `Falling` says at each step whether the pin is low and that it has fallen as often as phases have ended, once more while it is low. It is low from the first
task of a layer to its ending task, although the two switches come from different tables, because a task after one that does not end its layer is of
the same layer, or of a trailing network, which has no side layers (`SideKept`).

The levels: a request is read by counting, so the proof counts too. What makes the counts agree is that things come in the same
order: visible layers and their ending tasks, graphs and their first tasks (`ListedAlike`: a map that
ascends from one set of numbers onto another takes the i-th to the i-th; `LayerUnits`, `GraphUnits`). That layers
without a task go on with the NPU graph before them (`Between`) is shown by a least counterexample. `UnitAfter` says, for layers and for graphs, that what
closes a unit comes right before what opens the next, so that the governor before a task closes the unit before the task's; `LevelsOfNext`, that
`set_freq_map`'s index, which begins at the last governor and wraps around, gives it the levels of the unit after it. So a
governor has the levels the user means for every task up to the next governor (`RightLevels`, kept by `Assigned`), and `Forced` says that from the second frame on they are in force:
the last task governs in every mode, so that a frame begins with the levels that the one before left. `EndersGovern` is about earlier requests: the flags that
mode "layers" does not clear are those of ending tasks, which it sets anyway. TLC checks `Switching`, `Falling`, `EndersGovern`, `Assigned` and
`Forced` on the instance of the `governor` run.

`TransitionMemoryProofs`, for every network that meets `NetworksAssumption` (any number of nodes, of any shape), any sizes and
alignment, and either lifetime manager:

* `MemoryTyping`: `Spec => []TypeOK`.
* `Finalized`: `Spec => []AllFinalized`.
* `Within`: `Spec => []WithinPool`.
* `Fewest`: `Spec => []FewestBlobs`.
* `InputsKept` and `SentKept`, if inputs and sent values are not joined in place (`~JoinsUnmanaged`): `Spec => []InputsIntact`
  and `Spec => []SentIntact`. Otherwise a part may have no memory at all (section 3).

What a task reads depends on who wrote which cells long ago, what memory a tensor has on which tensors were in use when its blob was handed
on, and a blob is handed on by a counter. The invariant ties these together. Tasks serve as times: `Uses` are the tasks
that write or read a tensor or its parts, and two tensors are `Apart` if all uses of one come before all uses of the other.

* `ForestInv`, about the handles: the parts of a joined concatenation fill it, and tensors that are not put together do not overlap in their parent. The
  mutator goes backwards, so that a concatenation's own place is final when its parts are given theirs.
* `FlightInv`, about the counter: `tensors_in_flight` has exactly the tensors some part of which has been written (`Begun`) and some read of which is to come
  (`Open`), each with the number of these reads. A tensor that is released is therefore `Over`: whatever uses it
  comes before, although several tasks write it (`ReleaseOver`).
* `BlobInv`: the tensors of a blob are pairwise apart, no tensor is in two blobs, and a free blob is as large as each of its tensors. A new lifetime begins only after those
  of the others in the blob are over, which makes it apart from them.
* `CompleteInv`: every tensor written so far is in a blob or has a place, and when no lifetime is open nothing is left unplaced.
* `PlaceInv`: tensors with a place are apart or `Beside` each other, and within their area; during an update, those of this update lie below the cursor, and those of an
  earlier one are apart from all that are still to be placed. The sum of the sizes and one alignment per blob stays ahead of the offset (`cursor.offset <= cursor.needed`).
* `FewInv`: a blob is added only when every other one is occupied, by a tensor in use at this task, so that the blobs there are (`BlobsNow`) never were more than the
  tensors in use at some task.
* `FrameInv`, about the frames: a tensor's cells hold what its node wrote in this frame from the task of that node to the last use of its
  parent. What another task writes then lies in cells of its own (`ForestInv`, `PlaceInv`), or in memory of a tensor whose uses are all before or all after.

TLC checks all of them on the instance of the `memory` run; `PackingInv`, all but the last, does not depend on `~JoinsUnmanaged`.

Every invariant and every refinement that a passing run checks is a theorem. Only model-checked is liveness: `AllDelivered`, `Termination` and
`KernelsReturn`, which rest on fairness, and with it on ENABLED.

## 5. What is not modelled

* Input and output accessors, timing statistics other than the latency: they do not
  influence the order of frames. `Governor` has the pins and frequencies.
* In `Governor`: an empty request (the prompt cannot give one), more elements than layers, different
  numbers for the three processors in `{{l-b-g}}`, and networks whose graphs are no chain.
* `wait_for_receiver`, `signal_receiver`, `execute_graph` and
  `warmup_and_execute_graph_pipeline`: `run_w_parallel` and `run` select the other paths by
  constants.
* `Host_PE`: `add_graph` stores `_PE` in its place, so the options for the host cluster have no effect.
* The mutators other than `DepthConcatSubTensorMutator`, the memory within a layer.
* The weights manager: only fully connected layers register weights, each graph has a manager of its own, and the pass
  that would prepare them all and release the unused ones is commented out (`src/graph/GraphManagerPipeline.cpp:239`), so weights are
  transformed one after the other in a graph's first run.
* In `CpuScheduler`: setting the number of threads and joining them, before and after the graphs' threads run; the
  single-thread, OpenMP and custom schedulers; exceptions thrown by kernels, which `run_workloads` does not catch unless they are system
  errors and which nothing catches in a graph's thread.
* In `TransitionMemory`: splits in place, a value that two concatenations join, and one that nothing uses. No example has
  the last two; `configure_handle_lifetime` would throw for the last.
* The tables of starting layers (`utils/main_layer_checker.h`): an input of `StreamBuilder`.
* A joining layer of one or more than two substreams: no other control than that of two.
* Kernels, functions, vendored code, examples and tests.

## 6. Plan

Done: the connection, the switching execution, the partitioning, the construction, the governor, the
finalising, the transition memory, the CPU schedulers, and the proofs of section 4, in the order of their weight for the results.

Next: `PipelineWarmup`, the barrier and the overlapping execution of `warmup_and_execute_graph_pipeline`, with the same
channels, should a build select it; then separate threads committing frequencies.
