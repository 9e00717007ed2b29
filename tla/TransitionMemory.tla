---------------------------- MODULE TransitionMemory ----------------------------
(***************************************************************************)
(* The memory of the tensors between the tasks of one graph.  Before the   *)
(* run, DepthConcatSubTensorMutator may make the inputs of a               *)
(* concatenation parts of its output; configure_transition_manager then    *)
(* walks over the tasks, and the lifetime manager packs tensors that are   *)
(* not in use at the same time into the same blob.  A tensor that an       *)
(* Input, Output, Receiver or Sender node touches has memory of its own.   *)
(* A frame takes the pool, runs the tasks, gives the pool back, and only   *)
(* then are the outputs sent.                                              *)
(*                                                                         *)
(* A node and its output tensor have the same number; nodes are numbered   *)
(* in the order of the topological sort.  Input and Receiver nodes are     *)
(* "input" here; "sent" is a value that an Output or a Sender reads.       *)
(* Const nodes are left out.                                               *)
(***************************************************************************)
EXTENDS Integers, Sequences, FiniteSets, SequencesExt

CONSTANTS Networks,        \* sequences of nodes [kind, ins, size, sent]; size is the output tensor's
          Alignment,       \* of every tensor
          JoinsUnmanaged   \* whether a value may be joined in place that is an input or sent

\* Where the parts of concatenation c begin in its output, and where the last one ends.
Begins(network, c) ==
    LET ins == network[c].ins
    IN  {at \in [1 .. Len(ins) + 1 -> 0 .. network[c].size] :
            /\ at[1] = 0 /\ at[Len(ins) + 1] = network[c].size
            /\ \A i \in DOMAIN ins : at[i + 1] = at[i] + network[ins[i]].size}

IsNode(node) ==
    /\ node.kind \in {"input", "layer", "concat"}
    /\ node.ins \in Seq(Nat) /\ node.size \in Nat \ {0} /\ node.sent \in BOOLEAN

\* The inputs of a node come before it; every value is used; a concatenation is as large as its
\* inputs together; none is joined twice.
WellFormed(network) ==
    /\ network \in Seq({network[n] : n \in DOMAIN network})
    /\ \A n \in DOMAIN network :
         /\ IsNode(network[n])
         /\ ToSet(network[n].ins) \subseteq 1 .. n - 1
         /\ network[n].kind = "input" <=> network[n].ins = <<>>
         /\ network[n].sent \/ \E m \in DOMAIN network : n \in ToSet(network[m].ins)
         /\ network[n].kind = "concat" => Begins(network, n) # {} /\ IsInjective(network[n].ins)
    /\ \A c, d \in DOMAIN network :
         network[c].kind = "concat" /\ network[d].kind = "concat"
             /\ ToSet(network[c].ins) \cap ToSet(network[d].ins) # {} => c = d

ASSUME NetworksAssumption == \A network \in Networks : WellFormed(network)
ASSUME AlignmentAssumption == Alignment \in Nat \ {0}

VARIABLES
    net, manager,          \* the graph; "offsets" (CPU) or "blobs" (GPU)
    joined,                \* concatenations that are not enabled
    parent, depth,         \* parent_handle of each tensor, and where the tensor begins in it
    phase,
    task, stage, slot,     \* node and loop of the pass under way, and the loop's index
    inFlight,              \* tensors_in_flight
    occupied, free,        \* _occupied_blobs by their ids, _free_blobs
    cursor,                \* the locals of update_blobs_and_mappings
    areas, owners,         \* areas of the pool to be made; owners of _blob
    mappings,              \* of the memory group: area of the pool and offset in it
    acquired,              \* _pool is set
    memory,                \* cell -> value in it
    frame                  \* number of the frame, modulo 2

graph == <<net, manager>>
handles == <<joined, parent, depth>>
loops == <<task, stage, slot>>
blobs == <<inFlight, occupied, free>>
pool == <<areas, owners, mappings>>
run == <<acquired, memory, frame>>
vars == <<graph, handles, phase, loops, blobs, cursor, pool, run>>

Nodes == DOMAIN net
Ins(n) == ToSet(net[n].ins)
OfKind(kind) == {n \in Nodes : net[n].kind = kind}
Larger(a, b) == IF a > b THEN a ELSE b

--------------------------------------------------------------------------------
(* Handles *)

Unmanaged == {n \in Nodes : net[n].kind = "input" \/ net[n].sent}

\* Mutant of ConstHandles: Senders are not among the types of node, as in the library
\* that has none.
ConstHandlesInput == {parent[n] : n \in OfKind("input")}

\* get_const_handles
ConstHandles == {parent[n] : n \in Unmanaged}

\* allocate_const_tensors_pipeline; on a part it does nothing.
Allocated == {n \in Unmanaged : parent[n] = n}

\* A concatenation in place has no function and so no task.
Tasks == Nodes \ (OfKind("input") \cup joined)

\* The tasks that the loop under way has not come to.
Remaining == {k \in Tasks : k > task}

\* get_transition_handles
InputHandles(n) == [i \in DOMAIN net[n].ins |-> parent[net[n].ins[i]]]

\* Mutant of Reads: the inputs of all nodes are counted, those without a task included.
ReadsOfNodes(h) == UNION {{k} \X {i \in DOMAIN net[k].ins : InputHandles(k)[i] = h} : k \in Nodes}

\* The inputs that count_input_handles_per_target counts for a handle.
Reads(h) == UNION {{k} \X {i \in DOMAIN net[k].ins : InputHandles(k)[i] = h} : k \in Tasks}

--------------------------------------------------------------------------------
(* Behaviour: concatenations in place *)

Init ==
    /\ net \in Networks
    /\ manager \in {"offsets", "blobs"}
    /\ joined = {} /\ parent = [n \in Nodes |-> n] /\ depth = [n \in Nodes |-> 0]
    /\ phase = "mutating"
    /\ task = Len(net) + 1 /\ stage = "done" /\ slot = 1
    /\ inFlight = <<>> /\ occupied = <<>> /\ free = <<>>
    /\ cursor = [index |-> 1, offset |-> 0, needed |-> 0]
    /\ areas = <<>> /\ owners = 0 /\ mappings = <<>>
    /\ acquired = FALSE /\ memory = <<>> /\ frame = 0

\* The mutator goes backwards over the nodes.
NextConcat ==
    /\ phase = "mutating"
    /\ \E c \in OfKind("concat") : c < task
    /\ task' = Max({c \in OfKind("concat") : c < task})

\* Whether a concatenation can be done in place depends on the layout of the tensors and on how
\* they are quantised.
LeaveConcat ==
    /\ NextConcat
    /\ UNCHANGED <<graph, handles, phase, stage, slot, blobs, cursor, pool, run>>

\* The handles of the inputs become parts of the output's.
JoinConcat ==
    /\ NextConcat
    /\ JoinsUnmanaged \/ Ins(task') \cap Unmanaged = {}
    /\ \E at \in Begins(net, task') :
         depth' = [n \in Nodes |->
                     IF n \in Ins(task')
                       THEN depth[task'] + at[CHOOSE i \in DOMAIN net[task'].ins : net[task'].ins[i] = n]
                       ELSE depth[n]]
    /\ parent' = [n \in Nodes |-> IF n \in Ins(task') THEN parent[task'] ELSE parent[n]]
    /\ joined' = joined \cup {task'}
    /\ UNCHANGED <<graph, phase, stage, slot, blobs, cursor, pool, run>>

\* configure_transition_manager, up to the loop of configure_handle_lifetime.
CountHandles ==
    /\ phase = "mutating"
    /\ \A c \in OfKind("concat") : c >= task
    /\ phase' = "lifetimes" /\ task' = 0
    /\ UNCHANGED <<graph, handles, stage, slot, blobs, cursor, pool, run>>

--------------------------------------------------------------------------------
(* Behaviour: configure_handle_lifetime *)

NextTask ==
    /\ phase = "lifetimes" /\ stage = "done" /\ Remaining # {}
    /\ task' = Min(Remaining) /\ stage' = "inputs" /\ slot' = 1
    /\ UNCHANGED <<graph, handles, phase, blobs, cursor, pool, run>>

\* Mutant of Following: the inputs are released before the output is acquired.
FollowingEarlyRelease(s) == CASE s = "inputs" -> "release" [] s = "release" -> "output" [] OTHER -> "done"

\* The loops over the handles of a task.
Following(s) == CASE s = "inputs" -> "output" [] s = "output" -> "release" [] OTHER -> "done"

Listed == IF stage = "output" THEN <<parent[task]>> ELSE InputHandles(task)

AtHandle == phase = "lifetimes" /\ stage # "done" /\ slot \in DOMAIN Listed

NextStage ==
    /\ phase = "lifetimes" /\ stage # "done" /\ slot \notin DOMAIN Listed
    /\ stage' = Following(stage) /\ slot' = 1
    /\ UNCHANGED <<graph, handles, phase, task, blobs, cursor, pool, run>>

\* A handle that is not managed is not in the task's lists, and one in flight not acquired again.
SkipHandle ==
    /\ AtHandle
    /\ Listed[slot] \in ConstHandles \/ (stage # "release" /\ Listed[slot] \in DOMAIN inFlight)
    /\ slot' = slot + 1
    /\ UNCHANGED <<graph, handles, phase, task, stage, blobs, cursor, pool, run>>

With(f, S, v) == [x \in DOMAIN f \cup S |-> IF x \in S THEN v ELSE f[x]]

Without(f, x) == [y \in DOMAIN f \ {x} |-> f[y]]

\* Mutant of StartLifetime: a blob for each tensor.
StartLifetimeAnew(h) ==
    /\ occupied' = With(occupied, {h}, [size |-> 0, bound |-> {h}])
    /\ free' = free

\* start_lifetime: in the blob freed last, or in a new one.
StartLifetime(h) ==
    IF free = <<>>
      THEN occupied' = With(occupied, {h}, [size |-> 0, bound |-> {h}]) /\ free' = free
      ELSE occupied' = With(occupied, {h}, Head(free)) /\ free' = Tail(free)

AcquireHandle ==
    /\ AtHandle /\ stage # "release"
    /\ LET h == Listed[slot]
       IN  /\ h \notin ConstHandles \cup DOMAIN inFlight
           /\ inFlight' = With(inFlight, {h}, Cardinality(Reads(h)))
           /\ StartLifetime(h)
    /\ slot' = slot + 1
    /\ UNCHANGED <<graph, handles, phase, task, stage, cursor, pool, run>>

\* --tensors_in_flight[h], when others are still to read it.
ReleaseRead ==
    /\ AtHandle /\ stage = "release"
    /\ LET h == Listed[slot]
       IN  /\ h \notin ConstHandles /\ inFlight[h] > 1
           /\ inFlight' = [inFlight EXCEPT ![h] = @ - 1]
    /\ slot' = slot + 1
    /\ UNCHANGED <<graph, handles, phase, task, stage, occupied, free, cursor, pool, run>>

\* Mutant of Freed: a blob has the size of its last tensor.
FreedLastSize(h) == [size |-> net[h].size, bound |-> occupied[h].bound \cup {h}]

Freed(h) == [size |-> Larger(occupied[h].size, net[h].size), bound |-> occupied[h].bound \cup {h}]

\* The last read: end_lifetime.  The blob is free for other tensors; when no lifetime is open, the
\* mappings are entered next.
ReleaseLast ==
    /\ AtHandle /\ stage = "release"
    /\ LET h == Listed[slot]
       IN  /\ h \notin ConstHandles /\ inFlight[h] <= 1
           /\ inFlight' = Without(inFlight, h)
           /\ occupied' = Without(occupied, h)
           /\ free' = <<Freed(h)>> \o free
           /\ phase' = IF DOMAIN occupied = {h} THEN "placing" ELSE phase
    /\ cursor' = [index |-> 1, offset |-> 0, needed |-> 0]
    /\ slot' = slot + 1
    /\ UNCHANGED <<graph, handles, task, stage, pool, run>>

--------------------------------------------------------------------------------
(* Behaviour: update_blobs_and_mappings *)

\* align_offset
AlignOffset(offset) == offset + ((Alignment - (offset % Alignment)) % Alignment)

SizeAt(k) == IF k \in DOMAIN areas THEN areas[k] ELSE 0

\* Mutant of Widened: the list of areas keeps its length.
WidenedUnresized(k, size) == [i \in DOMAIN areas |-> IF i = k THEN Larger(areas[i], size) ELSE areas[i]]

\* The k-th area is as large as any requirement so far.
Widened(k, size) ==
    [i \in 1 .. Larger(Len(areas), k) |-> IF i = k THEN Larger(SizeAt(i), size) ELSE SizeAt(i)]

\* The offsets are given in the order of the list, the blobs from the largest on.
ComesNext(k) ==
    IF manager = "offsets" THEN k = 1
    ELSE \A i \in DOMAIN free : IF i < k THEN free[i].size < free[k].size ELSE free[i].size <= free[k].size

\* An iteration: the CPU's blobs lie one after the other in one area, each of the GPU's in its own.
PlaceBlob ==
    /\ phase = "placing"
    /\ \E k \in DOMAIN free :
         /\ ComesNext(k)
         /\ LET home == IF manager = "offsets" THEN <<1, cursor.offset>> ELSE <<cursor.index, 0>>
            IN  mappings' = With(mappings, free[k].bound, home)
         /\ cursor' = [index |-> cursor.index + 1,
                       offset |-> AlignOffset(cursor.offset + free[k].size),
                       needed |-> cursor.needed + free[k].size + Alignment]
         /\ areas' = IF manager = "offsets" THEN areas ELSE Widened(cursor.index, free[k].size)
         /\ free' = RemoveAt(free, k)
    /\ UNCHANGED <<graph, handles, phase, loops, inFlight, occupied, owners, run>>

\* All have a place, and the manager forgets them.
FinishUpdate ==
    /\ phase = "placing" /\ free = <<>>
    /\ phase' = "lifetimes"
    /\ IF manager = "offsets"
         THEN areas' = Widened(1, cursor.needed) /\ owners' = Larger(owners, cursor.index - 1)
         ELSE UNCHANGED <<areas, owners>>
    /\ UNCHANGED <<graph, handles, loops, blobs, cursor, mappings, run>>

\* GraphContext::finalize
Populate ==
    /\ phase = "lifetimes" /\ stage = "done" /\ Remaining = {}
    /\ phase' = "waiting"
    /\ UNCHANGED <<graph, handles, loops, blobs, cursor, pool, run>>

--------------------------------------------------------------------------------
(* Cells of memory: an area of the pool, or (negative) a tensor's own, and a place in it. *)

Accessible(n) == IF parent[n] \in ConstHandles THEN parent[n] \in Allocated
                 ELSE acquired /\ parent[n] \in DOMAIN mappings

Home(n) == IF parent[n] \in ConstHandles THEN <<-parent[n], 0>> ELSE mappings[parent[n]]

Cells(n) == {<<Home(n)[1], Home(n)[2] + depth[n] + i>> : i \in 0 .. net[n].size - 1}

\* The nodes in ns write their values.
Written(ns) ==
    LET cells == UNION {Cells(n) : n \in ns}
    IN  [c \in cells \cup DOMAIN memory |->
           IF c \in cells THEN <<CHOOSE n \in ns : c \in Cells(n), frame'>> ELSE memory[c]]

--------------------------------------------------------------------------------
(* Behaviour: the frames *)

\* A frame's inputs are received.
ReceiveInputs ==
    /\ phase = "waiting"
    /\ frame' = 1 - frame
    /\ memory' = Written({n \in OfKind("input") : Accessible(n)})
    /\ phase' = "received"
    /\ UNCHANGED <<graph, handles, loops, blobs, cursor, pool, acquired>>

\* MemoryGroup::acquire
AcquirePool ==
    /\ phase = "received"
    /\ acquired' = (DOMAIN mappings # {})
    /\ task' = 0
    /\ phase' = "running"
    /\ UNCHANGED <<graph, handles, stage, slot, blobs, cursor, pool, memory, frame>>

RunTask ==
    /\ phase = "running" /\ Remaining # {}
    /\ task' = Min(Remaining)
    /\ frame' = frame
    /\ memory' = Written({n \in {task'} : Accessible(n)})
    /\ UNCHANGED <<graph, handles, phase, stage, slot, blobs, cursor, pool, acquired>>

\* MemoryGroup::release
ReleasePool ==
    /\ phase = "running" /\ Remaining = {}
    /\ acquired' = FALSE
    /\ phase' = "sending"
    /\ UNCHANGED <<graph, handles, loops, blobs, cursor, pool, memory, frame>>

SendOutputs ==
    /\ phase = "sending"
    /\ phase' = "waiting"
    /\ UNCHANGED <<graph, handles, loops, blobs, cursor, pool, run>>

Mutate == LeaveConcat \/ JoinConcat \/ CountHandles
Configure == NextTask \/ NextStage \/ SkipHandle \/ AcquireHandle \/ ReleaseRead \/ ReleaseLast
Update == PlaceBlob \/ FinishUpdate
Frame == Populate \/ ReceiveInputs \/ AcquirePool \/ RunTask \/ ReleasePool \/ SendOutputs

Next == Mutate \/ Configure \/ Update \/ Frame

Spec == Init /\ [][Next]_vars

--------------------------------------------------------------------------------
(* Properties *)

IsBlob(b) == b.size \in Nat /\ b.bound \in SUBSET Nodes

\* Lifetimes and mappings are of handles of this graph, and lead to areas of the pool.
TypeOK ==
    /\ phase \in {"mutating", "lifetimes", "placing", "waiting", "received", "running", "sending"}
    /\ joined \subseteq OfKind("concat")
    /\ parent \in [Nodes -> Nodes] /\ depth \in [Nodes -> Nat]
    /\ task \in 0 .. Len(net) + 1
    /\ stage \in {"inputs", "output", "release", "done"} /\ slot \in Nat \ {0}
    /\ DOMAIN inFlight \subseteq Nodes /\ \A h \in DOMAIN inFlight : inFlight[h] \in Nat \ {0}
    /\ DOMAIN occupied = DOMAIN inFlight /\ \A h \in DOMAIN occupied : IsBlob(occupied[h])
    /\ free \in Seq([size : Nat, bound : SUBSET Nodes])
    /\ areas \in Seq(Nat) /\ owners \in Nat
    /\ DOMAIN mappings \subseteq Nodes
    /\ phase # "placing" => \A h \in DOMAIN mappings : mappings[h] \in (DOMAIN areas) \X Nat
    /\ acquired \in BOOLEAN /\ frame \in {0, 1}

\* The tensor of node n holds what its nodes computed from this frame: they or, where it was
\* put together in place, its parts, which fill it.
Holds(n) ==
    \E ns \in SUBSET (1 .. n) :
        /\ n \in ns
        /\ \A m \in ns \ joined :
             Accessible(m) /\ \A c \in Cells(m) : c \in DOMAIN memory /\ memory[c] = <<m, frame>>
        /\ \A m \in ns \cap joined : Ins(m) \subseteq ns /\ Cells(m) = UNION {Cells(i) : i \in Ins(m)}

\* While a task runs, and when it has written its output, its inputs hold what was computed
\* from this frame: packing tensors into one pool overwrites nothing that is still read.
InputsIntact == phase = "running" /\ task \in Tasks => \A i \in Ins(task) : Holds(i)

\* call_all_senders runs after the pool has been released.  What it sends is still there.
SentIntact == phase = "sending" => \A n \in Nodes : net[n].sent => Holds(n)

\* Every tensor lies within the area of the pool it is mapped to: the largest tensor of each
\* blob, and the gaps that alignment leaves, have been allowed for.
WithinPool ==
    phase # "placing" =>
        \A h \in DOMAIN mappings : mappings[h][2] + net[h].size <= areas[mappings[h][1]]

\* What the tasks write or read, except tensors with memory of their own.
Managed == {parent[n] : n \in Tasks \cup UNION {Ins(k) : k \in Tasks}} \ ConstHandles

\* When the pool is made no lifetime is open, as populate asserts, and every tensor that is
\* to be in it has a place.
AllFinalized ==
    phase \notin {"mutating", "lifetimes", "placing"} =>
        /\ DOMAIN inFlight = {} /\ DOMAIN occupied = {}
        /\ DOMAIN mappings = Managed

\* Handles in use at the k-th task, read off the graph.
LiveAt(k) ==
    {h \in Managed : \E first \in Tasks, last \in Tasks :
        first <= k /\ k <= last /\ parent[first] = h /\ \E i \in Ins(last) : parent[i] = h}

\* The blobs of the pool, those of the CPU in a single area.
NumBlobs == IF manager = "offsets" THEN owners ELSE Len(areas)

\* Blobs are reused as soon as they are free: there are no more of them than tensors in use
\* at the same time.
FewestBlobs ==
    phase = "waiting" /\ Managed # {} => \E k \in Tasks : NumBlobs <= Cardinality(LiveAt(k))
================================================================================
