-------------------------------- MODULE Governor --------------------------------
(***************************************************************************)
(* Frequencies and power pin of a network in switching mode.  At a prompt  *)
(* the user enters frequencies; set_freqs chooses the tasks that govern    *)
(* (change the frequencies when they end) and hands each the levels of     *)
(* what comes after it; set_GPIO_tasks chooses the tasks that move the     *)
(* pin a power meter watches; then a run executes the tasks of all the     *)
(* workloads one after the other, frame by frame.                          *)
(*                                                                         *)
(* Switching mode works on one frame at a time (SerialPipeline), so in a   *)
(* network that is a chain the tasks of all workloads are one sequence.    *)
(* A layer is two tasks here, the second of which is in the table of       *)
(* ending tasks; layers in a row on the NPU are one task.                  *)
(***************************************************************************)
EXTENDS Integers, Sequences, FiniteSets, AscendingSets

CONSTANTS
    Orders,              \* the mappings considered: sequences of letters, one per layer
    Networks,            \* the networks considered, see LayerTasks and Excluded
    PowerModes,          \* the values of power_profile_mode considered
    DetectionLayers,     \* layers of a detection network's heads (YOLOv3: 57, 58, 65, 66)
    GpuHost, NpuHost,    \* the cluster that serves the GPU, the NPU
    GpuInBrackets,       \* whether the user writes [GPU level, host level] for a GPU layer
    Levels,              \* levels the user enters
    HostLevel,           \* the host level of a bracket
    MaxGpu,              \* the highest GPU level
    Leftovers,           \* what the uninitialised prev_p may hold
    Warmup, Runs,        \* warmup_n, nn
    MaxRequests          \* network -> bound on the requests entered

Resources == {"L", "B", "G"}
Clusters == {"L", "B"}
Letters == Resources \cup {"N"}
AllLevels == Levels \cup {0, HostLevel}

ASSUME OrdersAssumption == \A o \in Orders : o \in Seq(Letters) /\ o # <<>>
ASSUME NetworksAssumption == Networks \subseteq {"plain", "trailing", "detection"}
ASSUME ModesAssumption == PowerModes \subseteq {"layers", "transfers", "whole"}
ASSUME HostsAssumption == GpuHost \in Clusters /\ NpuHost \in Clusters
ASSUME LevelsAssumption == MaxGpu \in Nat /\ AllLevels \subseteq 0 .. MaxGpu
ASSUME LeftoversAssumption == Leftovers \subseteq Letters \cup {"other"}
ASSUME RequestsAssumption == MaxRequests \in [Networks -> Nat]
ASSUME FramesAssumption == Warmup \in Nat /\ Runs \in Nat \ {0}

VARIABLES
    order, network, powerMode,     \* command line
    tasks,               \* the tasks of _workloads, one workload after the other
    governor,            \* the tasks with governor set
    freq,                \* task -> LittleFreq, bigFreq, GPUFreq
    startSwitch,         \* the tasks with starting_gpio_switch set
    endSwitch,           \* the tasks with ending_gpio_switch set
    registers,           \* the statics l, b, g of commit_freq
    pin,                 \* level of the GPIO pin
    falls,               \* history: falling edges of the pin in this frame
    request,             \* history: what the user entered last
    entered,             \* number of requests entered
    frame, cur,          \* frame of the run, task of the frame
    phase

config    == <<order, network, powerMode, tasks>>
taskState == <<governor, freq, startSwitch, endSwitch>>
vars == <<config, taskState, registers, pin, falls, request, entered, frame, cur, phase>>

--------------------------------------------------------------------------------
(* The workloads' tasks. *)

OpensGraph(o, l) == l = 1 \/ o[l] # o[l - 1]

\* Layer l of an NPU graph is in the graph's one task.  In a trailing network (ResNet) a
\* layer goes on after its ending task: "add" is in the table, "Relu" comes after it.
LayerTasks(o, net, l) ==
    IF o[l] = "N"
      THEN IF OpensGraph(o, l) THEN <<"npu">> ELSE <<>>
      ELSE IF net = "trailing" /\ l < Len(o) THEN <<"head", "tail", "after">> ELSE <<"head", "tail">>

\* Task k of layer l has the number 3 * l + k - 1 among the tasks that a network may have.
TaskNumbers(o, net) ==
    {n \in 3 .. 3 * Len(o) + 2 : n % 3 < Len(LayerTasks(o, net, n \div 3))}

WorkloadTasks(o, net) ==
    LET numbers == Ascending(TaskNumbers(o, net))
    IN  [t \in DOMAIN numbers |-> LET l == numbers[t] \div 3 IN
           [layer |-> l, letter |-> o[l], part |-> LayerTasks(o, net, l)[(numbers[t] % 3) + 1]]]

Tasks == DOMAIN tasks

\* Neighbouring graphs are on different processors.
FirstOfGraph(t) == t = 1 \/ tasks[t].letter # tasks[t - 1].letter
LastOfGraph(t) == t = Len(tasks) \/ tasks[t].letter # tasks[t + 1].letter
Graph(t) == Cardinality({s \in 1 .. t : FirstOfGraph(s)})

Ending(t) == tasks[t].part \in {"tail", "npu"}

\* Mutant of Starting: the task after an ending task does not start a layer.
StartingOnlyFirst(t) == FirstOfGraph(t)

Starting(t) == FirstOfGraph(t) \/ Ending(t - 1)

\* The layers named in not_starting, not_ending and not_governor.  An NPU graph is named
\* only if it has no other layer.
SideLayer(t) ==
    /\ network = "detection"
    /\ tasks[t].layer \in DetectionLayers
    /\ tasks[t].letter = "N" =>
         tasks[t].layer = Len(order) \/ OpensGraph(order, tasks[t].layer + 1)

--------------------------------------------------------------------------------
(* set_freqs *)

Forms == {"layers", "graphs", "all", "unparsable"}

GovernorTasks(form) ==
    CASE form = "layers" -> {t \in Tasks : Ending(t)}
      [] form = "graphs" -> {t \in Tasks : LastOfGraph(t)}
      [] OTHER           -> {Len(tasks)}

\* Mutant of Governing: the flags of earlier requests are kept in every mode.
GoverningAccumulates(form) ==
    (governor \cup GovernorTasks(form)) \ {t \in Tasks : SideLayer(t) /\ Ending(t)}

\* extract_governor_tasks: only the modes "graphs" and "PEs" clear the flags first.  The
\* side layers' ending tasks lose the flag, but stay in governor_tasks.
Governing(form) ==
    ((IF form = "layers" THEN governor ELSE {}) \cup GovernorTasks(form))
        \ {t \in Tasks : SideLayer(t) /\ Ending(t)}

\* removeConsecutiveDuplicates in mode "graphs".
LettersOf(form) ==
    IF form = "layers" THEN order
    ELSE LET opening == Ascending({l \in 1 .. Len(order) : OpensGraph(order, l)})
         IN  [i \in DOMAIN opening |-> order[opening[i]]]

\* The levels a task gets from one element of the request, which is for letter p: plain
\* numbers are read for L, B and N only.
Read(p, level) ==
    [r \in Resources |->
        IF p = "G"
          THEN CASE ~GpuInBrackets -> 0
                 [] r = "G"        -> level
                 [] r = GpuHost    -> HostLevel
                 [] OTHER          -> 0
          ELSE IF r = (IF p = "N" THEN NpuHost ELSE p) THEN level ELSE 0]

\* prev_p is uninitialised at the first element.
Skipped(letters, i, leftover) ==
    /\ letters[i] = "N"
    /\ (IF i = 1 THEN leftover ELSE letters[i - 1]) = "N"

\* The elements that get levels.
Kept(letters, levels, leftover) == {i \in 1 .. Len(levels) : ~Skipped(letters, i, leftover)}

\* Mutant of GovernorOf: an element goes to the task that ends its own layer.
GovernorOfOwn(governors, unit) == governors[(unit % Len(governors)) + 1]

\* The first unit's levels go to the last governor, which ends the frame before.
GovernorOf(governors, unit) == governors[((Len(governors) - 1 + unit) % Len(governors)) + 1]

\* set_freq_map: governor_freqs, as a function on the tasks that get an entry.
FreqMap(form, levels, leftover) ==
    LET letters == LettersOf(form)
        governors == Ascending(GovernorTasks(form))
        kept == Ascending(Kept(letters, levels, leftover))
        Unit(t) == CHOOSE u \in DOMAIN kept : GovernorOf(governors, u - 1) = t
    IN  [t \in {GovernorOf(governors, u - 1) : u \in DOMAIN kept} |->
            Read(letters[kept[Unit(t)]], levels[kept[Unit(t)]])]

GovernorFreqs(form, levels, leftover) ==
    IF form = "all" THEN [t \in {Len(tasks)} |-> [r \in Resources |-> levels[1]]]
    ELSE FreqMap(form, levels, leftover)

\* set_GPIO_tasks
SetSwitches ==
    IF powerMode = "whole"
      THEN startSwitch' = {1} /\ endSwitch' = {Len(tasks)}
      ELSE LET side == {t \in Tasks : SideLayer(t)} IN
           /\ startSwitch' = {t \in Tasks : Starting(t)} \ side
           /\ endSwitch' = {t \in Tasks : Ending(t)} \ side

\* Entering frequencies.  map::at throws when a governing task has no entry, and nothing
\* catches it.  An unparsable list of one element returns before any task is changed but
\* for its flag.
Enter(form, levels, leftover) ==
    LET map == GovernorFreqs(form, levels, leftover) IN
    /\ phase = "prompt"
    /\ entered < MaxRequests[network]
    /\ entered' = entered + 1
    /\ request' = [form |-> form, levels |-> levels]
    /\ governor' = Governing(form)
    /\ IF form # "unparsable" /\ ~(Governing(form) \subseteq DOMAIN map)
         THEN phase' = "terminated" /\ UNCHANGED <<freq, startSwitch, endSwitch>>
         ELSE /\ phase' = "between"
              /\ freq' = [t \in Tasks |-> IF form # "unparsable" /\ t \in Governing(form)
                                            THEN map[t] ELSE freq[t]]
              /\ SetSwitches
    /\ frame' = 1
    /\ UNCHANGED <<config, registers, pin, falls, cur>>

\* One element per layer or per graph, or fewer; or one level for everything ("min",
\* "max", three numbers).
EnterUnits(form) ==
    \E n \in 1 .. Len(LettersOf(form)) :
        \E levels \in [1 .. n -> Levels], leftover \in Leftovers :
            Enter(form, levels, leftover)

EnterOne ==
    \/ \E level \in Levels \cup {0} : Enter("all", <<level>>, "other")
    \/ Enter("unparsable", <<>>, "other")

--------------------------------------------------------------------------------
(* do_run *)

\* The first graph takes a frame.
BeginFrame ==
    /\ phase = "between"
    /\ pin' = 1
    /\ falls' = 0
    /\ cur' = 1
    /\ phase' = "ready"
    /\ UNCHANGED <<config, taskState, registers, request, entered, frame>>

StartTask ==
    /\ phase = "ready"
    /\ phase' = "running"
    /\ IF cur \in startSwitch
         THEN pin' = 0 /\ falls' = falls + pin
         ELSE UNCHANGED <<pin, falls>>
    /\ UNCHANGED <<config, taskState, registers, request, entered, frame, cur>>

\* Mutant of Committed: levels that were never set are written as well.
CommittedRaw(f) == [f EXCEPT !["G"] = MaxGpu - @]

\* commit_freq: a level of -1 keeps the static.  The kernel counts GPU levels from the
\* highest down, and the static keeps the level so counted.
Committed(f) ==
    LET kept == [r \in Resources |-> IF f[r] > -1 THEN f[r] ELSE registers[r]]
    IN  [kept EXCEPT !["G"] = MaxGpu - @]

FinishTask ==
    /\ phase = "running"
    /\ registers' = IF cur \in governor THEN Committed(freq[cur]) ELSE registers
    /\ pin' = IF cur \in endSwitch THEN 1 ELSE pin
    /\ IF cur < Len(tasks) THEN cur' = cur + 1 /\ phase' = "ready"
                           ELSE phase' = "frameDone" /\ UNCHANGED cur
    /\ UNCHANGED <<config, taskState, falls, request, entered, frame>>

\* The last graph lets the first go on, or its loop ends and it clears the pin.
FinishFrame ==
    /\ phase = "frameDone"
    /\ IF frame < Warmup + Runs
         THEN frame' = frame + 1 /\ phase' = "between" /\ UNCHANGED pin
         ELSE phase' = "prompt" /\ pin' = 0 /\ UNCHANGED frame
    /\ UNCHANGED <<config, taskState, registers, falls, request, entered, cur>>

--------------------------------------------------------------------------------

Init ==
    /\ order \in Orders
    /\ network \in Networks
    /\ powerMode \in PowerModes
    /\ tasks = WorkloadTasks(order, network)
    /\ governor = {}
    /\ freq = [t \in Tasks |-> [r \in Resources |-> -1]]
    /\ startSwitch = {}
    /\ endSwitch = {}
    /\ registers = [r \in Resources |-> 0]
    /\ pin = 0
    /\ falls = 0
    /\ request = [form |-> "unparsable", levels |-> <<>>]
    /\ entered = 0
    /\ frame = 1
    /\ cur = 1
    /\ phase = "prompt"

Next ==
    \/ EnterUnits("layers") \/ EnterUnits("graphs") \/ EnterOne
    \/ BeginFrame \/ StartTask \/ FinishTask \/ FinishFrame

Spec == Init /\ [][Next]_vars

--------------------------------------------------------------------------------
(* Properties *)

TypeOK ==
    /\ governor \subseteq Tasks /\ startSwitch \subseteq Tasks /\ endSwitch \subseteq Tasks
    /\ freq \in [Tasks -> [Resources -> AllLevels \cup {-1}]]
    /\ registers \in [Resources -> 0 .. MaxGpu]
    /\ pin \in {0, 1}
    /\ falls \in 0 .. Len(tasks)
    /\ request.form \in Forms
    /\ entered \in 0 .. MaxRequests[network]
    /\ frame \in 1 .. Warmup + Runs
    /\ cur \in Tasks
    /\ phase \in {"prompt", "between", "ready", "running", "frameDone", "terminated"}

\* The level a resource works at.
InForce(r) == IF r = "G" THEN MaxGpu - registers["G"] ELSE registers[r]

\* The resources a task on letter p uses.
UsedBy(p) == CASE p \in Clusters -> {p}
               [] p = "N"        -> {NpuHost}
               [] p = "G"        -> {"G", GpuHost}

\* What the user means by the levels for such a task.
Meant(p, level) == [r \in UsedBy(p) |-> IF p = "G" /\ r = GpuHost THEN HostLevel ELSE level]

\* The element of the request that is for task t: an NPU graph's is that of its first layer.
Element(t) == IF request.form = "layers" THEN tasks[t].layer ELSE Graph(t)

\* An element for every layer or graph.
Complete ==
    CASE request.form = "all"        -> TRUE
      [] request.form = "unparsable" -> FALSE
      [] OTHER -> Len(request.levels) = Len(LettersOf(request.form))

Wanted(t) ==
    IF request.form = "all" THEN [r \in Resources |-> request.levels[1]]
    ELSE Meant(tasks[t].letter, request.levels[Element(t)])

\* Each task of a measured frame runs with the resources it uses at the levels the user
\* gave for its layer or graph, although every change of levels is made by an earlier
\* task, for the first layer by the last task of the frame before.  Not so in a
\* trailing network, which goes on after the task that ends a layer, and in a detection
\* network, whose side layers do not govern.
AtRequestedLevels ==
    network = "plain" /\ phase = "running" /\ frame > Warmup /\ Complete =>
        \A r \in DOMAIN Wanted(cur) : InForce(r) = Wanted(cur)[r]

\* Only a request with too few elements ends the program: the flags earlier requests
\* leave behind never leave a governing task without levels.
CompleteRequestsRun == Complete => phase # "terminated"

\* The power meter sees one phase per layer, each begun by a falling edge, or one per
\* frame in mode "whole"; the heads of a detection network belong to no phase.
PhasesPerFrame ==
    phase = "frameDone" =>
        falls = IF powerMode = "whole" THEN 1
                ELSE Cardinality({t \in Tasks : Ending(t) /\ ~SideLayer(t)})
================================================================================
