------------------------------- MODULE CpuScheduler -------------------------------
(***************************************************************************)
(* The threads that execute the kernels of CPU graphs.  Each graph's own   *)
(* thread, pinned to a cluster, asks Scheduler::get for the scheduler of   *)
(* its cluster and schedules one kernel after the other.  A scheduler      *)
(* (CPPScheduler) spreads a kernel's workloads over its worker threads and *)
(* the thread that called it.                                              *)
(*                                                                         *)
(* The grain is that of the accesses to shared memory: each test or        *)
(* assignment of the static _scheduler_type, each atomic fetch_add of a    *)
(* ThreadFeeder, each critical section of a worker's mutex _m and each     *)
(* notify_one is a step.  Schedulers are set up before the graphs' threads *)
(* start, so the number of threads is fixed here.  Kernels do not throw:   *)
(* nothing catches an exception in a graph's thread, which would end the   *)
(* program.                                                                *)
(***************************************************************************)
EXTENDS KernelWindows

CONSTANTS
    Graphs,              \* graphs executed by a CPU cluster
    Own,                 \* graph -> the scheduler of the cluster its thread is pinned to
    NumThreads,          \* scheduler -> _num_threads
    Kernels,             \* the kernels that graphs schedule
    MaxKernels,          \* graph -> bound on the kernels it schedules
    None                 \* no graph

Types == {"CPP", "CPP2"}

ASSUME OwnAssumption == Own \in [Graphs -> Types]
ASSUME ThreadsAssumption == NumThreads \in [Types -> Nat \ {0}]
ASSUME KernelsAssumption ==
    \A k \in Kernels : /\ k.strategy \in Strategies /\ k.m \in Nat /\ k.n \in Nat \ {0}
                       /\ k.threshold \in Nat
                       /\ IF k.strategy = "all" THEN k.m > 0 ELSE k.n = 1
ASSUME BoundAssumption == MaxKernels \in [Graphs -> Nat]
ASSUME NoneAssumption == None \notin Graphs

\* Member t of a scheduler's _threads; its info.thread_id is always t.
Workers == UNION {{s} \X (0 .. NumThreads[s] - 2) : s \in Types}

ASSUME DisjointAssumption == Graphs \cap Workers = {}

VARIABLES
    schedulerType,       \* Scheduler::_scheduler_type
    owner,               \* scheduler -> the graph that holds _run_workloads_mutex
    pc,                  \* graph -> where its thread is
    sched,               \* graph -> the scheduler get returned
    scheduled,           \* graph -> number of kernels so far
    workloads,           \* graph -> the vector of workloads on its stack
    feeder,              \* graph -> _atomic_counter of the feeder on its stack
    thread,              \* graph -> the worker that its loops over _threads are at
    load,                \* graph or worker -> index of the workload it executes
    workerPc,            \* worker -> where its thread is
    job,                 \* worker -> the graph whose workloads and feeder it was given
    waitForWork,         \* worker -> _wait_for_work
    jobComplete,         \* worker -> _job_complete
    done                 \* history: graph -> iteration -> times it was executed

typeVars   == <<schedulerType, sched>>
graphVars  == <<scheduled, workloads>>
workerVars == <<workerPc, job, waitForWork, jobComplete>>
execVars   == <<feeder, load, done>>
vars == <<typeVars, graphVars, workerVars, execVars, owner, pc, thread>>

Goto(g, label) == pc' = [pc EXCEPT ![g] = label]
WorkerGoto(w, label) == workerPc' = [workerPc EXCEPT ![w] = label]

NumLoads(g) == Cardinality(DOMAIN workloads[g])

\* num_threads of run_workloads.
ThreadsUsed(g) == Least(NumThreads[sched[g]], NumLoads(g))

\* The worker a graph's thread is at.
At(g) == <<sched[g], thread[g]>>

\* A worker holds _m from where it takes its work to where it has completed it.
Locked(w) == workerPc[w] \in {"run", "finish"}

--------------------------------------------------------------------------------
(* Scheduler::get *)

\* A task of the graph begins to schedule a kernel.
Call(g) ==
    /\ pc[g] = "idle"
    /\ scheduled[g] < MaxKernels[g]
    /\ scheduled' = [scheduled EXCEPT ![g] = @ + 1]
    /\ Goto(g, "test")
    /\ UNCHANGED <<typeVars, workloads, workerVars, execVars, owner, thread>>

\* sched_getcpu tells the cluster, for the thread stays on it.
TestType(g) ==
    /\ pc[g] = "test"
    /\ Goto(g, IF schedulerType = Own[g] THEN "find" ELSE "set")
    /\ UNCHANGED <<typeVars, graphVars, workerVars, execVars, owner, thread>>

SetType(g) ==
    /\ pc[g] = "set"
    /\ schedulerType' = Own[g]
    /\ Goto(g, "find")
    /\ UNCHANGED <<sched, graphVars, workerVars, execVars, owner, thread>>

Find(g) ==
    /\ pc[g] = "find"
    /\ sched' = [sched EXCEPT ![g] = schedulerType]
    /\ Goto(g, "schedule")
    /\ UNCHANGED <<schedulerType, graphVars, workerVars, execVars, owner, thread>>

--------------------------------------------------------------------------------
(* schedule_common and run_workloads, in the graph's thread *)

\* A kernel without iterations is done with at once.
ScheduleCommon(g) ==
    /\ pc[g] = "schedule"
    /\ \E k \in Kernels :
         IF k.m = 0 THEN Goto(g, "idle") /\ UNCHANGED <<workloads, done>>
         ELSE /\ done' = [done EXCEPT ![g] = [i \in Iterations(k) |-> 0]]
              /\ IF RunsAlone(k, NumThreads[sched[g]])
                   THEN Goto(g, "alone") /\ UNCHANGED workloads
                   ELSE /\ Goto(g, "lock")
                        /\ workloads' = [workloads EXCEPT
                                           ![g] = Workloads(k, NumThreads[sched[g]])]
    /\ UNCHANGED <<typeVars, scheduled, workerVars, feeder, load, owner, thread>>

RunAlone(g) ==
    /\ pc[g] = "alone"
    /\ done' = [done EXCEPT ![g] = [i \in DOMAIN @ |-> @[i] + 1]]
    /\ Goto(g, "return")
    /\ UNCHANGED <<typeVars, graphVars, workerVars, feeder, load, owner, thread>>

ReturnAlone(g) ==
    /\ pc[g] = "return"
    /\ Goto(g, "idle")
    /\ UNCHANGED <<typeVars, graphVars, workerVars, execVars, owner, thread>>

\* To the next worker to be started, or to the workload of the graph's own thread.
StartFrom(g, t) ==
    /\ thread' = [thread EXCEPT ![g] = t]
    /\ IF t < ThreadsUsed(g) - 1
         THEN Goto(g, "assign") /\ UNCHANGED load
         ELSE Goto(g, "run") /\ load' = [load EXCEPT ![g] = ThreadsUsed(g) - 1]

\* Mutant of Lock: the scheduler is not locked.
LockShared(g) ==
    /\ pc[g] = "lock"
    /\ owner' = [owner EXCEPT ![sched[g]] = g]
    /\ feeder' = [feeder EXCEPT ![g] = ThreadsUsed(g)]
    /\ StartFrom(g, 0)
    /\ UNCHANGED <<typeVars, graphVars, workerVars, done>>

\* _run_workloads_mutex is taken; the first workloads go one to each thread, the feeder
\* hands out the rest.
Lock(g) ==
    /\ pc[g] = "lock"
    /\ owner[sched[g]] = None
    /\ owner' = [owner EXCEPT ![sched[g]] = g]
    /\ feeder' = [feeder EXCEPT ![g] = ThreadsUsed(g)]
    /\ StartFrom(g, 0)
    /\ UNCHANGED <<typeVars, graphVars, workerVars, done>>

\* Thread::start assigns _workloads, _feeder and _info before it locks _m ...
Assign(g) ==
    /\ pc[g] = "assign"
    /\ job' = [job EXCEPT ![At(g)] = g]
    /\ Goto(g, "flag")
    /\ UNCHANGED <<typeVars, graphVars, workerPc, waitForWork, jobComplete, execVars,
                   owner, thread>>

\* ... sets the flags under _m ...
Flag(g) ==
    /\ pc[g] = "flag"
    /\ ~Locked(At(g))
    /\ waitForWork' = [waitForWork EXCEPT ![At(g)] = TRUE]
    /\ jobComplete' = [jobComplete EXCEPT ![At(g)] = FALSE]
    /\ Goto(g, "notify")
    /\ UNCHANGED <<typeVars, graphVars, workerPc, job, execVars, owner, thread>>

\* ... and notifies one of those that sleep on _cv, which serves the worker and whoever
\* waits for it.
NotifyWorker(g) ==
    /\ pc[g] = "notify"
    /\ workerPc' = [workerPc EXCEPT ![At(g)] = IF @ = "asleep" THEN "loop" ELSE @]
    /\ StartFrom(g, thread[g] + 1)
    /\ UNCHANGED <<typeVars, graphVars, job, waitForWork, jobComplete, feeder, done, owner>>

\* The execution of workload i of graph g.
Executed(g, i) ==
    [done EXCEPT ![g] = [j \in DOMAIN @ |-> IF j \in workloads[g][i] THEN @[j] + 1 ELSE @[j]]]

\* Mutant of Feeds: one past the end.
FeedsPastEnd(g) == feeder[g] <= NumLoads(g)

\* get_next: the counter moves on in any case.
Feeds(g) == feeder[g] < NumLoads(g)

\* process_workloads in the graph's thread.
Run(g) ==
    /\ pc[g] = "run"
    /\ done' = Executed(g, load[g])
    /\ feeder' = [feeder EXCEPT ![g] = @ + 1]
    /\ IF Feeds(g)
         THEN load' = [load EXCEPT ![g] = feeder[g]] /\ UNCHANGED <<pc, thread>>
         ELSE Goto(g, "wait") /\ thread' = [thread EXCEPT ![g] = 0] /\ UNCHANGED load
    /\ UNCHANGED <<typeVars, graphVars, workerVars, owner>>

\* Thread::wait for each of _threads, also for those that were not started.
Wait(g) ==
    /\ pc[g] = "wait"
    /\ At(g) \in Workers
    /\ ~Locked(At(g))
    /\ IF jobComplete[At(g)]
         THEN thread' = [thread EXCEPT ![g] = @ + 1] /\ UNCHANGED pc
         ELSE Goto(g, "asleep") /\ UNCHANGED thread
    /\ UNCHANGED <<typeVars, graphVars, workerVars, execVars, owner>>

\* run_workloads returns: _run_workloads_mutex is released, the feeder and the workloads on
\* the stack are gone.
Return(g) ==
    /\ pc[g] = "wait"
    /\ At(g) \notin Workers
    /\ owner' = [owner EXCEPT ![sched[g]] = None]
    /\ workloads' = [workloads EXCEPT ![g] = <<>>]
    /\ feeder' = [feeder EXCEPT ![g] = 0]
    /\ load' = [load EXCEPT ![g] = 0]
    /\ thread' = [thread EXCEPT ![g] = 0]
    /\ Goto(g, "idle")
    /\ UNCHANGED <<typeVars, scheduled, workerVars, done>>

--------------------------------------------------------------------------------
(* worker_thread *)

Take(w) ==
    /\ workerPc[w] = "loop"
    /\ IF waitForWork[w]
         THEN /\ waitForWork' = [waitForWork EXCEPT ![w] = FALSE]
              /\ load' = [load EXCEPT ![w] = w[2]]
              /\ WorkerGoto(w, "run")
         ELSE WorkerGoto(w, "asleep") /\ UNCHANGED <<waitForWork, load>>
    /\ UNCHANGED <<typeVars, graphVars, job, jobComplete, feeder, done, owner, pc, thread>>

\* process_workloads in the worker.
Work(w) ==
    LET g == job[w] IN
    /\ workerPc[w] = "run"
    /\ done' = Executed(g, load[w])
    /\ feeder' = [feeder EXCEPT ![g] = @ + 1]
    /\ IF Feeds(g)
         THEN load' = [load EXCEPT ![w] = feeder[g]] /\ UNCHANGED workerPc
         ELSE WorkerGoto(w, "finish") /\ UNCHANGED load
    /\ UNCHANGED <<typeVars, graphVars, job, waitForWork, jobComplete, owner, pc, thread>>

Finish(w) ==
    /\ workerPc[w] = "finish"
    /\ jobComplete' = [jobComplete EXCEPT ![w] = TRUE]
    /\ WorkerGoto(w, "notify")
    /\ UNCHANGED <<typeVars, graphVars, job, waitForWork, execVars, owner, pc, thread>>

Sleepers(w) == {g \in Graphs : pc[g] = "asleep" /\ At(g) = w}

\* Mutant of NotifyGraph: nobody is notified.
NotifyNobody(w) ==
    /\ workerPc[w] = "notify"
    /\ WorkerGoto(w, "loop")
    /\ UNCHANGED <<typeVars, graphVars, job, waitForWork, jobComplete, execVars, owner,
                   pc, thread>>

NotifyGraph(w) ==
    /\ workerPc[w] = "notify"
    /\ IF Sleepers(w) = {} THEN UNCHANGED pc ELSE \E g \in Sleepers(w) : Goto(g, "wait")
    /\ WorkerGoto(w, "loop")
    /\ UNCHANGED <<typeVars, graphVars, job, waitForWork, jobComplete, execVars, owner, thread>>

--------------------------------------------------------------------------------

Init ==
    /\ schedulerType = "CPP"
    /\ owner = [s \in Types |-> None]
    /\ pc = [g \in Graphs |-> "idle"]
    /\ sched = Own
    /\ scheduled = [g \in Graphs |-> 0]
    /\ workloads = [g \in Graphs |-> <<>>]
    /\ feeder = [g \in Graphs |-> 0]
    /\ thread = [g \in Graphs |-> 0]
    /\ load = [x \in Graphs \cup Workers |-> 0]
    /\ workerPc = [w \in Workers |-> "loop"]
    /\ job = [w \in Workers |-> None]
    /\ waitForWork = [w \in Workers |-> FALSE]
    /\ jobComplete = [w \in Workers |-> TRUE]
    /\ done = [g \in Graphs |-> [i \in {} |-> 0]]

Get(g) == Call(g) \/ TestType(g) \/ SetType(g) \/ Find(g)

Schedule(g) ==
    \/ ScheduleCommon(g) \/ RunAlone(g) \/ ReturnAlone(g)
    \/ Lock(g) \/ Assign(g) \/ Flag(g) \/ NotifyWorker(g) \/ Run(g) \/ Wait(g) \/ Return(g)

\* cv.wait may return for no reason, but for its condition.
SpuriousWakeup ==
    \/ \E g \in Graphs :
          /\ pc[g] = "asleep"
          /\ Goto(g, "wait")
          /\ UNCHANGED <<typeVars, graphVars, workerVars, execVars, owner, thread>>
    \/ \E w \in Workers :
          /\ workerPc[w] = "asleep"
          /\ WorkerGoto(w, "loop")
          /\ UNCHANGED <<typeVars, graphVars, job, waitForWork, jobComplete, execVars,
                         owner, pc, thread>>

WorkerThread(w) == Take(w) \/ Work(w) \/ Finish(w) \/ NotifyGraph(w)

Next ==
    \/ \E g \in Graphs : Get(g) \/ Schedule(g)
    \/ \E w \in Workers : WorkerThread(w)
    \/ SpuriousWakeup

\* Threads of the operating system are scheduled in the end.  A mutex is not fair, but a
\* graph comes back for it finitely often here, so weak fairness of Lock is enough.
Fairness ==
    /\ \A g \in Graphs : WF_vars(Get(g)) /\ WF_vars(Schedule(g))
    /\ \A w \in Workers : WF_vars(WorkerThread(w))

Spec == Init /\ [][Next]_vars /\ Fairness

--------------------------------------------------------------------------------
(* Properties *)

TypeOK ==
    /\ schedulerType \in Types
    /\ owner \in [Types -> Graphs \cup {None}]
    /\ sched \in [Graphs -> Types]
    /\ scheduled \in [Graphs -> Nat]
    /\ feeder \in [Graphs -> Nat]
    /\ thread \in [Graphs -> Nat]
    /\ pc \in [Graphs -> {"idle", "test", "set", "find", "schedule", "alone", "return", "lock",
                          "assign", "flag", "notify", "run", "wait", "asleep"}]
    /\ workerPc \in [Workers -> {"loop", "asleep", "run", "finish", "notify"}]
    /\ job \in [Workers -> Graphs \cup {None}]
    /\ waitForWork \in [Workers -> BOOLEAN]
    /\ jobComplete \in [Workers -> BOOLEAN]
    /\ \A g \in Graphs : pc[g] = "run" => load[g] \in DOMAIN workloads[g]
    /\ \A w \in Workers : workerPc[w] = "run" => load[w] \in DOMAIN workloads[job[w]]
    /\ \A g \in Graphs : pc[g] \in {"assign", "flag", "notify", "asleep"} => At(g) \in Workers

\* start assigns the pointers to workloads and feeder without the mutex under which the
\* worker reads them: whenever it does, the worker is done with its last job and cannot
\* take another one, so that only one thread is at those pointers.
UnlockedAssignAlone ==
    \A g \in Graphs : pc[g] = "assign" =>
        ~Locked(At(g)) /\ ~waitForWork[At(g)] /\ jobComplete[At(g)]

\* The parallel loop the graphs rely on: when a kernel is done with, each of its iterations
\* was executed exactly once, and no worker touches it or the workloads and the feeder on
\* the stack of its graph any more; whichever scheduler get returned.
Promise == INSTANCE ParallelFor WITH
    busy <- {g \in Graphs : pc[g] \notin {"idle", "test", "set", "find", "schedule"}},
    Spaces <- {Iterations(k) : k \in Kernels}

ParallelForSpec == Promise!Spec

\* Every kernel that is scheduled is done with in the end: no notification is lost on the
\* condition variable that the worker and its scheduler share, and two graphs that were
\* given one scheduler do not block each other.
KernelsReturn == \A g \in Graphs : pc[g] = "test" ~> pc[g] = "idle"

\* "Private buffers.  Treat working_space as an array of C buffers (one per thread)": an
\* assembly kernel's buffers are allocated for the threads of the scheduler that get
\* returned when its graph was set up, and each thread uses the one of its number.
PrivateBuffers ==
    /\ \A g \in Graphs : pc[g] = "run" => ThreadsUsed(g) <= NumThreads[Own[g]]
    /\ \A w \in Workers : workerPc[w] = "run" => w[2] < NumThreads[Own[job[w]]]
==================================================================================
