------------------------- MODULE ClusterCoordinator -------------------------
(***************************************************************************)
(* run_cluster (ClusterRuntime/src/runtime.rs): a coordinator runs the     *)
(* tasks of a plan one logical step at a time on worker processes, commits *)
(* their results, and evaluates the run.  The coordinator is one thread;   *)
(* the child processes run beside it and may finish in any order, fail, or *)
(* never finish.  In the other modes it executes the tasks itself.         *)
(*                                                                         *)
(* Abstracted: task ids are numbers in the planner's order; registration,  *)
(* heartbeat and shutdown messages, checksums and sizes; a bundle with a   *)
(* final state and knowledge, so that evaluate depends on the tasks alone. *)
(***************************************************************************)
EXTENDS Naturals, Sequences, FiniteSets

CONSTANTS
  NumTasks,        \* selected steps of the execution plan
  NumWorkers,      \* configured workers, at least one
  MaxRetries,      \* config.execution.max_retries takes the values 0..MaxRetries
  MaxSteps         \* config.limits.max_logical_steps takes the values 1..MaxSteps

ASSUME CountsAreNatural ==
  /\ NumTasks \in Nat \ {0}
  /\ NumWorkers \in Nat \ {0}
  /\ MaxRetries \in Nat
  /\ MaxSteps \in Nat \ {0}

Task == 1..NumTasks
Worker == 0..(NumWorkers - 1)
NoTask == 0

TaskStatus == {"pending", "ready", "assigned", "running", "completed", "failed"}

\* A child is "starting" until it has its whole request, and "refused" when it
\* ended before that.
ChildStatus == {"none", "starting", "refused", "running", "exited", "broken", "killed"}

VARIABLES
  deps,          \* ReasonTask.dependency_ids: the producers of the inputs
  config,        \* mode, fail_task_once, max_retries, sync_policy, max_logical_steps
  phase,         \* where run_cluster is
  step,          \* the logical step being run
  executable,    \* <<task, worker>> pairs dispatched in this step
  children,      \* the worker process of each task
  results,       \* tasks whose child's output has been read, in that order
  task_states, worker_states, completed, log,
  retries, state_version, snapshots, diagnostics, status

vars == <<deps, config, phase, step, executable, children, results, task_states,
          worker_states, completed, log, retries, state_version, snapshots,
          diagnostics, status>>

\* A task's inputs are produced by steps before it in the plan.
Plans == {d \in [Task -> SUBSET Task] : \A t \in Task : d[t] \subseteq 1..(t - 1)}

\* processes: mode is local_process, and there are workers to do without the
\* single-node fallback.
Configs == [processes : BOOLEAN, fail_task_once : Task \cup {NoTask}, max_retries : 0..MaxRetries,
            barrier : BOOLEAN, max_logical_steps : 1..MaxSteps]

Init ==
  /\ deps \in Plans
  /\ config \in Configs
  /\ phase = "dispatch"
  /\ step = 0
  /\ executable = <<>>
  /\ children = [t \in Task |-> "none"]
  /\ results = <<>>
  /\ task_states = [t \in Task |-> "pending"]
  /\ worker_states = [w \in Worker |-> [status |-> "ready", completed_tasks |-> {}]]
  /\ completed = <<>>
  /\ log = <<>>
  /\ retries = 0
  /\ state_version = 0
  /\ snapshots = <<>>
  /\ diagnostics = {}
  /\ status = "running"

-----------------------------------------------------------------------------
(* Slips: what a plausible error in the code would compute instead.           *)

\* assign_depths looks at the first dependency alone.
SlipLogicalStep ==
  LET depth[t \in Task] ==
        IF deps[t] = {} THEN 0
        ELSE 1 + depth[CHOOSE d \in deps[t] : \A e \in deps[t] : d <= e]
  IN depth

\* Results are taken as the children exit.
SlipAwaited(t) ==
  /\ \E i \in DOMAIN executable : executable[i][1] = t
  /\ \A i \in DOMAIN results : results[i] # t

\* The next worker is not taken modulo their number.
SlipNextWorker(w) == w + 1

\* Every result is reported as a first attempt.
SlipAttemptOf(t) == 1

\* A snapshot's pending list leaves out the tasks that were given up.
SlipUnfinished == {t \in Task : task_states[t] \notin {"completed", "failed"}}

\* The barrier releases before it waits.
SlipBarrierTypes == <<"barrier_release", "barrier_wait">>

\* The wait for a child has no timeout.
SlipTimedOut(t) == FALSE

\* A run completes unless its evaluation or its diagnostics object to the
\* tasks that were executed.
SlipRunCompletes == diagnostics \subseteq {"CRR-RUN-004"}

-----------------------------------------------------------------------------

Greatest(S) == CHOOSE n \in S : \A m \in S : m <= n

\* assign_depths: the longest chain of producers below a task.
LogicalStep ==
  LET depth[t \in Task] ==
        IF deps[t] = {} THEN 0 ELSE 1 + Greatest({depth[d] : d \in deps[t]})
  IN depth

TasksAt(s) == {t \in Task : LogicalStep[t] = s}
LastStep == CHOOSE n \in 0..NumTasks :
  /\ TasksAt(n) # {}
  /\ \A t \in Task : LogicalStep[t] <= n

Undispatched == {t \in TasksAt(step) : task_states[t] = "pending"}

Message(type, t, w, attempt) ==
  [type |-> type, task |-> t, worker |-> w, step |-> step, attempt |-> attempt]

Assignment(t, w, attempt) ==
  <<Message("task_assign", t, w, attempt), Message("task_start", t, w, attempt)>>

\* workers[(index + 1) % workers.len()]
NextWorker(w) == (w + 1) % NumWorkers

\* retries > max_retries, for the retries counted over the whole run.
GivesUp(n) == n > config.max_retries

\* One round of the dispatch loop: tasks in order, workers in turn; the task
\* fail_task_once names loses its first worker and is tried on the next one.
Dispatch ==
  /\ phase = "dispatch" /\ step < config.max_logical_steps
  /\ \E t \in Undispatched :
       LET index == Cardinality(TasksAt(step)) - Cardinality(Undispatched)
           w == index % NumWorkers
           lost == Append(Assignment(t, w, 1), Message("task_failure", t, w, 1))
       IN
       /\ \A u \in Undispatched : t <= u
       /\ \/ /\ config.fail_task_once # t
             /\ log' = log \o Assignment(t, w, 1)
             /\ executable' = Append(executable, <<t, w>>)
             /\ task_states' = [task_states EXCEPT ![t] = "running"]
             /\ UNCHANGED <<worker_states, retries, diagnostics>>
          \/ /\ config.fail_task_once = t
             /\ worker_states' = [worker_states EXCEPT
                  ![w] = [status |-> "unavailable", completed_tasks |-> {}]]
             /\ retries' = retries + 1
             /\ IF GivesUp(retries')
                THEN /\ log' = log \o lost
                     /\ task_states' = [task_states EXCEPT ![t] = "failed"]
                     /\ diagnostics' = diagnostics \cup {"CRR-RUN-004"}
                     /\ UNCHANGED executable
                ELSE /\ log' = log \o lost \o Assignment(t, NextWorker(w), 2)
                     /\ task_states' = [task_states EXCEPT ![t] = "running"]
                     /\ executable' = Append(executable, <<t, NextWorker(w)>>)
                     /\ UNCHANGED diagnostics
  /\ UNCHANGED <<deps, config, phase, step, children, results, completed,
                 state_version, snapshots, status>>

\* max_logical_steps ends the loop over the steps.
StepLimit ==
  /\ phase = "dispatch" /\ step >= config.max_logical_steps
  /\ diagnostics' = diagnostics \cup {"CRR-RUN-005"}
  /\ phase' = "evaluate"
  /\ UNCHANGED <<deps, config, step, executable, children, results, task_states,
                 worker_states, completed, log, retries, state_version,
                 snapshots, status>>

TasksIn(pairs) == {pairs[i][1] : i \in DOMAIN pairs}

\* Every task of the step is dispatched: the executable ones are to be run.
ReadyToRun == phase = "dispatch" /\ step < config.max_logical_steps /\ Undispatched = {}

\* execute_local_processes starts the children one after the other, and writes
\* each its request before it starts the next one.
Unstarted == {t \in TasksIn(executable) : children[t] = "none"}
Feeding == \E t \in Task : children[t] = "starting"
Refused == \E t \in Task : children[t] = "refused"

Spawn(t) ==
  /\ ReadyToRun /\ config.processes
  /\ ~Feeding /\ ~Refused
  /\ t \in Unstarted /\ \A u \in Unstarted : t <= u
  /\ children' = [children EXCEPT ![t] = "starting"]
  /\ UNCHANGED <<deps, config, phase, step, executable, results, task_states,
                 worker_states, completed, log, retries, state_version,
                 snapshots, diagnostics, status>>

\* A process cannot be started, or has closed its stdin: run_cluster returns
\* Err, and leaves the children it has alone.
SpawnFails ==
  /\ ReadyToRun /\ config.processes
  /\ ~Feeding
  /\ Unstarted # {} \/ Refused
  /\ phase' = "over"
  /\ status' = "error"
  /\ UNCHANGED <<deps, config, step, executable, children, results, task_states,
                 worker_states, completed, log, retries, state_version,
                 snapshots, diagnostics>>

AllSpawned ==
  /\ ReadyToRun
  /\ config.processes => Unstarted = {} /\ ~Feeding /\ ~Refused
  /\ phase' = "collect"
  /\ UNCHANGED <<deps, config, step, executable, children, results, task_states,
                 worker_states, completed, log, retries, state_version,
                 snapshots, diagnostics, status>>

\* The pipe takes a request that is larger than it is only as the child reads
\* it; a child can also end first.  Until then write_all does not return.
ChildReads(t) ==
  /\ children[t] = "starting"
  /\ \E how \in {"running", "refused"} : children' = [children EXCEPT ![t] = how]
  /\ UNCHANGED <<deps, config, phase, step, executable, results, task_states,
                 worker_states, completed, log, retries, state_version,
                 snapshots, diagnostics, status>>

\* A worker process ends, with its result on stdout or without.
ChildEnds(t) ==
  /\ children[t] = "running"
  /\ \E how \in {"exited", "broken"} : children' = [children EXCEPT ![t] = how]
  /\ UNCHANGED <<deps, config, phase, step, executable, results, task_states,
                 worker_states, completed, log, retries, state_version,
                 snapshots, diagnostics, status>>

\* The coordinator waits for the children in the order it started them.
Awaited(t) ==
  Len(results) < Len(executable) /\ t = executable[Len(results) + 1][1]

Collect(t) ==
  /\ phase = "collect"
  /\ Awaited(t)
  /\ children[t] = "exited"
  /\ results' = Append(results, t)
  /\ UNCHANGED <<deps, config, phase, step, executable, children, task_states,
                 worker_states, completed, log, retries, state_version,
                 snapshots, diagnostics, status>>

\* Without processes worker::execute is called in the coordinator, task by task;
\* the runtime host it waits for has no timeout, and an error ends the run.
ExecuteHere(t) ==
  /\ phase = "collect" /\ ~config.processes
  /\ Awaited(t)
  /\ \/ results' = Append(results, t) /\ UNCHANGED <<phase, status>>
     \/ phase' = "over" /\ status' = "error" /\ UNCHANGED results
  /\ UNCHANGED <<deps, config, step, executable, children, task_states,
                 worker_states, completed, log, retries, state_version,
                 snapshots, diagnostics>>

TimedOut(t) == children[t] = "running"

\* run_cluster returns Err: for a child that failed, or for one that is killed
\* because it did not end within task_timeout_ms.  The others are left alone.
Abort(t) ==
  /\ phase = "collect"
  /\ Awaited(t)
  /\ \/ children[t] = "broken" /\ UNCHANGED children
     \/ TimedOut(t) /\ children' = [children EXCEPT ![t] = "killed"]
  /\ phase' = "over"
  /\ status' = "error"
  /\ UNCHANGED <<deps, config, step, executable, results, task_states,
                 worker_states, completed, log, retries, state_version,
                 snapshots, diagnostics>>

AllCollected ==
  /\ phase = "collect"
  /\ Len(results) = Len(executable)
  /\ phase' = "commit"
  /\ UNCHANGED <<deps, config, step, executable, children, results, task_states,
                 worker_states, completed, log, retries, state_version,
                 snapshots, diagnostics, status>>

Committed(t) == \E i \in DOMAIN completed : completed[i] = t

\* The attempt a result belongs to.
AttemptOf(t) == IF config.fail_task_once = t THEN 2 ELSE 1

\* The first result left is committed, once, and credited to its worker.
Commit ==
  /\ phase = "commit" /\ results # <<>>
  /\ LET t == Head(results)
         w == Head(executable)[2]
     IN
     /\ ~Committed(t)
     /\ log' = Append(log, Message("task_result", t, w, AttemptOf(t)))
     /\ completed' = Append(completed, t)
     /\ task_states' = [task_states EXCEPT ![t] = "completed"]
     /\ worker_states' = [worker_states EXCEPT ![w] =
          [status |-> "ready", completed_tasks |-> @.completed_tasks \cup {t}]]
  /\ results' = Tail(results)
  /\ executable' = Tail(executable)
  /\ UNCHANGED <<deps, config, phase, step, children, retries, state_version,
                 snapshots, diagnostics, status>>

\* The workers that returned a result in this step.
StepWorkers ==
  {log[i].worker : i \in {j \in DOMAIN log :
                            log[j].type = "task_result" /\ log[j].step = step}}

\* A BTreeSet is walked in ascending order.
Ascending(S) ==
  CHOOSE q \in [1..Cardinality(S) -> S] :
    \A i, j \in 1..Cardinality(S) : i < j => q[i] < q[j]

\* One message of a type for each of them.
ToStepWorkers(type) ==
  [k \in 1..Cardinality(StepWorkers) |->
     Message(type, NoTask, Ascending(StepWorkers)[k], 0)]

BarrierTypes == <<"barrier_wait", "barrier_release">>

Unfinished == {t \in Task : task_states[t] # "completed"}

Snapshot ==
  [step |-> step, version |-> state_version + 1, workers |-> worker_states,
   completed |-> {completed[i] : i \in DOMAIN completed}, pending |-> Unfinished]

\* The end of a logical step: the barrier, and the snapshot, unless it is too big.
EndStep ==
  /\ phase = "commit" /\ results = <<>>
  /\ log' = IF config.barrier
            THEN log \o ToStepWorkers(BarrierTypes[1]) \o ToStepWorkers(BarrierTypes[2])
            ELSE log
  /\ state_version' = state_version + 1
  /\ \/ /\ snapshots' = Append(snapshots, Snapshot)
        /\ IF step = LastStep
           THEN phase' = "evaluate" /\ UNCHANGED step
           ELSE phase' = "dispatch" /\ step' = step + 1
        /\ UNCHANGED diagnostics
     \/ /\ diagnostics' = diagnostics \cup {"CRR-STA-005"}
        /\ phase' = "evaluate"
        /\ UNCHANGED <<step, snapshots>>
  /\ UNCHANGED <<deps, config, executable, children, results, task_states,
                 worker_states, completed, retries, status>>

\* evaluate: every task is done, and no done task lacks a dependency.
EvaluationPasses ==
  /\ \A t \in Task : Committed(t)
  /\ \A t \in Task : Committed(t) => \A d \in deps[t] : Committed(d)

RunCompletes ==
  /\ EvaluationPasses
  /\ diagnostics = {}
  /\ Len(completed) = NumTasks     \* else CRR-RUN-008

Evaluate ==
  /\ phase = "evaluate"
  /\ phase' = "over"
  /\ status' = IF RunCompletes THEN "completed" ELSE "failed"
  /\ diagnostics' = IF Len(completed) = NumTasks THEN diagnostics
                    ELSE diagnostics \cup {"CRR-RUN-008"}
  /\ UNCHANGED <<deps, config, step, executable, children, results, task_states,
                 worker_states, completed, log, retries, state_version, snapshots>>

Coordinator ==
  \/ Dispatch \/ StepLimit \/ SpawnFails \/ AllSpawned
  \/ \E t \in Task : Spawn(t) \/ Collect(t) \/ Abort(t)
  \/ AllCollected \/ Commit \/ EndStep \/ Evaluate

Next == Coordinator \/ \E t \in Task : ChildReads(t) \/ ChildEnds(t) \/ ExecuteHere(t)

\* The coordinator thread keeps running.  Nothing is assumed of what it waits
\* for: a child need not read or end, a runtime host need not answer.
Spec == Init /\ [][Next]_vars /\ WF_vars(Coordinator)

-----------------------------------------------------------------------------
(* Properties.                                                                *)

MessageTypes == {"task_assign", "task_start", "task_failure", "task_result",
                 "barrier_wait", "barrier_release"}

\* Dispatched pairs and messages name tasks and workers of this run, and the
\* counters keep their meaning: versions count the steps ended, and results
\* are read only for what was dispatched.
TypeOK ==
  /\ deps \in Plans /\ config \in Configs
  /\ phase \in {"dispatch", "collect", "commit", "evaluate", "over"}
  /\ step \in 0..(NumTasks - 1)
  /\ executable \in Seq(Task \X Worker)
  /\ children \in [Task -> ChildStatus]
  /\ results \in Seq(Task) /\ Len(results) <= Len(executable)
  /\ task_states \in [Task -> TaskStatus]
  /\ worker_states \in [Worker ->
       [status : {"ready", "unavailable"}, completed_tasks : SUBSET Task]]
  /\ completed \in Seq(Task)
  /\ log \in Seq([type : MessageTypes, task : Task \cup {NoTask}, worker : Worker,
                  step : Nat, attempt : 0..2])
  /\ retries \in 0..1
  /\ state_version \in Len(snapshots)..(Len(snapshots) + 1)
  /\ diagnostics \subseteq {"CRR-RUN-004", "CRR-RUN-005", "CRR-RUN-008", "CRR-STA-005"}
  /\ status \in {"running", "completed", "failed", "error"}

Sent(i, type) == i \in DOMAIN log /\ log[i].type = type

\* A task starts only after the results of the tasks that produce its inputs
\* were committed, with one exception the code allows: a producer that was
\* given up. Then its dependents run all the same and evaluate fails the run.
StartsFollowResults ==
  \A i \in DOMAIN log : Sent(i, "task_start") =>
    \A d \in deps[log[i].task] :
      \/ \E j \in 1..(i - 1) : Sent(j, "task_result") /\ log[j].task = d
      \/ task_states[d] = "failed"

\* At most one result per task, for the attempt that was started last and from
\* the worker it was started on: a lost first attempt never answers.
ResultsMatchAttempts ==
  \A i \in DOMAIN log : Sent(i, "task_result") =>
    /\ \A j \in DOMAIN log :
         Sent(j, "task_result") /\ log[j].task = log[i].task => i = j
    /\ \E j \in 1..(i - 1) :
         /\ Sent(j, "task_start")
         /\ log[j] = [log[i] EXCEPT !.type = "task_start"]
         /\ \A k \in (j + 1)..Len(log) :
              Sent(k, "task_start") => log[k].task # log[i].task

\* Every snapshot splits the tasks into completed and pending, without overlap
\* and without loss, and versions and completed tasks only grow, so that the
\* state history can be replayed.
SnapshotsAccount ==
  \A i \in DOMAIN snapshots :
    /\ snapshots[i].version = i
    /\ snapshots[i].completed \cup snapshots[i].pending = Task
    /\ snapshots[i].completed \cap snapshots[i].pending = {}
    /\ i > 1 => snapshots[i - 1].completed \subseteq snapshots[i].completed
    /\ \A t \in snapshots[i].completed : LogicalStep[t] <= snapshots[i].step

\* A run reported as completed has committed every task, once each, also those
\* whose first attempt was lost: no task is left in another state, and the last
\* snapshot has nothing pending.  Of the workers it says nothing: the one that
\* lost a task may still be unavailable.
CompletedMeansEverything ==
  status = "completed" =>
    /\ \A t \in Task : task_states[t] = "completed" /\ Committed(t)
    /\ Len(completed) = NumTasks
    /\ snapshots[Len(snapshots)].pending = {}

\* With the barrier policy nobody is released before every worker of the step
\* has reported, and no task of a later step starts before the release.
BarrierSeparatesSteps ==
  config.barrier => \A i \in DOMAIN log : \A j \in DOMAIN log :
    /\ Sent(i, "barrier_release") /\ Sent(j, "barrier_wait")
         /\ log[i].step = log[j].step => j < i
    /\ Sent(i, "barrier_release") /\ Sent(j, "task_start")
         /\ log[i].step < log[j].step => i < j
    /\ Sent(i, "task_result") /\ Sent(j, "task_start") /\ log[i].step < log[j].step =>
         \E k \in (i + 1)..(j - 1) :
           Sent(k, "barrier_release") /\ log[k].worker = log[i].worker

\* Results are committed by logical step and task id, in whatever order the
\* worker processes exit: the artifacts of a run do not depend on the schedule.
CommitOrderIsCanonical ==
  \A i, j \in DOMAIN completed : i < j =>
    \/ LogicalStep[completed[i]] < LogicalStep[completed[j]]
    \/ /\ LogicalStep[completed[i]] = LogicalStep[completed[j]]
       /\ completed[i] < completed[j]

\* The two places where the coordinator waits without a timeout: for a child to
\* take its request, and for a task it executes itself.
UntimedWait ==
  \/ ReadyToRun /\ Feeding
  \/ phase = "collect" /\ ~config.processes /\ Len(results) < Len(executable)

\* A run ends, also when a worker process hangs or answers too late: nothing
\* holds it up for ever but one of the two waits without a timeout.
RunEnds == <>(status # "running") \/ <>[]UntimedWait
=============================================================================
