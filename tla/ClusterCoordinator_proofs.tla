---------------------- MODULE ClusterCoordinator_proofs ----------------------
(***************************************************************************)
(* Proofs about ClusterCoordinator, for any number of tasks and workers,   *)
(* any plan and any limits, whatever the worker processes do.              *)
(*                                                                         *)
(* The task states, the list of completed tasks, the results that wait and *)
(* the snapshots are four structures that run_cluster keeps beside one     *)
(* another.  Account ties them together, Order says in which order tasks   *)
(* pass from one to the next.                                              *)
(***************************************************************************)
EXTENDS ClusterCoordinator, FiniteSetTheorems, TLAPS

Phases == {"dispatch", "collect", "commit", "evaluate", "over"}

WorkerState == [status : {"ready", "unavailable"}, completed_tasks : SUBSET Task]

Snapshots == [step : Nat, version : Nat, workers : [Worker -> WorkerState],
              completed : SUBSET Task, pending : SUBSET Task]

Pair == Task \X Worker

Types ==
  /\ phase \in Phases /\ step \in Nat /\ state_version \in Nat
  /\ task_states \in [Task -> TaskStatus]
  /\ worker_states \in [Worker -> WorkerState]
  /\ completed \in Seq(Task) /\ results \in Seq(Task)
  /\ executable \in Seq(Pair)
  /\ snapshots \in Seq(Snapshots)

\* The results read so far are those of the first tasks dispatched.
Matched ==
  /\ Len(results) <= Len(executable)
  /\ phase = "commit" => Len(results) = Len(executable)
  /\ \A i \in DOMAIN results : results[i] = executable[i][1]

\* The tasks of completed are those whose state says so.
StatesAgree == \A t \in Task : Committed(t) <=> task_states[t] = "completed"

\* A run that reaches its evaluation without a diagnostic has just taken a
\* snapshot, and one reported as completed had nothing left to do.
Ending ==
  /\ phase = "evaluate" /\ diagnostics = {} =>
       Len(snapshots) >= 1 /\ snapshots[Len(snapshots)].pending = Unfinished
  /\ status = "completed" => phase = "over"

Account == Types /\ Matched /\ StatesAgree /\ Ending /\ CompletedMeansEverything

\* The tasks of a step are dispatched in the planner's order.
InOrder ==
  /\ \A i \in DOMAIN executable : LogicalStep[executable[i][1]] = step
  /\ \A i, j \in DOMAIN executable : i < j => executable[i][1] < executable[j][1]
  /\ phase = "dispatch" =>
       \A i \in DOMAIN executable : \A u \in Undispatched : executable[i][1] < u

\* A committed task is one of an earlier step, or of this one and then it comes
\* before those whose results still wait.
Before(t) ==
  /\ LogicalStep[t] \in Nat
  /\ \/ LogicalStep[t] < step
     \/ /\ LogicalStep[t] = step
        /\ phase \notin {"dispatch", "collect"}
        /\ phase = "commit" => \A i \in DOMAIN executable : t < executable[i][1]

Order ==
  /\ InOrder
  /\ \A i \in DOMAIN completed : Before(completed[i])
  /\ CommitOrderIsCanonical

\* While steps are run the version counts the snapshots, and no snapshot
\* knows of a task that was not committed.
Versions ==
  /\ phase \in {"dispatch", "collect", "commit"} => state_version = Len(snapshots)
  /\ \A i \in DOMAIN snapshots : \A t \in snapshots[i].completed : Committed(t)

IInv == Account /\ Order /\ Versions /\ SnapshotsAccount

-----------------------------------------------------------------------------
(* Sequences.                                                                *)

LEMMA AppendFacts ==
  ASSUME NEW S, NEW q \in Seq(S), NEW e \in S
  PROVE  /\ Append(q, e) \in Seq(S)
         /\ Len(q) \in Nat
         /\ Len(Append(q, e)) = Len(q) + 1
         /\ DOMAIN q = 1 .. Len(q)
         /\ DOMAIN Append(q, e) = 1 .. Len(q) + 1
         /\ \A i \in 1 .. Len(q) : Append(q, e)[i] = q[i]
         /\ Append(q, e)[Len(q) + 1] = e
  OBVIOUS

\* A sequence that may have grown by an element.
LEMMA Grown ==
  ASSUME NEW S, NEW q \in Seq(S), NEW r,
         r = q \/ \E e \in S : r = Append(q, e)
  PROVE  r \in Seq(S)
  OBVIOUS

LEMMA TailFacts ==
  ASSUME NEW S, NEW q \in Seq(S), q # <<>>
  PROVE  /\ Len(q) \in Nat \ {0} /\ DOMAIN q = 1 .. Len(q)
         /\ Head(q) \in S /\ Head(q) = q[1]
         /\ Tail(q) \in Seq(S) /\ Len(Tail(q)) = Len(q) - 1
         /\ DOMAIN Tail(q) = 1 .. Len(q) - 1
         /\ \A i \in 1 .. Len(q) - 1 : Tail(q)[i] = q[i + 1]
  OBVIOUS

-----------------------------------------------------------------------------
(* Types.                                                                    *)

LEMMA DispatchedWorker ==
  ASSUME Types
  PROVE  LET index == Cardinality(TasksAt(step)) - Cardinality(Undispatched)
             w == index % NumWorkers
         IN  w \in Worker /\ NextWorker(w) \in Worker
<1>1. IsFiniteSet(Task)
  BY CountsAreNatural, FS_Interval DEF Task
<1>2. TasksAt(step) \subseteq Task /\ Undispatched \subseteq Task
  BY DEF TasksAt, Undispatched
<1>3. Cardinality(TasksAt(step)) \in Nat /\ Cardinality(Undispatched) \in Nat
  BY <1>1, <1>2, FS_Subset, FS_CardinalityType
<1>4. \A index \in Int : index % NumWorkers \in 0 .. NumWorkers - 1
  BY CountsAreNatural
<1>5. \A w \in Worker : NextWorker(w) \in Worker
  BY <1>4, CountsAreNatural DEF NextWorker, Worker
<1> QED
  BY <1>3, <1>4, <1>5 DEF Worker

LEMMA InitTypes == Init => Types
  BY CountsAreNatural DEF Init, Types, Phases, WorkerState, TaskStatus

\* A snapshot taken now is a snapshot.
LEMMA SnapshotType ==
  ASSUME Types
  PROVE  Snapshot \in Snapshots
<1>1. \A i \in DOMAIN completed : completed[i] \in Task
  BY DEF Types
<1>2. {completed[i] : i \in DOMAIN completed} \subseteq Task /\ Unfinished \subseteq Task
  BY <1>1 DEF Unfinished
<1>3. step \in Nat /\ state_version + 1 \in Nat /\ worker_states \in [Worker -> WorkerState]
  BY DEF Types
<1> QED
  BY <1>2, <1>3 DEF Snapshot, Snapshots

\* What the steps have in common that neither dispatch, nor commit, nor end a
\* logical step.
Quiet ==
  /\ UNCHANGED <<deps, config, step, executable, task_states, worker_states,
                 completed, log, retries, state_version, snapshots>>
  /\ \/ results' = results
     \/ \E t \in Task : Awaited(t) /\ results' = Append(results, t)
  /\ \/ phase' = phase /\ diagnostics' = diagnostics
     \/ phase = "dispatch" /\ Undispatched = {} /\ phase' = "collect"
     \/ /\ phase = "collect" /\ phase' = "commit"
        /\ Len(results) = Len(executable) /\ results' = results
     \/ phase = "dispatch" /\ phase' = "evaluate" /\ diagnostics' # {}
     \/ phase' = "over"
  /\ \/ status' = status /\ (phase = "over" => phase' = "over")
     \/ phase' = "over" /\ (status' = "completed" => phase = "evaluate" /\ RunCompletes)

LEMMA FourKindsOfSteps ==
  ASSUME [Next]_vars
  PROVE  Dispatch \/ Commit \/ EndStep \/ Quiet
<1>1. CASE Dispatch \/ Commit \/ EndStep
  BY <1>1
<1>2. CASE StepLimit
  BY <1>2 DEF StepLimit, Quiet
<1>3. ASSUME NEW t \in Task, Spawn(t)
      PROVE  Quiet
  BY <1>3 DEF Spawn, Quiet
<1>4. CASE SpawnFails \/ AllSpawned
  BY <1>4 DEF SpawnFails, AllSpawned, ReadyToRun, Quiet
<1>5. ASSUME NEW t \in Task, Collect(t)
      PROVE  Quiet
  BY <1>5 DEF Collect, Quiet
<1>6. ASSUME NEW t \in Task, Abort(t)
      PROVE  Quiet
  BY <1>6 DEF Abort, Quiet
<1>7. CASE AllCollected
  BY <1>7 DEF AllCollected, Quiet
<1>8. CASE Evaluate
  BY <1>8 DEF Evaluate, Quiet
<1>9. ASSUME NEW t \in Task, ChildReads(t) \/ ChildEnds(t) \/ ExecuteHere(t)
      PROVE  Quiet
  BY <1>9 DEF ChildReads, ChildEnds, ExecuteHere, Quiet
<1>10. CASE UNCHANGED vars
  BY <1>10 DEF vars, Quiet
<1> QED
  BY <1>1, <1>2, <1>3, <1>4, <1>5, <1>6, <1>7, <1>8, <1>9, <1>10 DEF Next, Coordinator

\* The outcomes of dispatching a task t: its state changes, it may be handed
\* to a worker, and it may be given up.
Dispatched(t) ==
  /\ phase = "dispatch" /\ t \in Undispatched /\ \A u \in Undispatched : t <= u
  /\ \E s \in {"running", "failed"} : task_states' = [task_states EXCEPT ![t] = s]
  /\ executable' = executable \/ \E w \in Worker : executable' = Append(executable, <<t, w>>)
  /\ worker_states' \in [Worker -> WorkerState]
  /\ UNCHANGED <<deps, phase, step, results, completed, state_version, snapshots, status>>

LEMMA DispatchGives ==
  ASSUME Types, Dispatch
  PROVE  \E t \in Task : Dispatched(t)
<1> DEFINE index == Cardinality(TasksAt(step)) - Cardinality(Undispatched)
           w == index % NumWorkers
<1>1. w \in Worker /\ NextWorker(w) \in Worker
  BY DispatchedWorker
<1>2. [status |-> "unavailable", completed_tasks |-> {}] \in WorkerState
  BY DEF WorkerState
<1>3. worker_states \in [Worker -> WorkerState]
  BY DEF Types
<1>4. PICK t \in Undispatched :
        /\ \A u \in Undispatched : t <= u
        /\ \/ /\ executable' = Append(executable, <<t, w>>)
              /\ task_states' = [task_states EXCEPT ![t] = "running"]
              /\ UNCHANGED worker_states
           \/ /\ worker_states' = [worker_states EXCEPT
                   ![w] = [status |-> "unavailable", completed_tasks |-> {}]]
              /\ \/ /\ task_states' = [task_states EXCEPT ![t] = "failed"]
                    /\ UNCHANGED executable
                 \/ /\ task_states' = [task_states EXCEPT ![t] = "running"]
                    /\ executable' = Append(executable, <<t, NextWorker(w)>>)
  BY DEF Dispatch
<1>5. t \in Task
  BY DEF Undispatched, TasksAt
<1>6. UNCHANGED <<deps, phase, step, results, completed, state_version, snapshots, status>>
      /\ phase = "dispatch"
  BY DEF Dispatch
<1>7. worker_states' \in [Worker -> WorkerState]
  BY <1>1, <1>2, <1>3, <1>4
<1>8. Dispatched(t)
  <2> HIDE DEF w
  <2> QED
    BY <1>1, <1>4, <1>6, <1>7 DEF Dispatched
<1> QED
  BY <1>5, <1>8

LEMMA NextTypes ==
  ASSUME Types, Matched, [Next]_vars
  PROVE  Types'
<1>1. ASSUME NEW t \in Task, Dispatched(t)
      PROVE  Types'
  <2>1. task_states' \in [Task -> TaskStatus]
    BY <1>1 DEF Dispatched, Types, TaskStatus
  <2>2. executable' \in Seq(Pair)
    <3>1. \A w \in Worker : <<t, w>> \in Pair
      BY DEF Pair
    <3>2. executable' = executable \/ \E e \in Pair : executable' = Append(executable, e)
      BY <1>1, <3>1 DEF Dispatched
    <3> QED
      BY <3>2, Grown DEF Types
  <2> QED
    BY <1>1, <2>1, <2>2 DEF Dispatched, Types
<1>2. CASE Commit
  <2> DEFINE t == Head(results)
             w == Head(executable)[2]
  <2>1. Tail(results) \in Seq(Task) /\ t \in Task
    BY <1>2, TailFacts DEF Commit, Types
  <2>2. Tail(executable) \in Seq(Pair)
    <3>1. executable # <<>>
      BY <1>2, TailFacts DEF Commit, Types, Matched
    <3> QED
      BY <3>1, TailFacts DEF Types
  <2>3. completed' \in Seq(Task)
    BY <1>2, <2>1, AppendFacts DEF Commit, Types
  <2>4. task_states' \in [Task -> TaskStatus]
    BY <1>2 DEF Commit, Types, TaskStatus
  <2>5. worker_states' \in [Worker -> WorkerState]
    <3>1. worker_states' = [worker_states EXCEPT ![w] =
            [status |-> "ready", completed_tasks |-> @.completed_tasks \cup {t}]]
      BY <1>2 DEF Commit
    <3>2. worker_states \in [Worker -> WorkerState]
      BY DEF Types
    <3> HIDE DEF t, w
    <3> QED
      BY <2>1, <3>1, <3>2 DEF WorkerState
  <2> QED
    BY <1>2, <2>1, <2>2, <2>3, <2>4, <2>5 DEF Commit, Types
<1>3. CASE EndStep
  <2>1. phase' \in Phases /\ step' \in Nat /\ state_version' \in Nat
    BY <1>3 DEF EndStep, Types, Phases
  <2>2. snapshots' \in Seq(Snapshots)
    <3>1. snapshots' = snapshots \/ snapshots' = Append(snapshots, Snapshot)
      BY <1>3 DEF EndStep
    <3> QED
      BY <3>1, SnapshotType, Grown DEF Types
  <2> QED
    BY <1>3, <2>1, <2>2 DEF EndStep, Types
<1>4. CASE Quiet
  <2>1. results' \in Seq(Task)
    BY <1>4, Grown DEF Quiet, Types
  <2>2. phase' \in Phases
    BY <1>4 DEF Quiet, Types, Phases
  <2> QED
    BY <1>4, <2>1, <2>2 DEF Quiet, Types
<1> QED
  BY <1>1, <1>2, <1>3, <1>4, FourKindsOfSteps, DispatchGives

LEMMA NextMatched ==
  ASSUME Types, Matched, [Next]_vars
  PROVE  Matched'
<1>1. ASSUME NEW t \in Task, Dispatched(t)
      PROVE  Matched'
  <2>1. CASE executable' = executable
    BY <1>1, <2>1 DEF Dispatched, Matched
  <2>2. ASSUME NEW w \in Worker, executable' = Append(executable, <<t, w>>)
        PROVE  Matched'
    <3>1. <<t, w>> \in Pair
      BY DEF Pair
    <3>2. /\ Len(executable) \in Nat /\ Len(executable') = Len(executable) + 1
          /\ \A i \in 1 .. Len(executable) : executable'[i] = executable[i]
      BY <2>2, <3>1, AppendFacts DEF Types
    <3>3. Len(results) \in Nat /\ DOMAIN results = 1 .. Len(results)
      BY DEF Types
    <3> QED
      BY <1>1, <3>2, <3>3 DEF Dispatched, Matched
  <2> QED
    BY <1>1, <2>1, <2>2 DEF Dispatched
<1>2. CASE Commit
  <2>1. /\ phase = "commit" /\ results # <<>> /\ results' = Tail(results)
        /\ executable' = Tail(executable) /\ phase' = phase
    BY <1>2 DEF Commit
  <2>2. /\ Len(results) \in Nat \ {0} /\ Len(results') = Len(results) - 1
        /\ DOMAIN results' = 1 .. Len(results) - 1 /\ DOMAIN results = 1 .. Len(results)
        /\ \A i \in 1 .. Len(results) - 1 : results'[i] = results[i + 1]
    BY <2>1, TailFacts DEF Types
  <2>3. executable # <<>> /\ Len(executable) = Len(results)
    BY <2>1, <2>2 DEF Matched, Types
  <2>4. /\ Len(executable') = Len(executable) - 1
        /\ \A i \in 1 .. Len(executable) - 1 : executable'[i] = executable[i + 1]
    BY <2>1, <2>3, TailFacts DEF Types
  <2> QED
    BY <2>1, <2>2, <2>3, <2>4 DEF Matched
<1>3. CASE EndStep
  BY <1>3 DEF EndStep, Matched
<1>4. CASE Quiet
  <2>1. CASE results' = results
    BY <1>4, <2>1 DEF Quiet, Matched
  <2>2. ASSUME NEW t \in Task, Awaited(t), results' = Append(results, t)
        PROVE  Matched'
    <3>1. /\ Len(results) \in Nat /\ Len(results') = Len(results) + 1
          /\ DOMAIN results' = 1 .. Len(results) + 1 /\ DOMAIN results = 1 .. Len(results)
          /\ \A i \in 1 .. Len(results) : results'[i] = results[i]
          /\ results'[Len(results) + 1] = t
      BY <2>2, AppendFacts DEF Types
    <3>2. /\ Len(results) < Len(executable) /\ t = executable[Len(results) + 1][1]
          /\ Len(executable) \in Nat
      BY <2>2 DEF Awaited, Types
    <3>3. phase # "commit"
      BY <3>1, <3>2 DEF Matched
    <3>4. results' # results
      BY <3>1
    <3>5. phase' # "commit"
      BY <1>4, <3>3, <3>4 DEF Quiet
    <3> QED
      BY <1>4, <3>1, <3>2, <3>5 DEF Quiet, Matched
  <2> QED
    BY <1>4, <2>1, <2>2 DEF Quiet
<1> QED
  BY <1>1, <1>2, <1>3, <1>4, FourKindsOfSteps, DispatchGives

-----------------------------------------------------------------------------
(* A completed run is complete.                                              *)

LEMMA NextStatesAgree ==
  ASSUME Types, StatesAgree, [Next]_vars
  PROVE  StatesAgree'
<1>1. ASSUME NEW t \in Task, Dispatched(t)
      PROVE  StatesAgree'
  <2>1. task_states[t] = "pending"
    BY <1>1 DEF Dispatched, Undispatched
  <2>2. \A u \in Task : task_states'[u] = "completed" <=> task_states[u] = "completed"
    BY <1>1, <2>1 DEF Dispatched, Types
  <2> QED
    BY <1>1, <2>2 DEF Dispatched, StatesAgree, Committed
<1>2. CASE Commit
  <2> DEFINE t == Head(results)
  <2>1. t \in Task /\ completed' = Append(completed, t)
        /\ task_states' = [task_states EXCEPT ![t] = "completed"]
    BY <1>2, TailFacts DEF Commit, Types
  <2>2. /\ Len(completed) \in Nat /\ DOMAIN completed' = 1 .. Len(completed) + 1
        /\ DOMAIN completed = 1 .. Len(completed)
        /\ \A i \in 1 .. Len(completed) : completed'[i] = completed[i]
        /\ completed'[Len(completed) + 1] = t
    BY <2>1, AppendFacts DEF Types
  <2>3. \A u \in Task : Committed(u)' <=> Committed(u) \/ u = t
    <3> HIDE DEF t
    <3> QED
      BY <2>2 DEF Committed
  <2>4. \A u \in Task : task_states'[u] = "completed" <=>
                          task_states[u] = "completed" \/ u = t
    BY <2>1 DEF Types
  <2> QED
    BY <2>3, <2>4 DEF StatesAgree
<1>3. CASE EndStep
  BY <1>3 DEF EndStep, StatesAgree, Committed
<1>4. CASE Quiet
  BY <1>4 DEF Quiet, StatesAgree, Committed
<1> QED
  BY <1>1, <1>2, <1>3, <1>4, FourKindsOfSteps, DispatchGives

LEMMA NextEnding ==
  ASSUME Types, Ending, [Next]_vars
  PROVE  Ending'
<1>1. ASSUME NEW t \in Task, Dispatched(t)
      PROVE  Ending'
  BY <1>1 DEF Dispatched, Ending
<1>2. CASE Commit
  BY <1>2 DEF Commit, Ending
<1>3. CASE EndStep
  <2>1. status' # "completed"
    BY <1>3 DEF EndStep, Ending
  <2>2. CASE snapshots' = Append(snapshots, Snapshot)
    <3>1. snapshots \in Seq(Snapshots) /\ Snapshot \in Snapshots
      BY SnapshotType DEF Types
    <3>2. Len(snapshots') = Len(snapshots) + 1 /\ Len(snapshots) \in Nat
          /\ snapshots'[Len(snapshots')] = Snapshot
      BY <2>2, <3>1, AppendFacts
    <3>3. Snapshot.pending = Unfinished
      BY DEF Snapshot
    <3>4. Unfinished' = Unfinished
      BY <1>3 DEF EndStep, Unfinished
    <3> QED
      BY <2>1, <3>2, <3>3, <3>4 DEF Ending
  <2>3. CASE diagnostics' # {}
    BY <2>1, <2>3 DEF Ending
  <2> QED
    BY <1>3, <2>2, <2>3 DEF EndStep
<1>4. CASE Quiet
  <2>1. Unfinished' = Unfinished
    BY <1>4 DEF Quiet, Unfinished
  <2> QED
    BY <1>4, <2>1 DEF Quiet, Ending
<1> QED
  BY <1>1, <1>2, <1>3, <1>4, FourKindsOfSteps, DispatchGives

LEMMA NextCompleted ==
  ASSUME Types, StatesAgree, Ending, CompletedMeansEverything, [Next]_vars
  PROVE  CompletedMeansEverything'
<1>1. ASSUME NEW t \in Task, Dispatched(t)
      PROVE  CompletedMeansEverything'
  BY <1>1 DEF Dispatched, Ending, CompletedMeansEverything
<1>2. CASE Commit
  BY <1>2 DEF Commit, Ending, CompletedMeansEverything
<1>3. CASE EndStep
  BY <1>3 DEF EndStep, Ending, CompletedMeansEverything
<1>4. CASE Quiet
  <2>1. CASE status' = status
    BY <1>4, <2>1 DEF Quiet, CompletedMeansEverything, Committed
  <2>2. CASE phase = "evaluate" /\ RunCompletes
    <3>1. \A t \in Task : Committed(t) /\ task_states[t] = "completed"
      BY <2>2 DEF RunCompletes, EvaluationPasses, StatesAgree
    <3>2. Unfinished = {}
      BY <3>1 DEF Unfinished
    <3>3. snapshots[Len(snapshots)].pending = {} /\ Len(completed) = NumTasks
      BY <2>2, <3>2 DEF RunCompletes, Ending
    <3> QED
      BY <1>4, <3>1, <3>3 DEF Quiet, CompletedMeansEverything, Committed
  <2>3. CASE status' # "completed"
    BY <2>3 DEF CompletedMeansEverything
  <2> QED
    BY <1>4, <2>1, <2>2, <2>3 DEF Quiet
<1> QED
  BY <1>1, <1>2, <1>3, <1>4, FourKindsOfSteps, DispatchGives

-----------------------------------------------------------------------------
(* Results are committed in the planner's order.                             *)

LEMMA StepsStay ==
  ASSUME deps' = deps
  PROVE  LogicalStep' = LogicalStep
  BY DEF LogicalStep

LEMMA NextInOrder ==
  ASSUME Types, Matched, InOrder, [Next]_vars
  PROVE  InOrder'
<1>1. ASSUME NEW t \in Task, Dispatched(t)
      PROVE  InOrder'
  <2>1. LogicalStep' = LogicalStep /\ step' = step /\ LogicalStep[t] = step
        /\ \A u \in Undispatched : t <= u
    BY <1>1, StepsStay DEF Dispatched, Undispatched, TasksAt
  <2>2. \A u \in Undispatched' : u \in Undispatched /\ t < u
    <3>1. task_states'[t] # "pending"
      BY <1>1 DEF Dispatched, Types
    <3>2. \A u \in Task : u # t => task_states'[u] = task_states[u]
      BY <1>1 DEF Dispatched, Types
    <3>3. \A u \in Undispatched' : u \in Undispatched /\ u # t
      BY <2>1, <3>1, <3>2 DEF Undispatched, TasksAt
    <3>4. t \in Nat /\ \A u \in Undispatched : u \in Nat
      BY DEF Undispatched, TasksAt, Task
    <3>5. ASSUME NEW u \in Undispatched'
          PROVE  t < u
      <4>1. t <= u /\ u # t /\ u \in Nat
        BY <2>1, <3>3, <3>4, <3>5
      <4> QED
        BY <3>4, <4>1
    <3> QED
      BY <3>3, <3>5
  <2>3. CASE executable' = executable
    BY <1>1, <2>1, <2>2, <2>3 DEF Dispatched, InOrder
  <2>4. ASSUME NEW w \in Worker, executable' = Append(executable, <<t, w>>)
        PROVE  InOrder'
    <3>1. <<t, w>> \in Pair /\ <<t, w>>[1] = t
      BY DEF Pair
    <3>2. PICK n \in Nat : n = Len(executable)
      BY DEF Types
    <3>3. /\ DOMAIN executable = 1 .. n /\ DOMAIN executable' = 1 .. n + 1
          /\ \A i \in 1 .. n : executable'[i] = executable[i]
          /\ executable'[n + 1] = <<t, w>>
      BY <2>4, <3>1, <3>2, AppendFacts DEF Types
    <3>4. \A i \in 1 .. n : executable[i][1] < t /\ LogicalStep[executable[i][1]] = step
      BY <1>1, <3>3 DEF Dispatched, InOrder
    <3>5. \A i, j \in DOMAIN executable' : i < j => executable'[i][1] < executable'[j][1]
      BY <3>1, <3>3, <3>4 DEF InOrder
    <3>6. \A i \in DOMAIN executable' : LogicalStep'[executable'[i][1]] = step'
      BY <2>1, <3>1, <3>3, <3>4
    <3>7. \A i \in DOMAIN executable' : \A u \in Undispatched' : executable'[i][1] < u
      BY <1>1, <2>2, <3>1, <3>3 DEF InOrder, Dispatched
    <3> QED
      BY <3>5, <3>6, <3>7 DEF InOrder
  <2> QED
    BY <1>1, <2>3, <2>4 DEF Dispatched
<1>2. CASE Commit
  <2>1. /\ executable' = Tail(executable) /\ phase = "commit" /\ results # <<>>
        /\ step' = step /\ phase' = phase /\ LogicalStep' = LogicalStep
    BY <1>2, StepsStay DEF Commit
  <2>2. executable # <<>>
    BY <2>1, TailFacts DEF Matched, Types
  <2>3. PICK n \in Nat \ {0} : n = Len(executable)
    BY <2>2, TailFacts DEF Types
  <2>4. /\ DOMAIN executable = 1 .. n /\ DOMAIN executable' = 1 .. n - 1
        /\ \A i \in 1 .. n - 1 : executable'[i] = executable[i + 1]
    BY <2>1, <2>2, <2>3, TailFacts DEF Types
  <2>5. ASSUME NEW i \in DOMAIN executable', NEW j \in DOMAIN executable', i < j
        PROVE  executable'[i][1] < executable'[j][1]
    <3>1. i + 1 \in DOMAIN executable /\ j + 1 \in DOMAIN executable /\ i + 1 < j + 1
      BY <2>4, <2>5
    <3>2. executable[i + 1][1] < executable[j + 1][1]
      BY <3>1 DEF InOrder
    <3> QED
      BY <2>4, <3>2
  <2>6. \A i \in DOMAIN executable' : LogicalStep[executable'[i][1]] = step
    BY <2>4 DEF InOrder
  <2> QED
    BY <2>1, <2>5, <2>6 DEF InOrder
<1>3. CASE EndStep
  <2>1. executable = <<>> /\ executable' = executable
    BY <1>3 DEF EndStep, Matched, Types
  <2> QED
    BY <2>1 DEF InOrder
<1>4. CASE Quiet
  <2>1. LogicalStep' = LogicalStep
    BY <1>4, StepsStay DEF Quiet
  <2>2. phase' = "dispatch" => phase = "dispatch" /\ Undispatched' = Undispatched
    BY <1>4, <2>1 DEF Quiet, Undispatched, TasksAt
  <2> QED
    BY <1>4, <2>1, <2>2 DEF Quiet, InOrder
<1> QED
  BY <1>1, <1>2, <1>3, <1>4, FourKindsOfSteps, DispatchGives

LEMMA NextOrder ==
  ASSUME Types, Matched, Order, [Next]_vars
  PROVE  Order'
<1>1. InOrder'
  BY NextInOrder DEF Order
<1>2. ASSUME NEW t \in Task, Dispatched(t)
      PROVE  Order'
  <2>1. LogicalStep' = LogicalStep /\ step' = step /\ completed' = completed
        /\ phase = "dispatch" /\ phase' = phase
    BY <1>2, StepsStay DEF Dispatched
  <2> QED
    BY <1>1, <2>1 DEF Order, Before, CommitOrderIsCanonical
<1>3. CASE Commit
  <2>1. /\ executable' = Tail(executable) /\ phase = "commit" /\ results # <<>>
        /\ completed' = Append(completed, Head(results))
        /\ step' = step /\ phase' = phase /\ LogicalStep' = LogicalStep
    BY <1>3, StepsStay DEF Commit
  <2>2. executable # <<>>
    BY <2>1, TailFacts DEF Matched, Types
  <2>3. PICK n \in Nat \ {0} : n = Len(executable)
    BY <2>2, TailFacts DEF Types
  <2>4. /\ DOMAIN executable = 1 .. n /\ DOMAIN executable' = 1 .. n - 1
        /\ \A i \in 1 .. n - 1 : executable'[i] = executable[i + 1]
    BY <2>1, <2>2, <2>3, TailFacts DEF Types
  <2>5. PICK t \in Task : t = Head(results) /\ t = executable[1][1]
    BY <2>1, TailFacts DEF Matched, Types
  <2>6. LogicalStep[t] = step /\ step \in Nat
    <3>1. 1 \in DOMAIN executable
      BY <2>4
    <3> QED
      BY <2>5, <3>1 DEF Order, InOrder, Types
  <2>7. \A i \in DOMAIN executable' : t < executable'[i][1]
    <3>1. \A i, j \in DOMAIN executable : i < j => executable[i][1] < executable[j][1]
      BY DEF Order, InOrder
    <3>2. ASSUME NEW i \in 1 .. n - 1
          PROVE  t < executable'[i][1]
      <4>1. 1 \in DOMAIN executable /\ i + 1 \in DOMAIN executable /\ 1 < i + 1
        BY <2>4
      <4>2. executable[1][1] < executable[i + 1][1]
        BY <3>1, <4>1
      <4> QED
        BY <2>4, <2>5, <4>2
    <3> QED
      BY <2>4, <3>2
  <2>8. PICK m \in Nat : m = Len(completed)
    BY DEF Types
  <2>9. /\ DOMAIN completed = 1 .. m /\ DOMAIN completed' = 1 .. m + 1
        /\ \A i \in 1 .. m : completed'[i] = completed[i]
        /\ completed'[m + 1] = t
    BY <2>1, <2>5, <2>8, AppendFacts DEF Types
  <2>10. ASSUME NEW i \in 1 .. m
         PROVE  /\ LogicalStep[completed[i]] \in Nat
                /\ \/ LogicalStep[completed[i]] < step
                   \/ /\ LogicalStep[completed[i]] = step /\ completed[i] < t
                      /\ \A j \in DOMAIN executable' : completed[i] < executable'[j][1]
    <3>1. Before(completed[i])
      BY <2>9 DEF Order
    <3>2. 1 \in DOMAIN executable
      BY <2>4
    <3> QED
      BY <2>1, <2>4, <2>5, <3>1, <3>2 DEF Before
  <2>11. \A i \in DOMAIN completed' : Before(completed[i])'
    <3>1. ASSUME NEW i \in 1 .. m
          PROVE  Before(completed[i])'
      BY <2>1, <2>9, <2>10 DEF Before
    <3>2. Before(completed[m + 1])'
      BY <2>1, <2>6, <2>7, <2>9 DEF Before
    <3> QED
      BY <2>9, <3>1, <3>2
  <2>12. CommitOrderIsCanonical'
    <3>1. ASSUME NEW i \in DOMAIN completed', NEW j \in DOMAIN completed', i < j
          PROVE  \/ LogicalStep[completed'[i]] < LogicalStep[completed'[j]]
                 \/ /\ LogicalStep[completed'[i]] = LogicalStep[completed'[j]]
                    /\ completed'[i] < completed'[j]
      <4>1. CASE j = m + 1
        BY <2>6, <2>9, <2>10, <3>1, <4>1
      <4>2. CASE j \in 1 .. m
        BY <2>9, <3>1, <4>2 DEF Order, CommitOrderIsCanonical
      <4> QED
        BY <2>9, <4>1, <4>2
    <3> QED
      BY <2>1, <3>1 DEF CommitOrderIsCanonical
  <2> QED
    BY <1>1, <2>11, <2>12 DEF Order
<1>4. CASE EndStep
  <2>1. LogicalStep' = LogicalStep /\ completed' = completed /\ phase = "commit"
    BY <1>4, StepsStay DEF EndStep
  <2>2. (step' = step /\ phase' = "evaluate") \/ step' = step + 1
    BY <1>4 DEF EndStep
  <2>3. \A i \in DOMAIN completed : Before(completed[i])'
    BY <2>1, <2>2 DEF Order, Before, Types
  <2> QED
    BY <1>1, <2>1, <2>3 DEF Order, CommitOrderIsCanonical
<1>5. CASE Quiet
  <2>1. LogicalStep' = LogicalStep /\ step' = step /\ completed' = completed
        /\ executable' = executable
    BY <1>5, StepsStay DEF Quiet
  <2>2. /\ phase \notin {"dispatch", "collect"} => phase' \notin {"dispatch", "collect"}
        /\ phase \notin {"dispatch", "collect"} /\ phase' = "commit" => phase = "commit"
    BY <1>5 DEF Quiet
  <2>3. \A i \in DOMAIN completed : Before(completed[i])'
    BY <2>1, <2>2 DEF Order, Before
  <2> QED
    BY <1>1, <2>1, <2>3 DEF Order, CommitOrderIsCanonical
<1> QED
  BY <1>2, <1>3, <1>4, <1>5, FourKindsOfSteps, DispatchGives

-----------------------------------------------------------------------------
(* Snapshots.                                                                *)

\* A snapshot taken now splits the tasks.
LEMMA SnapshotSplits ==
  ASSUME Types, StatesAgree
  PROVE  /\ \A t : t \in Snapshot.completed <=> t \in Task /\ Committed(t)
         /\ Snapshot.completed \cup Snapshot.pending = Task
         /\ Snapshot.completed \cap Snapshot.pending = {}
         /\ Snapshot.step = step /\ Snapshot.version = state_version + 1
<1>1. \A i \in DOMAIN completed : completed[i] \in Task
  BY DEF Types
<1>2. Snapshot.completed = {completed[i] : i \in DOMAIN completed}
  BY DEF Snapshot
<1>3. \A t : t \in Snapshot.completed <=> t \in Task /\ Committed(t)
  BY <1>1, <1>2 DEF Committed
<1>4. Snapshot.pending = Unfinished /\ Snapshot.step = step
      /\ Snapshot.version = state_version + 1
  BY DEF Snapshot
<1>5. \A t : t \in Unfinished <=> t \in Task /\ ~Committed(t)
  BY DEF Unfinished, StatesAgree
<1> QED
  BY <1>3, <1>4, <1>5

\* What the snapshots taken so far say stays true while no task is forgotten.
LEMMA SameSnapshots ==
  ASSUME Versions, SnapshotsAccount, deps' = deps, snapshots' = snapshots,
         \A t : Committed(t) => Committed(t)',
         phase' \in {"dispatch", "collect", "commit"} =>
           phase \in {"dispatch", "collect", "commit"} /\ state_version' = state_version
  PROVE  Versions' /\ SnapshotsAccount'
<1>1. LogicalStep' = LogicalStep
  BY StepsStay
<1> QED
  BY <1>1 DEF Versions, SnapshotsAccount

LEMMA NextSnapshots ==
  ASSUME Types, StatesAgree, Order, Versions, SnapshotsAccount, [Next]_vars
  PROVE  Versions' /\ SnapshotsAccount'
<1>1. ASSUME NEW t \in Task, Dispatched(t)
      PROVE  Versions' /\ SnapshotsAccount'
  <2>1. \A u : Committed(u) => Committed(u)'
    BY <1>1 DEF Dispatched, Committed
  <2> QED
    BY <1>1, <2>1, SameSnapshots DEF Dispatched
<1>2. CASE Commit
  <2>1. Head(results) \in Task /\ completed' = Append(completed, Head(results))
    BY <1>2, TailFacts DEF Commit, Types
  <2>2. \A u : Committed(u) => Committed(u)'
    <3>1. /\ DOMAIN completed \subseteq DOMAIN completed'
          /\ \A i \in DOMAIN completed : completed'[i] = completed[i]
      BY <2>1, AppendFacts DEF Types
    <3> QED
      BY <3>1 DEF Committed
  <2> QED
    BY <1>2, <2>2, SameSnapshots DEF Commit
<1>3. CASE EndStep
  <2>1. completed' = completed /\ deps' = deps /\ phase = "commit"
        /\ state_version' = state_version + 1
    BY <1>3 DEF EndStep
  <2>2. \A u : Committed(u)' <=> Committed(u)
    BY <2>1 DEF Committed
  <2>3. CASE snapshots' = snapshots /\ phase' = "evaluate"
    BY <2>1, <2>2, <2>3, SameSnapshots
  <2>4. CASE snapshots' = Append(snapshots, Snapshot)
    <3>1. PICK n \in Nat : n = Len(snapshots)
      BY DEF Types
    <3>2. /\ DOMAIN snapshots = 1 .. n /\ DOMAIN snapshots' = 1 .. n + 1
          /\ Len(snapshots') = n + 1
          /\ \A i \in 1 .. n : snapshots'[i] = snapshots[i]
          /\ snapshots'[n + 1] = Snapshot
      BY <2>4, <3>1, SnapshotType, AppendFacts DEF Types
    <3>3. state_version = n
      BY <2>1, <3>1 DEF Versions
    <3>4. LogicalStep' = LogicalStep
      BY <2>1, StepsStay
    <3>5. \A t \in Snapshot.completed : Committed(t) /\ LogicalStep[t] <= Snapshot.step
      <4>1. ASSUME NEW t \in Snapshot.completed
            PROVE  Committed(t) /\ LogicalStep[t] <= step
        <5>1. Committed(t)
          BY SnapshotSplits
        <5>2. Before(t)
          BY <5>1 DEF Committed, Order
        <5> QED
          BY <5>1, <5>2 DEF Before, Types
      <4> QED
        BY <4>1, SnapshotSplits
    <3>6. Versions'
      BY <2>1, <2>2, <3>2, <3>3, <3>5 DEF Versions
    <3>7. ASSUME NEW i \in DOMAIN snapshots'
          PROVE  /\ snapshots'[i].version = i
                 /\ snapshots'[i].completed \cup snapshots'[i].pending = Task
                 /\ snapshots'[i].completed \cap snapshots'[i].pending = {}
                 /\ i > 1 => snapshots'[i - 1].completed \subseteq snapshots'[i].completed
                 /\ \A t \in snapshots'[i].completed :
                      LogicalStep'[t] <= snapshots'[i].step
      <4>1. CASE i \in 1 .. n
        <5>1. snapshots'[i] = snapshots[i]
              /\ (i > 1 => snapshots'[i - 1] = snapshots[i - 1])
          BY <3>2, <4>1
        <5> QED
          BY <3>2, <3>4, <4>1, <5>1 DEF SnapshotsAccount
      <4>2. CASE i = n + 1
        <5>1. snapshots'[i] = Snapshot /\ Snapshot.version = i
          BY <3>2, <3>3, <4>2, SnapshotSplits
        <5>2. ASSUME i > 1
              PROVE  snapshots'[i - 1].completed \subseteq Snapshot.completed
          <6>1. i - 1 \in DOMAIN snapshots /\ snapshots'[i - 1] = snapshots[i - 1]
            BY <3>2, <4>2, <5>2
          <6>2. snapshots[i - 1] \in Snapshots
            BY <6>1 DEF Types
          <6>3. \A t \in snapshots[i - 1].completed : t \in Task /\ Committed(t)
            BY <6>1, <6>2 DEF Versions, Snapshots
          <6> QED
            BY <6>1, <6>3, SnapshotSplits
        <5> QED
          BY <3>4, <3>5, <5>1, <5>2, SnapshotSplits
      <4> QED
        BY <3>2, <4>1, <4>2
    <3> QED
      BY <3>6, <3>7 DEF SnapshotsAccount
  <2> QED
    BY <1>3, <2>3, <2>4 DEF EndStep
<1>4. CASE Quiet
  <2>1. \A u : Committed(u) => Committed(u)'
    BY <1>4 DEF Quiet, Committed
  <2> QED
    BY <1>4, <2>1, SameSnapshots DEF Quiet
<1> QED
  BY <1>1, <1>2, <1>3, <1>4, FourKindsOfSteps, DispatchGives

-----------------------------------------------------------------------------
(* Theorems.                                                                 *)

LEMMA InitIInv == Init => IInv
<1> SUFFICES ASSUME Init
             PROVE  IInv
  OBVIOUS
<1>1. Types
  BY InitTypes
<1>2. executable = <<>> /\ results = <<>> /\ completed = <<>> /\ snapshots = <<>>
      /\ phase = "dispatch" /\ status = "running" /\ state_version = 0
      /\ task_states = [t \in Task |-> "pending"]
  BY DEF Init
<1>3. Matched /\ StatesAgree /\ Ending /\ CompletedMeansEverything
  BY <1>2 DEF Matched, StatesAgree, Ending, CompletedMeansEverything, Committed
<1>4. Order
  BY <1>2 DEF Order, InOrder, CommitOrderIsCanonical
<1>5. Versions /\ SnapshotsAccount
  BY <1>2 DEF Versions, SnapshotsAccount
<1> QED
  BY <1>1, <1>3, <1>4, <1>5 DEF IInv, Account

LEMMA NextIInv == IInv /\ [Next]_vars => IInv'
  BY NextTypes, NextMatched, NextStatesAgree, NextEnding, NextCompleted, NextOrder,
     NextSnapshots DEF IInv, Account

\* The inductive invariant: the accounts of the run, the order of its tasks and
\* the versions of its snapshots.
THEOREM Inductive == Spec => []IInv
  BY InitIInv, NextIInv, PTL DEF Spec

\* A run is reported as completed only when every task was committed, each
\* once, and the last snapshot left nothing pending, for every plan, every
\* limit and every way the worker processes end.
THEOREM CompletedRunsAreComplete == Spec => []CompletedMeansEverything
<1>1. IInv => CompletedMeansEverything
  BY DEF IInv, Account
<1> QED
  BY <1>1, Inductive, PTL

\* Results are committed in the planner's order, whatever the order in which
\* the processes end: a run's artifacts do not depend on the schedule.
THEOREM CommitsAreOrdered == Spec => []CommitOrderIsCanonical
<1>1. IInv => CommitOrderIsCanonical
  BY DEF IInv, Order
<1> QED
  BY <1>1, Inductive, PTL

\* The snapshots of a run are numbered without a gap, each splits the tasks
\* into completed and pending ones, and completed tasks stay completed: the
\* state history can be replayed.
THEOREM HistoryAccounts == Spec => []SnapshotsAccount
<1>1. IInv => SnapshotsAccount
  BY DEF IInv
<1> QED
  BY <1>1, Inductive, PTL

-----------------------------------------------------------------------------
(* The messages: what the log of a run says of starts, results and         *)
(* barriers.  They rest on two facts about data: the logical step of a     *)
(* task is well defined and above those of its dependencies, and the       *)
(* workers of a step can be walked in ascending order.  Both are           *)
(* inductions, made here by least counterexamples.                         *)

-----------------------------------------------------------------------------
(* Least and greatest numbers.                                               *)

\* Intervals from 0 are ordered by inclusion, which is well founded.
LEMMA LeastElement ==
  ASSUME NEW T \in SUBSET Nat, T # {}
  PROVE  \E k \in T : \A j \in T : k <= j
<1> DEFINE Intervals == {0 .. k : k \in T}
<1>1. Intervals \subseteq FiniteSubsetsOf(Nat)
  <2>1. \A k \in T : IsFiniteSet(0 .. k)
    BY FS_Interval
  <2> QED
    BY <2>1 DEF FiniteSubsetsOf
<1>2. Intervals # {}
  OBVIOUS
<1> HIDE DEF Intervals
<1>3. PICK B \in Intervals :
        \A C \in Intervals : ~ (<<C, B>> \in StrictSubsetOrdering(Nat))
  BY <1>1, <1>2, WFMin, FS_StrictSubsetOrderingWellFounded
<1>4. PICK k \in T : B = 0 .. k
  BY DEF Intervals
<1>5. ASSUME NEW j \in T, j < k
      PROVE  FALSE
  <2>1. 0 .. j \in SUBSET Nat /\ 0 .. k \in SUBSET Nat
        /\ 0 .. j \subseteq 0 .. k /\ 0 .. j # 0 .. k
    BY <1>5
  <2>2. <<0 .. j, 0 .. k>> \in StrictSubsetOrdering(Nat)
    BY <2>1 DEF StrictSubsetOrdering
  <2>3. 0 .. j \in Intervals
    BY DEF Intervals
  <2> QED
    BY <1>3, <1>4, <2>2, <2>3
<1> QED
  BY <1>5

LEMMA GreatestElement ==
  ASSUME NEW T \in SUBSET Nat, T # {}, NEW b \in Nat, \A j \in T : j <= b
  PROVE  \E k \in T : \A j \in T : j <= k
<1> DEFINE D == {b - j : j \in T}
<1>1. D \in SUBSET Nat /\ D # {}
  <2>1. \A j \in T : j \in Nat /\ b - j \in Nat
    OBVIOUS
  <2> QED
    BY <2>1
<1>2. PICK e \in D : \A j \in D : e <= j
  <2> HIDE DEF D
  <2> QED
    BY <1>1, LeastElement
<1>3. PICK k \in T : e = b - k
  OBVIOUS
<1>4. \A j \in T : b - k <= b - j
  BY <1>2, <1>3
<1> QED
  BY <1>4

-----------------------------------------------------------------------------
(* The workers of a step in ascending order.                                 *)

LEMMA FiniteBelow ==
  ASSUME NEW b \in Nat, NEW S \in SUBSET (0 .. b)
  PROVE  /\ S \in SUBSET Nat /\ IsFiniteSet(S) /\ Cardinality(S) \in Nat
         /\ \A s \in S : s <= b
<1>1. IsFiniteSet(0 .. b)
  <2>1. 0 \in Int /\ b \in Int
    OBVIOUS
  <2> QED
    BY <2>1, FS_Interval
<1>2. IsFiniteSet(S)
  BY <1>1, FS_Subset
<1>3. Cardinality(S) \in Nat
  BY <1>2, FS_CardinalityType
<1>4. \A s \in S : s \in Nat /\ s <= b
  OBVIOUS
<1> QED
  BY <1>2, <1>3, <1>4

LEMMA AscendingExists ==
  ASSUME NEW b \in Nat, NEW S \in SUBSET (0 .. b)
  PROVE  \E q \in [1 .. Cardinality(S) -> S] :
           \A i, j \in 1 .. Cardinality(S) : i < j => q[i] < q[j]
<1> DEFINE Walk(R, q) == /\ q \in [1 .. Cardinality(R) -> R]
                         /\ \A i, j \in 1 .. Cardinality(R) : i < j => q[i] < q[j]
           Unwalked == {R \in SUBSET (0 .. b) : \A q : ~ Walk(R, q)}
           Sizes == {Cardinality(R) : R \in Unwalked}
<1>1. \A R \in SUBSET (0 .. b) : IsFiniteSet(R) /\ Cardinality(R) \in Nat
  BY FiniteBelow
<1>2. ASSUME NEW R \in Unwalked,
             \A Q \in Unwalked : Cardinality(R) <= Cardinality(Q)
      PROVE  FALSE
  <2> PICK n : n = Cardinality(R)
    OBVIOUS
  <2>1. n \in Nat /\ R \in SUBSET (0 .. b) /\ R \in SUBSET Nat /\ IsFiniteSet(R)
        /\ \A j \in R : j <= b
    BY FiniteBelow
  <2>2. CASE R = {}
    <3>1. n = 0
      BY <2>1, <2>2, FS_EmptySet
    <3>2. [i \in 1 .. 0 |-> 0] \in [1 .. 0 -> R]
      OBVIOUS
    <3>3. Walk(R, [i \in 1 .. 0 |-> 0])
      BY <3>1, <3>2
    <3> QED
      BY <3>3
  <2>3. CASE R # {}
    <3>1. PICK m \in R : \A j \in R : j <= m
      BY <2>1, <2>3, GreatestElement
    <3>2. PICK Q : Q = R \ {m}
      OBVIOUS
    <3>3. Q \in SUBSET (0 .. b) /\ Cardinality(Q) = n - 1 /\ n - 1 \in Nat
      BY <1>1, <2>1, <3>1, <3>2, FS_RemoveElement
    <3>4. Q \notin Unwalked
      BY <1>2, <2>1, <3>3
    <3>5. PICK q : Walk(Q, q)
      BY <3>3, <3>4
    <3>6. /\ q \in [1 .. n - 1 -> Q]
          /\ \A i, j \in 1 .. n - 1 : i < j => q[i] < q[j]
      BY <3>3, <3>5
    <3> DEFINE p == [i \in 1 .. n |-> IF i = n THEN m ELSE q[i]]
    <3>7. p \in [1 .. n -> R] /\ p[n] = m /\ \A i \in 1 .. n - 1 : p[i] = q[i]
      BY <2>1, <3>1, <3>2, <3>3, <3>6
    <3>8. ASSUME NEW i \in 1 .. n - 1
          PROVE  q[i] < m
      <4>1. q[i] \in Q
        BY <3>6
      <4>2. q[i] \in R /\ q[i] # m
        BY <3>2, <4>1
      <4>3. q[i] <= m /\ q[i] \in Nat /\ m \in Nat
        BY <2>1, <3>1, <4>2
      <4> QED
        BY <4>2, <4>3
    <3> HIDE DEF p
    <3>9. ASSUME NEW i \in 1 .. n, NEW j \in 1 .. n, i < j
          PROVE  p[i] < p[j]
      <4>1. i \in 1 .. n - 1 /\ (j = n \/ j \in 1 .. n - 1)
        BY <2>1, <3>9
      <4> QED
        BY <3>6, <3>7, <3>8, <3>9, <4>1
    <3>10. Walk(R, p)
      BY <3>7, <3>9
    <3> QED
      BY <3>10
  <2> QED
    BY <2>2, <2>3
<1>3. Sizes \in SUBSET Nat
  BY <1>1
<1>4. Sizes = {}
  <2>1. SUFFICES ASSUME Sizes # {} PROVE FALSE
    OBVIOUS
  <2>2. PICK n \in Sizes : \A k \in Sizes : n <= k
    <3> HIDE DEF Sizes
    <3> QED
      BY <1>3, <2>1, LeastElement
  <2>3. PICK R \in Unwalked : n = Cardinality(R)
    OBVIOUS
  <2> QED
    BY <1>2, <2>2, <2>3
<1>5. S \notin Unwalked
  BY <1>4
<1> QED
  BY <1>5

\* Every worker of the set comes up, each once, in ascending order.
LEMMA AscendingFacts ==
  ASSUME NEW b \in Nat, NEW S \in SUBSET (0 .. b)
  PROVE  /\ Cardinality(S) \in Nat
         /\ Ascending(S) \in [1 .. Cardinality(S) -> S]
         /\ \A s \in S : \E i \in 1 .. Cardinality(S) : Ascending(S)[i] = s
<1> PICK n : n = Cardinality(S)
  OBVIOUS
<1> PICK q : q = Ascending(S)
  OBVIOUS
<1>1. n \in Nat /\ IsFiniteSet(S) /\ \A s \in S : s \in Nat
  BY FiniteBelow
<1>2. q \in [1 .. n -> S] /\ \A i, j \in 1 .. n : i < j => q[i] < q[j]
  BY AscendingExists DEF Ascending
<1>3. ASSUME NEW i \in 1 .. n, NEW j \in 1 .. n, q[i] = q[j]
      PROVE  i = j
  <2>1. q[i] \in Nat
    BY <1>1, <1>2
  <2> QED
    BY <1>1, <1>2, <1>3, <2>1
<1>4. q \in Injection(1 .. n, S)
  BY <1>2, <1>3 DEF Injection, IsInjective
<1>5. Cardinality(1 .. n) = n
  BY <1>1, FS_Interval
<1>6. q \in Surjection(1 .. n, S)
  BY <1>1, <1>4, <1>5, FS_Injection
<1> QED
  BY <1>1, <1>2, <1>6 DEF Surjection

-----------------------------------------------------------------------------
(* Logical steps.                                                            *)

\* The equation assign_depths solves.
Depth(f, t) ==
  IF deps[t] = {} THEN 0 ELSE 1 + Greatest({f[d] : d \in deps[t]})

LEMMA DependenciesPrecede ==
  ASSUME deps \in Plans, NEW t \in Task, NEW d \in deps[t]
  PROVE  d \in Task /\ d \in 1 .. t - 1
  BY CountsAreNatural DEF Plans, Task

\* A task's depth is a matter of the tasks before it.
LEMMA DepthIsLocal ==
  ASSUME deps \in Plans, NEW t \in Task, NEW f, NEW g,
         \A d \in 1 .. t - 1 : g[d] = f[d]
  PROVE  Depth(g, t) = Depth(f, t)
<1>1. \A d \in deps[t] : g[d] = f[d]
  BY DependenciesPrecede
<1>2. {g[d] : d \in deps[t]} = {f[d] : d \in deps[t]}
  BY <1>1
<1> QED
  BY <1>2 DEF Depth

LEMMA DepthsExist ==
  ASSUME deps \in Plans
  PROVE  \E f : f = [t \in Task |-> Depth(f, t)]
<1> DEFINE Solves(f, n) == \A t \in 1 .. n : f[t] = Depth(f, t)
           Unsolved == {n \in 0 .. NumTasks : \A f : ~ Solves(f, n)}
<1>1. NumTasks \in Nat
  BY CountsAreNatural
<1>2. ASSUME NEW k \in Unsolved, \A j \in Unsolved : k <= j
      PROVE  FALSE
  <2>1. k \in 0 .. NumTasks
    OBVIOUS
  <2>2. k # 0
    <3>1. \A f : Solves(f, 0)
      OBVIOUS
    <3> QED
      BY <3>1
  <2>3. k - 1 \in 0 .. NumTasks /\ k - 1 \notin Unsolved
    BY <1>1, <1>2, <2>1, <2>2
  <2>4. PICK f : Solves(f, k - 1)
    BY <2>3
  <2> DEFINE g == [t \in 1 .. k |-> IF t < k THEN f[t] ELSE Depth(f, k)]
  <2>5. g[k] = Depth(f, k) /\ \A t \in 1 .. k - 1 : g[t] = f[t]
    BY <1>1, <2>1, <2>2
  <2> HIDE DEF g
  <2>6. ASSUME NEW t \in 1 .. k
        PROVE  g[t] = Depth(g, t)
    <3>1. t \in Task
      BY <1>1, <2>1 DEF Task
    <3>2. \A d \in 1 .. t - 1 : d \in 1 .. k - 1
      BY <1>1, <2>1
    <3>3. Depth(g, t) = Depth(f, t)
      BY <2>5, <3>1, <3>2, DepthIsLocal
    <3>4. CASE t = k
      BY <2>5, <3>3, <3>4
    <3>5. CASE t \in 1 .. k - 1
      BY <2>4, <2>5, <3>3, <3>5
    <3> QED
      BY <1>1, <2>1, <3>4, <3>5
  <2>7. Solves(g, k)
    BY <2>6
  <2> QED
    BY <2>7
<1>3. Unsolved = {}
  <2>1. Unsolved \in SUBSET Nat
    BY <1>1
  <2>2. Unsolved # {} => \E k \in Unsolved : \A j \in Unsolved : k <= j
    <3> HIDE DEF Unsolved
    <3> QED
      BY <2>1, LeastElement
  <2> QED
    BY <1>2, <2>2
<1>4. PICK f : Solves(f, NumTasks)
  BY <1>1, <1>3
<1> DEFINE h == [t \in Task |-> f[t]]
<1>5. \A t \in Task : h[t] = f[t]
  OBVIOUS
<1>6. ASSUME NEW t \in Task
      PROVE  h[t] = Depth(h, t)
  <2>1. \A d \in 1 .. t - 1 : d \in Task
    BY <1>1 DEF Task
  <2>2. Depth(h, t) = Depth(f, t)
    <3> HIDE DEF h
    <3> QED
      BY <1>5, <2>1, DepthIsLocal
  <2> QED
    BY <1>4, <1>5, <2>2 DEF Task
<1>7. h = [t \in Task |-> h[t]]
  OBVIOUS
<1> HIDE DEF h
<1>8. h = [t \in Task |-> Depth(h, t)]
  BY <1>6, <1>7
<1> QED
  BY <1>8

LEMMA LogicalStepSolves ==
  ASSUME deps \in Plans
  PROVE  LogicalStep = [t \in Task |-> Depth(LogicalStep, t)]
<1>1. LogicalStep = CHOOSE f : f = [t \in Task |-> Depth(f, t)]
  BY DEF LogicalStep, Depth
<1>2. PICK f : f = [t \in Task |-> Depth(f, t)]
  BY DepthsExist
<1> QED
  BY <1>1, <1>2

LEMMA GreatestFacts ==
  ASSUME NEW S \in SUBSET Nat, S # {}, NEW b \in Nat, \A n \in S : n <= b
  PROVE  Greatest(S) \in S /\ \A n \in S : n <= Greatest(S)
<1>1. \E k \in S : \A n \in S : n <= k
  BY GreatestElement
<1> QED
  BY <1>1 DEF Greatest

\* The depth of a task whose dependencies have theirs.
LEMMA DepthAboveDependencies ==
  ASSUME deps \in Plans, NEW t \in Task,
         \A d \in deps[t] : LogicalStep[d] \in 0 .. d - 1
  PROVE  /\ LogicalStep[t] \in 0 .. t - 1
         /\ \A d \in deps[t] : LogicalStep[d] < LogicalStep[t]
<1>1. LogicalStep[t] = Depth(LogicalStep, t)
  <2>1. LogicalStep = [u \in Task |-> Depth(LogicalStep, u)]
    BY LogicalStepSolves
  <2> PICK f : f = LogicalStep
    OBVIOUS
  <2> DEFINE h == [u \in Task |-> Depth(LogicalStep, u)]
  <2>2. h[t] = Depth(LogicalStep, t)
    OBVIOUS
  <2> QED
    BY <2>1, <2>2
<1>2. t \in Nat \ {0}
  BY DEF Task
<1>3. CASE deps[t] = {}
  BY <1>1, <1>2, <1>3 DEF Depth
<1>4. CASE deps[t] # {}
  <2> DEFINE D == {LogicalStep[d] : d \in deps[t]}
  <2>1. \A d \in deps[t] : d \in 1 .. t - 1
    BY DependenciesPrecede
  <2>2. \A d \in deps[t] : LogicalStep[d] \in Nat /\ LogicalStep[d] <= t - 2 /\ t - 2 \in Nat
    BY <1>2, <2>1
  <2>3. D # {} /\ t - 2 \in Nat
    BY <1>4, <2>2
  <2>4. D \in SUBSET Nat /\ \A n \in D : n <= t - 2
    BY <2>2
  <2>5. Greatest(D) \in D /\ \A n \in D : n <= Greatest(D)
    <3> HIDE DEF D
    <3> QED
      BY <2>3, <2>4, GreatestFacts
  <2>6. LogicalStep[t] = 1 + Greatest(D)
    BY <1>1, <1>4 DEF Depth
  <2>7. \A d \in deps[t] : LogicalStep[d] \in D
    OBVIOUS
  <2> HIDE DEF D
  <2>8. Greatest(D) \in Nat /\ Greatest(D) <= t - 2
    BY <2>4, <2>5
  <2>9. \A d \in deps[t] : LogicalStep[d] <= Greatest(D) /\ LogicalStep[d] \in Nat
    BY <2>2, <2>5, <2>7
  <2> QED
    BY <1>2, <2>6, <2>8, <2>9
<1> QED
  BY <1>3, <1>4

\* Steps are numbered from 0, below the number of tasks, and a task is in a
\* later step than the tasks it depends on.
LEMMA StepsAreDepths ==
  ASSUME deps \in Plans
  PROVE  \A t \in Task : /\ LogicalStep[t] \in 0 .. t - 1
                         /\ \A d \in deps[t] : LogicalStep[d] < LogicalStep[t]
<1> DEFINE Wrong == {t \in Task : LogicalStep[t] \notin 0 .. t - 1}
<1>1. Wrong = {}
  <2>1. SUFFICES ASSUME Wrong # {} PROVE FALSE
    OBVIOUS
  <2>2. Wrong \in SUBSET Nat
    BY DEF Task
  <2>3. PICK t \in Wrong : \A u \in Wrong : t <= u
    <3> HIDE DEF Wrong
    <3> QED
      BY <2>1, <2>2, LeastElement
  <2>4. ASSUME NEW d \in deps[t]
        PROVE  LogicalStep[d] \in 0 .. d - 1
    <3>1. d \in Task /\ d \in 1 .. t - 1
      BY DependenciesPrecede
    <3>2. ~ (t <= d)
      BY <2>2, <3>1
    <3>3. d \notin Wrong
      BY <2>3, <3>2
    <3> QED
      BY <3>1, <3>3
  <2>5. t \in Task
    OBVIOUS
  <2>6. LogicalStep[t] \in 0 .. t - 1
    BY <2>4, <2>5, DepthAboveDependencies
  <2> QED
    BY <2>6
<1>2. \A t \in Task : LogicalStep[t] \in 0 .. t - 1
  BY <1>1
<1>3. ASSUME NEW t \in Task
      PROVE  \A d \in deps[t] : LogicalStep[d] < LogicalStep[t]
  <2>1. \A d \in deps[t] : LogicalStep[d] \in 0 .. d - 1
    BY <1>2, DependenciesPrecede
  <2> QED
    BY <2>1, DepthAboveDependencies
<1> QED
  BY <1>2, <1>3

\* There is a last step, and it is a step of some task.
LEMMA LastStepFacts ==
  ASSUME deps \in Plans
  PROVE  /\ LastStep \in 0 .. NumTasks - 1
         /\ \A t \in Task : LogicalStep[t] <= LastStep
<1>1. NumTasks \in Nat \ {0} /\ 1 \in Task
  BY CountsAreNatural DEF Task
<1>2. \A t \in Task : LogicalStep[t] \in Nat /\ LogicalStep[t] <= NumTasks - 1
                      /\ NumTasks - 1 \in Nat
  <2>1. \A t \in Task : LogicalStep[t] \in 0 .. t - 1
    BY StepsAreDepths
  <2>2. \A t \in Task : t \in 1 .. NumTasks
    BY DEF Task
  <2> QED
    BY <1>1, <2>1, <2>2
<1> DEFINE Steps == {LogicalStep[t] : t \in Task}
<1>3. Steps \in SUBSET Nat /\ Steps # {} /\ \A n \in Steps : n <= NumTasks - 1
  BY <1>1, <1>2
<1>4. PICK m \in Steps : \A n \in Steps : n <= m
  <2> HIDE DEF Steps
  <2>1. NumTasks - 1 \in Nat
    BY <1>1
  <2> QED
    BY <1>3, <2>1, GreatestElement
<1>5. PICK t \in Task : m = LogicalStep[t]
  OBVIOUS
<1>6. m \in 0 .. NumTasks /\ TasksAt(m) # {} /\ \A u \in Task : LogicalStep[u] <= m
  <2>1. t \in TasksAt(m)
    BY <1>5 DEF TasksAt
  <2>2. \A u \in Task : LogicalStep[u] <= m
    BY <1>4
  <2> QED
    BY <1>1, <1>2, <1>5, <2>1, <2>2
<1>7. /\ LastStep \in 0 .. NumTasks /\ TasksAt(LastStep) # {}
      /\ \A u \in Task : LogicalStep[u] <= LastStep
  BY <1>6 DEF LastStep
<1>8. PICK u \in Task : LogicalStep[u] = LastStep
  BY <1>7 DEF TasksAt
<1>9. LastStep \in 0 .. NumTasks - 1
  BY <1>1, <1>2, <1>8
<1> QED
  BY <1>7, <1>9

-----------------------------------------------------------------------------
(* The invariant.                                                            *)

Entry == [type : MessageTypes, task : Task \cup {NoTask}, worker : Worker,
          step : Nat, attempt : 0 .. 2]

Running == phase \in {"dispatch", "collect", "commit"}

IsBarrier(type) == type \in {"barrier_wait", "barrier_release"}

\* Messages are of the steps run so far and name the task they start; those of
\* a barrier end their step.
LogInStep ==
  /\ log \in Seq(Entry)
  /\ \A i \in DOMAIN log : log[i].step <= step
  /\ \A i \in DOMAIN log : log[i].type = "task_start" => log[i].task \in Task
  /\ Running => \A i \in DOMAIN log : IsBarrier(log[i].type) => log[i].step < step

Settled(t) == task_states[t] \in {"completed", "failed"}

\* While steps are run, the tasks of earlier steps are done or given up, those
\* of later ones wait, and those of this one are where the phase says.
Settling ==
  Running => \A t \in Task :
    /\ LogicalStep[t] < step => Settled(t)
    /\ LogicalStep[t] > step => task_states[t] = "pending"
    /\ LogicalStep[t] = step =>
         \/ Settled(t)
         \/ phase = "dispatch" /\ task_states[t] = "pending"
         \/ t \in TasksIn(executable)

ExecutableRuns == \A t \in TasksIn(executable) : task_states[t] = "running"

\* The tasks of completed are those whose result was logged.
ResultsLogged ==
  \A t \in Task : Committed(t) <=>
    \E i \in DOMAIN log : Sent(i, "task_result") /\ log[i].task = t

NoStartAfter(j, t) ==
  \A k \in (j + 1) .. Len(log) : Sent(k, "task_start") => log[k].task # t

\* A task that is executed was started last on the worker it was handed to.
StartedOn(t, w) ==
  \E j \in DOMAIN log :
    log[j] = Message("task_start", t, w, AttemptOf(t)) /\ NoStartAfter(j, t)

ExecutableStarted ==
  \A t \in Task, w \in Worker :
    (\E k \in DOMAIN executable : executable[k] = <<t, w>>) => StartedOn(t, w)

\* With the barrier policy, who answered in an earlier step was released.
ReleasedAfter(i) ==
  \E k \in (i + 1) .. Len(log) :
    Sent(k, "barrier_release") /\ log[k].worker = log[i].worker

Released ==
  config.barrier /\ Running =>
    \A i \in DOMAIN log :
      Sent(i, "task_result") /\ log[i].step < step => ReleasedAfter(i)

\* The task to fail is tried again at most once.
RetriedOnce ==
  /\ retries \in 0 .. 1
  /\ retries # 0 => \E t \in Task : t = config.fail_task_once /\ task_states[t] # "pending"

Fixed == deps \in Plans /\ config \in Configs

Messages ==
  /\ Fixed /\ LogInStep /\ Settling /\ ExecutableRuns /\ ResultsLogged
  /\ ExecutableStarted /\ Released

-----------------------------------------------------------------------------
(* What a step adds to the log.                                              *)

\* p is q with elements of R behind it.
GrowsBy(q, p, R) ==
  /\ p \in Seq(Entry) /\ Len(q) <= Len(p)
  /\ \A i \in 1 .. Len(q) : p[i] = q[i]
  /\ \A i \in (Len(q) + 1) .. Len(p) : p[i] \in R

LEMMA ConcatFacts ==
  ASSUME NEW S, NEW p \in Seq(S), NEW r \in Seq(S)
  PROVE  /\ p \o r \in Seq(S) /\ Len(p \o r) = Len(p) + Len(r)
         /\ Len(p) \in Nat /\ Len(r) \in Nat
         /\ \A i \in 1 .. Len(p) : (p \o r)[i] = p[i]
         /\ \A i \in 1 .. Len(r) : (p \o r)[Len(p) + i] = r[i]
  OBVIOUS

LEMMA SubsetSeq ==
  ASSUME NEW S, NEW R \in SUBSET S, NEW r \in Seq(R)
  PROVE  r \in Seq(S)
<1>1. \A i \in 1 .. Len(r) : r[i] \in S
  OBVIOUS
<1> QED
  BY <1>1

LEMMA StillGrows ==
  ASSUME NEW q \in Seq(Entry), NEW p, NEW R \in SUBSET Entry, GrowsBy(q, p, R),
         NEW r \in Seq(R)
  PROVE  GrowsBy(q, p \o r, R)
<1> PICK n \in Nat : n = Len(q)
  OBVIOUS
<1> PICK m \in Nat : m = Len(p) /\ p \in Seq(Entry)
  BY DEF GrowsBy
<1> PICK l \in Nat : l = Len(r)
  OBVIOUS
<1>1. r \in Seq(Entry)
  BY SubsetSeq
<1>2. /\ p \o r \in Seq(Entry) /\ Len(p \o r) = m + l
      /\ \A i \in 1 .. m : (p \o r)[i] = p[i]
      /\ \A i \in (m + 1) .. (m + l) : (p \o r)[i] = r[i - m]
  BY <1>1
<1>3. n <= m /\ \A i \in 1 .. n : p[i] = q[i]
  BY DEF GrowsBy
<1>4. ASSUME NEW i \in (n + 1) .. (m + l)
      PROVE  (p \o r)[i] \in R
  <2>1. CASE i <= m
    BY <1>2, <1>3, <1>4, <2>1 DEF GrowsBy
  <2>2. CASE i > m
    <3>1. i - m \in 1 .. l /\ i \in (m + 1) .. (m + l)
      BY <1>3, <1>4, <2>2
    <3> QED
      BY <1>2, <3>1
  <2> QED
    BY <1>3, <1>4, <2>1, <2>2
<1>5. \A i \in 1 .. n : (p \o r)[i] = q[i]
  BY <1>2, <1>3
<1> QED
  BY <1>2, <1>3, <1>4, <1>5 DEF GrowsBy

LEMMA Grows ==
  ASSUME NEW q \in Seq(Entry), NEW R \in SUBSET Entry, NEW r \in Seq(R)
  PROVE  GrowsBy(q, q \o r, R)
<1>1. GrowsBy(q, q, R)
  BY DEF GrowsBy
<1> QED
  BY <1>1, StillGrows

LEMMA MessageType ==
  ASSUME step \in Nat, NEW type \in MessageTypes, NEW t \in Task \cup {NoTask},
         NEW w \in Worker, NEW a \in 0 .. 2
  PROVE  /\ Message(type, t, w, a) \in Entry
         /\ Message(type, t, w, a).type = type /\ Message(type, t, w, a).task = t
         /\ Message(type, t, w, a).worker = w /\ Message(type, t, w, a).step = step
  BY DEF Message, Entry

\* What is sent when task t is dispatched.
Handed(t) ==
  {e \in Entry : /\ e.task = t /\ e.step = step
                 /\ e.type \in {"task_assign", "task_start", "task_failure"}}

\* Dispatched, with the messages: the last one starts t where it is executed.
HandedOut(t) ==
  /\ phase = "dispatch" /\ t \in Undispatched
  /\ UNCHANGED <<deps, config, phase, step, children, results, completed,
                 state_version, snapshots, status>>
  /\ GrowsBy(log, log', Handed(t))
  /\ \/ executable' = executable /\ task_states' = [task_states EXCEPT ![t] = "failed"]
     \/ /\ task_states' = [task_states EXCEPT ![t] = "running"]
        /\ \E w \in Worker :
             /\ executable' = Append(executable, <<t, w>>)
             /\ Len(log') > Len(log)
             /\ log'[Len(log')] = Message("task_start", t, w, AttemptOf(t))
  /\ \/ UNCHANGED retries
     \/ config.fail_task_once = t /\ retries' = retries + 1
  /\ diagnostics' = diagnostics \/ diagnostics' = diagnostics \cup {"CRR-RUN-004"}

LEMMA AssignmentSends ==
  ASSUME step \in Nat, NEW t \in Task, NEW w \in Worker, NEW a \in {1, 2}
  PROVE  /\ Assignment(t, w, a) \in Seq(Handed(t)) /\ Len(Assignment(t, w, a)) = 2
         /\ Assignment(t, w, a)[2] = Message("task_start", t, w, a)
<1> DEFINE x == Message("task_assign", t, w, a)
           y == Message("task_start", t, w, a)
<1>1. x \in Entry /\ x.type = "task_assign" /\ x.task = t /\ x.step = step
      /\ y \in Entry /\ y.type = "task_start" /\ y.task = t /\ y.step = step
  BY MessageType DEF MessageTypes
<1>2. Assignment(t, w, a) = <<x, y>>
  BY DEF Assignment
<1> HIDE DEF x, y
<1>3. x \in Handed(t) /\ y \in Handed(t)
  BY <1>1 DEF Handed
<1>4. Assignment(t, w, a) \in Seq(Handed(t))
  BY <1>2, <1>3
<1> QED
  BY <1>2, <1>4 DEF y

\* An assignment on top of what was sent.
LEMMA AssignmentEnds ==
  ASSUME NEW p, NEW t \in Task, NEW w \in Worker, NEW a \in {1, 2}, NEW q,
         step \in Nat, log \in Seq(Entry), GrowsBy(log, p, Handed(t)),
         q = p \o Assignment(t, w, a)
  PROVE  Len(q) > Len(log) /\ q[Len(q)] = Message("task_start", t, w, a)
<1> PICK r : r = Assignment(t, w, a)
  OBVIOUS
<1>1. r \in Seq(Handed(t)) /\ Len(r) = 2 /\ r[2] = Message("task_start", t, w, a)
  BY AssignmentSends
<1>2. p \in Seq(Entry) /\ Len(log) <= Len(p) /\ Len(log) \in Nat
  BY DEF GrowsBy
<1>3. r \in Seq(Entry)
  BY <1>1, SubsetSeq DEF Handed
<1>4. Len(q) = Len(p) + 2 /\ q[Len(p) + 2] = r[2]
  <2>1. q = p \o r
    OBVIOUS
  <2>2. /\ Len(q) = Len(p) + Len(r) /\ Len(p) \in Nat
        /\ \A i \in 1 .. Len(r) : q[Len(p) + i] = r[i]
    BY <1>2, <1>3, <2>1, ConcatFacts
  <2>3. 2 \in 1 .. Len(r)
    BY <1>1
  <2> QED
    BY <1>1, <2>2, <2>3
<1> QED
  BY <1>1, <1>2, <1>4

LEMMA DispatchHandsOut ==
  ASSUME Types, log \in Seq(Entry), Dispatch
  PROVE  \E t \in Task : HandedOut(t)
<1> DEFINE index == Cardinality(TasksAt(step)) - Cardinality(Undispatched)
           v == index % NumWorkers
<1>1. PICK w : w = v
  OBVIOUS
<1>2. w \in Worker /\ NextWorker(w) \in Worker
  BY <1>1, DispatchedWorker
<1>3. PICK t \in Undispatched :
        LET lost == Append(Assignment(t, w, 1), Message("task_failure", t, w, 1)) IN
        \/ /\ config.fail_task_once # t
           /\ log' = log \o Assignment(t, w, 1)
           /\ executable' = Append(executable, <<t, w>>)
           /\ task_states' = [task_states EXCEPT ![t] = "running"]
           /\ UNCHANGED <<worker_states, retries, diagnostics>>
        \/ /\ config.fail_task_once = t
           /\ retries' = retries + 1
           /\ \/ /\ log' = log \o lost
                 /\ task_states' = [task_states EXCEPT ![t] = "failed"]
                 /\ diagnostics' = diagnostics \cup {"CRR-RUN-004"}
                 /\ UNCHANGED executable
              \/ /\ log' = log \o lost \o Assignment(t, NextWorker(w), 2)
                 /\ task_states' = [task_states EXCEPT ![t] = "running"]
                 /\ executable' = Append(executable, <<t, NextWorker(w)>>)
                 /\ UNCHANGED diagnostics
  BY <1>1 DEF Dispatch
<1>4. t \in Task /\ step \in Nat
  BY DEF Undispatched, TasksAt, Types
<1>5. phase = "dispatch" /\ UNCHANGED <<deps, config, phase, step, children, results,
        completed, state_version, snapshots, status>>
  BY DEF Dispatch
<1> DEFINE lost == Append(Assignment(t, w, 1), Message("task_failure", t, w, 1))
<1>6. Handed(t) \in SUBSET Entry
  BY DEF Handed
<1>7. GrowsBy(log, log, Handed(t))
  BY DEF GrowsBy
<1>8. lost \in Seq(Handed(t))
  <2>1. Message("task_failure", t, w, 1) \in Handed(t)
    <3>1. "task_failure" \in MessageTypes /\ t \in Task \cup {NoTask} /\ 1 \in 0 .. 2
      BY <1>4 DEF MessageTypes
    <3>2. /\ Message("task_failure", t, w, 1) \in Entry
          /\ Message("task_failure", t, w, 1).type = "task_failure"
          /\ Message("task_failure", t, w, 1).task = t
          /\ Message("task_failure", t, w, 1).step = step
      BY <1>2, <1>4, <3>1, MessageType
    <3> QED
      BY <3>2 DEF Handed
  <2>2. Assignment(t, w, 1) \in Seq(Handed(t))
    BY <1>2, <1>4, AssignmentSends
  <2> QED
    BY <2>1, <2>2, AppendFacts
<1> HIDE DEF lost
<1>9. GrowsBy(log, log \o lost, Handed(t))
  BY <1>6, <1>8, Grows
<1>10. CASE /\ config.fail_task_once # t
            /\ log' = log \o Assignment(t, w, 1)
            /\ executable' = Append(executable, <<t, w>>)
            /\ task_states' = [task_states EXCEPT ![t] = "running"]
            /\ UNCHANGED <<worker_states, retries, diagnostics>>
  <2>1. /\ GrowsBy(log, log', Handed(t)) /\ Len(log') > Len(log)
        /\ log'[Len(log')] = Message("task_start", t, w, 1)
    <3> PICK q : q = log \o Assignment(t, w, 1)
      OBVIOUS
    <3>1. 1 \in {1, 2}
      OBVIOUS
    <3>2. GrowsBy(log, q, Handed(t))
      <4>1. Assignment(t, w, 1) \in Seq(Handed(t))
        BY <1>2, <1>4, <3>1, AssignmentSends
      <4> QED
        BY <1>6, <1>7, <4>1, StillGrows
    <3>3. Len(q) > Len(log) /\ q[Len(q)] = Message("task_start", t, w, 1)
      BY <1>2, <1>4, <1>7, <3>1, AssignmentEnds
    <3> QED
      BY <1>10, <3>2, <3>3
  <2>2. AttemptOf(t) = 1
    BY <1>10 DEF AttemptOf
  <2> QED
    BY <1>2, <1>3, <1>4, <1>5, <1>10, <2>1, <2>2 DEF HandedOut
<1>11. CASE /\ config.fail_task_once = t
            /\ retries' = retries + 1
            /\ log' = log \o lost
            /\ task_states' = [task_states EXCEPT ![t] = "failed"]
            /\ diagnostics' = diagnostics \cup {"CRR-RUN-004"}
            /\ UNCHANGED executable
  BY <1>3, <1>4, <1>5, <1>9, <1>11 DEF HandedOut
<1>12. CASE /\ config.fail_task_once = t
            /\ retries' = retries + 1
            /\ log' = log \o lost \o Assignment(t, NextWorker(w), 2)
            /\ task_states' = [task_states EXCEPT ![t] = "running"]
            /\ executable' = Append(executable, <<t, NextWorker(w)>>)
            /\ UNCHANGED diagnostics
  <2> PICK u : u = NextWorker(w)
    OBVIOUS
  <2>1. /\ GrowsBy(log, log', Handed(t)) /\ Len(log') > Len(log)
        /\ log'[Len(log')] = Message("task_start", t, u, 2)
    <3> PICK q : q = (log \o lost) \o Assignment(t, u, 2)
      OBVIOUS
    <3>1. 2 \in {1, 2}
      OBVIOUS
    <3>2. GrowsBy(log, q, Handed(t))
      <4>1. Assignment(t, u, 2) \in Seq(Handed(t))
        BY <1>2, <1>4, <3>1, AssignmentSends
      <4> QED
        BY <1>6, <1>9, <4>1, StillGrows
    <3>3. Len(q) > Len(log) /\ q[Len(q)] = Message("task_start", t, u, 2)
      BY <1>2, <1>4, <1>9, <3>1, AssignmentEnds
    <3> QED
      BY <1>12, <3>2, <3>3
  <2>2. AttemptOf(t) = 2
    BY <1>12 DEF AttemptOf
  <2> QED
    BY <1>2, <1>3, <1>4, <1>5, <1>12, <2>1, <2>2 DEF HandedOut
<1> QED
  BY <1>3, <1>10, <1>11, <1>12 DEF lost

\* The result that is committed, of the task and the worker at the head.
LEMMA CommitLogs ==
  ASSUME Types, Matched, log \in Seq(Entry), Commit
  PROVE  \E t \in Task, w \in Worker :
           LET m == Message("task_result", t, w, AttemptOf(t)) IN
           /\ m \in Entry
           /\ log' = Append(log, m) /\ GrowsBy(log, log', {m})
           /\ executable # <<>> /\ executable[1] = <<t, w>>
           /\ ~ Committed(t) /\ completed' = Append(completed, t)
           /\ task_states' = [task_states EXCEPT ![t] = "completed"]
<1> DEFINE t == Head(results)
           w == Head(executable)[2]
           m == Message("task_result", t, w, AttemptOf(t))
<1>1. /\ phase = "commit" /\ results # <<>> /\ ~ Committed(t)
      /\ log' = Append(log, m) /\ completed' = Append(completed, t)
      /\ task_states' = [task_states EXCEPT ![t] = "completed"]
  BY DEF Commit
<1>2. t \in Task /\ t = results[1] /\ 1 \in DOMAIN results
  BY <1>1, TailFacts DEF Types
<1>3. executable # <<>>
  BY <1>1, TailFacts DEF Types, Matched
<1>4. Head(executable) = executable[1] /\ executable[1] \in Pair
  BY <1>3, TailFacts DEF Types
<1>5. t = executable[1][1]
  BY <1>2 DEF Matched
<1>6. w \in Worker /\ executable[1] = <<t, w>>
  BY <1>4, <1>5 DEF Pair
<1>7. m \in Entry
  <2>1. "task_result" \in MessageTypes /\ AttemptOf(t) \in 0 .. 2 /\ step \in Nat
    BY DEF MessageTypes, AttemptOf, Types
  <2> QED
    BY <1>2, <1>6, <2>1, MessageType
<1> HIDE DEF m
<1>8. GrowsBy(log, log', {m})
  <2>1. Append(log, m) = log \o <<m>> /\ <<m>> \in Seq({m}) /\ {m} \in SUBSET Entry
    BY <1>7
  <2> QED
    BY <1>1, <2>1, Grows
<1> QED
  BY <1>1, <1>2, <1>3, <1>6, <1>7, <1>8 DEF m

\* The messages of a barrier.
Closing == {e \in Entry : IsBarrier(e.type) /\ e.step = step}

LEMMA BarrierMessages ==
  ASSUME Types, log \in Seq(Entry), NEW type, IsBarrier(type)
  PROVE  /\ ToStepWorkers(type) \in Seq(Closing)
         /\ \A i \in 1 .. Len(ToStepWorkers(type)) : ToStepWorkers(type)[i].type = type
         /\ \A w \in StepWorkers : \E i \in 1 .. Len(ToStepWorkers(type)) :
              ToStepWorkers(type)[i].worker = w
<1>1. NumWorkers - 1 \in Nat /\ Worker = 0 .. NumWorkers - 1
  BY CountsAreNatural DEF Worker
<1>2. StepWorkers \in SUBSET Worker
  <2>1. \A i \in DOMAIN log : log[i] \in Entry
    OBVIOUS
  <2>2. \A i \in DOMAIN log : log[i].worker \in Worker
    BY <2>1 DEF Entry
  <2> QED
    BY <2>2 DEF StepWorkers
<1> PICK S : S = StepWorkers
  OBVIOUS
<1> PICK c : c = Cardinality(S)
  OBVIOUS
<1> PICK q : q = Ascending(S)
  OBVIOUS
<1>3. /\ c \in Nat /\ q \in [1 .. c -> S]
      /\ \A w \in S : \E i \in 1 .. c : q[i] = w
  BY <1>1, <1>2, AscendingFacts
<1> DEFINE m == [k \in 1 .. c |-> Message(type, NoTask, q[k], 0)]
<1>4. ToStepWorkers(type) = m
  BY DEF ToStepWorkers
<1>5. ASSUME NEW k \in 1 .. c
      PROVE  m[k] \in Closing /\ m[k].type = type /\ m[k].worker = q[k]
  <2>1. q[k] \in Worker
    BY <1>2, <1>3
  <2>2. /\ type \in MessageTypes /\ NoTask \in Task \cup {NoTask}
        /\ 0 \in 0 .. 2 /\ step \in Nat
    BY DEF MessageTypes, IsBarrier, Types
  <2>3. PICK w \in Worker : w = q[k]
    BY <2>1
  <2>4. PICK e : e = Message(type, NoTask, w, 0)
    OBVIOUS
  <2>5. e \in Entry /\ e.type = type /\ e.worker = w /\ e.step = step
    BY <2>2, <2>4 DEF Message, Entry
  <2>6. m[k] = e
    BY <2>3, <2>4
  <2>7. e \in Closing
    BY <2>5 DEF Closing
  <2> QED
    BY <2>3, <2>5, <2>6, <2>7
<1>6. DOMAIN m = 1 .. c
  OBVIOUS
<1> HIDE DEF m
<1>7. m \in Seq(Closing) /\ Len(m) = c
  <2>1. m \in [1 .. c -> Closing]
    <3>1. m = [k \in 1 .. c |-> m[k]]
      BY DEF m
    <3> QED
      BY <1>5, <3>1
  <2> QED
    BY <1>3, <2>1
<1>8. \A w \in StepWorkers : \E i \in 1 .. c : m[i].worker = w
  BY <1>3, <1>5
<1> QED
  BY <1>4, <1>5, <1>7, <1>8

\* With the barrier policy a step ends with waits, then releases, one of each
\* for every worker that returned a result in it.
LEMMA EndStepLogs ==
  ASSUME Types, log \in Seq(Entry), EndStep
  PROVE  /\ GrowsBy(log, log', Closing)
         /\ config.barrier => \E b \in Len(log) .. Len(log') :
              /\ \A i \in (Len(log) + 1) .. b : log'[i].type = "barrier_wait"
              /\ \A i \in (b + 1) .. Len(log') : log'[i].type = "barrier_release"
              /\ \A w \in StepWorkers : \E i \in (b + 1) .. Len(log') :
                   log'[i].worker = w
<1>1. Closing \in SUBSET Entry
  BY DEF Closing
<1>2. CASE config.barrier
  <2> PICK wait : wait = ToStepWorkers("barrier_wait")
    OBVIOUS
  <2> PICK release : release = ToStepWorkers("barrier_release")
    OBVIOUS
  <2>1. log' = (log \o wait) \o release
    BY <1>2 DEF EndStep, BarrierTypes
  <2>2. /\ wait \in Seq(Closing) /\ release \in Seq(Closing)
        /\ \A i \in 1 .. Len(wait) : wait[i].type = "barrier_wait"
        /\ \A i \in 1 .. Len(release) : release[i].type = "barrier_release"
        /\ \A w \in StepWorkers : \E i \in 1 .. Len(release) : release[i].worker = w
    BY BarrierMessages DEF IsBarrier
  <2>3. wait \in Seq(Entry) /\ release \in Seq(Entry)
    BY <1>1, <2>2, SubsetSeq
  <2>4. GrowsBy(log, log', Closing)
    BY <1>1, <2>1, <2>2, Grows, StillGrows
  <2> PICK x : x = log \o wait
    OBVIOUS
  <2>5. /\ x \in Seq(Entry) /\ Len(x) = Len(log) + Len(wait)
        /\ Len(log) \in Nat /\ Len(wait) \in Nat
        /\ \A i \in 1 .. Len(wait) : x[Len(log) + i] = wait[i]
    BY <2>3, ConcatFacts
  <2>6. /\ Len(log') = Len(x) + Len(release) /\ Len(release) \in Nat /\ Len(x) \in Nat
        /\ \A i \in 1 .. Len(x) : log'[i] = x[i]
        /\ \A i \in 1 .. Len(release) : log'[Len(x) + i] = release[i]
    BY <2>1, <2>3, <2>5, ConcatFacts
  <2> PICK n \in Nat : n = Len(log)
    BY <2>5
  <2> PICK b \in Nat : b = Len(x)
    BY <2>6
  <2> PICK l \in Nat : l = Len(log')
    BY <2>6
  <2>7. n <= b /\ b <= l /\ b - n = Len(wait) /\ l - b = Len(release)
    BY <2>5, <2>6
  <2>8. ASSUME NEW i \in (n + 1) .. b
        PROVE  log'[i].type = "barrier_wait"
    <3>1. i - n \in 1 .. Len(wait) /\ i \in 1 .. Len(x) /\ n + (i - n) = i
      BY <2>7
    <3>2. log'[i] = x[i] /\ x[n + (i - n)] = wait[i - n]
      BY <2>5, <2>6, <3>1
    <3> QED
      BY <2>2, <3>1, <3>2
  <2>9. ASSUME NEW i \in (b + 1) .. l
        PROVE  log'[i].type = "barrier_release"
    <3>1. i - b \in 1 .. Len(release) /\ b + (i - b) = i
      BY <2>7
    <3>2. log'[b + (i - b)] = release[i - b]
      BY <2>6, <3>1
    <3> QED
      BY <2>2, <3>1, <3>2
  <2>10. ASSUME NEW w \in StepWorkers
         PROVE  \E i \in (b + 1) .. l : log'[i].worker = w
    <3>1. PICK k \in 1 .. Len(release) : release[k].worker = w
      BY <2>2
    <3>2. log'[b + k] = release[k]
      BY <2>6, <3>1
    <3>3. b + k \in (b + 1) .. l
      BY <2>7, <3>1
    <3> QED
      BY <3>1, <3>2, <3>3
  <2> QED
    BY <2>4, <2>7, <2>8, <2>9, <2>10
<1>3. CASE ~ config.barrier
  <2>1. log' = log
    BY <1>3 DEF EndStep
  <2> QED
    BY <1>3, <2>1 DEF GrowsBy
<1> QED
  BY <1>2, <1>3

\* What a longer log has in common with the one it grew from.
LEMMA GrownLog ==
  ASSUME log \in Seq(Entry), NEW R, GrowsBy(log, log', R)
  PROVE  /\ Len(log) \in Nat /\ Len(log') \in Nat /\ Len(log) <= Len(log')
         /\ log' \in Seq(Entry)
         /\ DOMAIN log = 1 .. Len(log) /\ DOMAIN log' = 1 .. Len(log')
         /\ \A i \in DOMAIN log : i \in DOMAIN log' /\ log'[i] = log[i]
         /\ \A i \in DOMAIN log' :
              i \in DOMAIN log \/ (i \in (Len(log) + 1) .. Len(log') /\ log'[i] \in R)
<1>1. log' \in Seq(Entry) /\ Len(log) <= Len(log') /\ Len(log) \in Nat
      /\ DOMAIN log = 1 .. Len(log)
  BY DEF GrowsBy
<1>2. Len(log') \in Nat /\ DOMAIN log' = 1 .. Len(log')
  BY <1>1
<1>3. \A i \in 1 .. Len(log') : i \in 1 .. Len(log) \/ i \in (Len(log) + 1) .. Len(log')
  BY <1>1, <1>2
<1>4. \A i \in 1 .. Len(log) : i \in 1 .. Len(log')
  BY <1>1, <1>2
<1> QED
  BY <1>1, <1>2, <1>3, <1>4 DEF GrowsBy
-----------------------------------------------------------------------------
(* The steps.                                                                *)

LEMMA KindsOfSteps ==
  ASSUME Types, log \in Seq(Entry), [Next]_vars
  PROVE  (\E t \in Task : HandedOut(t)) \/ Commit \/ EndStep \/ Quiet
<1>1. Dispatch => \E t \in Task : HandedOut(t)
  BY DispatchHandsOut
<1> QED
  BY <1>1, FourKindsOfSteps

LEMMA TasksInAppend ==
  ASSUME executable \in Seq(Pair), NEW t \in Task, NEW w \in Worker
  PROVE  \A u : u \in TasksIn(Append(executable, <<t, w>>)) <=>
                  u \in TasksIn(executable) \/ u = t
<1>1. <<t, w>> \in Pair /\ <<t, w>>[1] = t
  BY DEF Pair
<1> PICK e \in Pair : e = <<t, w>>
  BY <1>1
<1> PICK n \in Nat : n = Len(executable)
  OBVIOUS
<1> PICK q : q = Append(executable, e)
  OBVIOUS
<1>2. /\ DOMAIN executable = 1 .. n /\ DOMAIN q = 1 .. n + 1
      /\ \A i \in 1 .. n : q[i] = executable[i]
      /\ q[n + 1] = e
  BY AppendFacts
<1>3. \A i \in 1 .. n + 1 : i \in 1 .. n \/ i = n + 1
  OBVIOUS
<1>4. \A i \in 1 .. n : i \in 1 .. n + 1
  OBVIOUS
<1>5. n + 1 \in 1 .. n + 1
  OBVIOUS
<1> QED
  BY <1>1, <1>2, <1>3, <1>4, <1>5 DEF TasksIn

LEMMA TasksInTail ==
  ASSUME Types, InOrder, executable # <<>>
  PROVE  \A u : u \in TasksIn(Tail(executable)) <=>
                  u \in TasksIn(executable) /\ u # executable[1][1]
<1> PICK n \in Nat \ {0} : n = Len(executable)
  BY TailFacts DEF Types
<1> PICK q : q = Tail(executable)
  OBVIOUS
<1>1. /\ DOMAIN executable = 1 .. n /\ DOMAIN q = 1 .. n - 1
      /\ \A i \in 1 .. n - 1 : q[i] = executable[i + 1]
  BY TailFacts DEF Types
<1>2. ASSUME NEW i \in 1 .. n - 1
      PROVE  executable[1][1] # q[i][1] /\ q[i][1] \in TasksIn(executable)
  <2>1. 1 \in 1 .. n /\ i + 1 \in 1 .. n /\ 1 < i + 1
    OBVIOUS
  <2>2. executable[1][1] < executable[i + 1][1]
    BY <1>1, <2>1 DEF InOrder
  <2>3. executable[1] \in Pair
    BY <1>1, <2>1 DEF Types
  <2>4. executable[1][1] \in Nat
    BY <2>3 DEF Pair, Task
  <2> QED
    BY <1>1, <2>1, <2>2, <2>4 DEF TasksIn
<1>3. ASSUME NEW u \in TasksIn(executable), u # executable[1][1]
      PROVE  u \in TasksIn(q)
  <2>1. PICK i \in 1 .. n : u = executable[i][1]
    BY <1>1 DEF TasksIn
  <2>2. i - 1 \in 1 .. n - 1 /\ (i - 1) + 1 = i
    BY <1>3, <2>1
  <2>3. q[i - 1] = executable[i]
    BY <1>1, <2>2
  <2> QED
    BY <1>1, <2>1, <2>2, <2>3 DEF TasksIn
<1>4. ASSUME NEW u \in TasksIn(q)
      PROVE  u \in TasksIn(executable) /\ u # executable[1][1]
  <2>1. PICK i \in 1 .. n - 1 : u = q[i][1]
    BY <1>1, <1>4 DEF TasksIn
  <2> QED
    BY <1>2, <2>1
<1> QED
  BY <1>3, <1>4

\* A step ends with nothing left to execute; if the run goes on, the next step
\* is dispatched.
LEMMA StepEnds ==
  ASSUME Types, Matched, EndStep
  PROVE  /\ phase = "commit" /\ executable = <<>> /\ executable' = executable
         /\ TasksIn(executable) = {} /\ task_states' = task_states
         /\ completed' = completed
         /\ step' = step \/ step' = step + 1
         /\ Running' => phase' = "dispatch" /\ step' = step + 1
<1>1. executable = <<>>
  BY DEF EndStep, Matched, Types
<1>2. TasksIn(<<>>) = {}
  BY DEF TasksIn
<1> QED
  BY <1>1, <1>2 DEF EndStep, Running

\* Outside of these, a run that goes on stays in its step.
LEMMA QuietRuns ==
  ASSUME Quiet
  PROVE  /\ Running' => Running
         /\ Running' /\ phase = "dispatch" =>
              phase' = "dispatch" \/ Undispatched = {}
         /\ Running' /\ phase # "dispatch" => phase' # "dispatch"
  BY DEF Quiet, Running

-----------------------------------------------------------------------------
(* Preservation.                                                             *)

LEMMA NextLogInStep ==
  ASSUME Types, Matched, LogInStep, [Next]_vars
  PROVE  LogInStep'
<1>1. log \in Seq(Entry) /\ step \in Nat
  BY DEF LogInStep, Types
<1>2. \A i \in DOMAIN log :
        /\ log[i].step <= step /\ log[i].step \in Nat
        /\ log[i].type = "task_start" => log[i].task \in Task
  <2>1. \A i \in DOMAIN log : log[i] \in Entry
    BY <1>1
  <2> QED
    BY <2>1 DEF LogInStep, Entry
<1>3. ASSUME NEW t \in Task, HandedOut(t)
      PROVE  LogInStep'
  <2>1. GrowsBy(log, log', Handed(t)) /\ step' = step /\ (Running' => Running)
    BY <1>3 DEF HandedOut, Running
  <2>2. /\ log' \in Seq(Entry)
        /\ \A i \in DOMAIN log' :
             (i \in DOMAIN log /\ log'[i] = log[i]) \/ log'[i] \in Handed(t)
    BY <1>1, <2>1, GrownLog
  <2>3. \A e \in Handed(t) : /\ e.step = step /\ ~ IsBarrier(e.type)
                             /\ e.task \in Task
    BY DEF Handed, IsBarrier
  <2> QED
    BY <1>1, <1>2, <2>1, <2>2, <2>3 DEF LogInStep
<1>4. CASE Commit
  <2>1. PICK t \in Task, w \in Worker :
          GrowsBy(log, log', {Message("task_result", t, w, AttemptOf(t))})
    BY <1>1, <1>4, CommitLogs
  <2> PICK m : m = Message("task_result", t, w, AttemptOf(t))
    OBVIOUS
  <2>2. m.step = step /\ m.type = "task_result"
    BY DEF Message
  <2>3. /\ log' \in Seq(Entry)
        /\ \A i \in DOMAIN log' :
             (i \in DOMAIN log /\ log'[i] = log[i]) \/ log'[i] = m
    BY <1>1, <2>1, GrownLog
  <2>4. step' = step /\ (Running' => Running)
    BY <1>4 DEF Commit, Running
  <2> QED
    BY <1>1, <1>2, <2>2, <2>3, <2>4 DEF LogInStep, IsBarrier
<1>5. CASE EndStep
  <2>1. GrowsBy(log, log', Closing)
    BY <1>1, <1>5, EndStepLogs
  <2>2. /\ log' \in Seq(Entry)
        /\ \A i \in DOMAIN log' :
             (i \in DOMAIN log /\ log'[i] = log[i]) \/ log'[i] \in Closing
    BY <1>1, <2>1, GrownLog
  <2>3. (step' = step \/ step' = step + 1) /\ (Running' => step' = step + 1)
    BY <1>5, StepEnds
  <2>4. \A e \in Closing : e.step = step /\ e.type # "task_start"
    BY DEF Closing, IsBarrier
  <2>5. ASSUME NEW i \in DOMAIN log'
        PROVE  /\ log'[i].step <= step /\ log'[i].step \in Nat
               /\ log'[i].type = "task_start" => log'[i].task \in Task
    BY <1>1, <1>2, <2>2, <2>4
  <2>6. \A i \in DOMAIN log' : log'[i].step <= step'
    BY <1>1, <2>3, <2>5
  <2>7. Running' => \A i \in DOMAIN log' : log'[i].step < step'
    BY <1>1, <2>3, <2>5
  <2> QED
    BY <2>2, <2>5, <2>6, <2>7 DEF LogInStep
<1>6. CASE Quiet
  <2>1. UNCHANGED <<log, step>> /\ (Running' => Running)
    BY <1>6, QuietRuns DEF Quiet
  <2> QED
    BY <2>1 DEF LogInStep
<1> QED
  BY <1>1, <1>3, <1>4, <1>5, <1>6, KindsOfSteps

LEMMA NextSettling ==
  ASSUME Types, Matched, InOrder, Fixed, log \in Seq(Entry), Settling, [Next]_vars
  PROVE  Settling'
<1>1. \A t \in Task : LogicalStep[t] \in Nat
  BY StepsAreDepths DEF Fixed, Task
<1>2. task_states \in [Task -> TaskStatus] /\ step \in Nat /\ executable \in Seq(Pair)
  BY DEF Types
<1>3. ASSUME NEW t \in Task, HandedOut(t)
      PROVE  Settling'
  <2>1. /\ LogicalStep' = LogicalStep /\ step' = step /\ phase' = phase
        /\ phase = "dispatch" /\ LogicalStep[t] = step
    BY <1>3, StepsStay DEF HandedOut, Undispatched, TasksAt
  <2>2. \A u \in Task : u # t => task_states'[u] = task_states[u]
    BY <1>2, <1>3 DEF HandedOut
  <2>3. CASE executable' = executable /\ task_states' = [task_states EXCEPT ![t] = "failed"]
    <3>1. task_states'[t] = "failed"
      BY <1>2, <2>3
    <3> QED
      BY <2>1, <2>2, <2>3, <3>1 DEF Settling, Settled, Running
  <2>4. ASSUME NEW w \in Worker, executable' = Append(executable, <<t, w>>)
        PROVE  Settling'
    <3>1. \A u : u \in TasksIn(executable') <=> u \in TasksIn(executable) \/ u = t
      BY <1>2, <2>4, TasksInAppend
    <3> QED
      BY <2>1, <2>2, <3>1 DEF Settling, Settled, Running
  <2> QED
    BY <1>3, <2>3, <2>4 DEF HandedOut
<1>4. CASE Commit
  <2>1. PICK t \in Task, w \in Worker :
          /\ executable # <<>> /\ executable[1] = <<t, w>>
          /\ task_states' = [task_states EXCEPT ![t] = "completed"]
    BY <1>4, CommitLogs
  <2>2. /\ LogicalStep' = LogicalStep /\ step' = step /\ phase' = phase
        /\ phase = "commit" /\ executable' = Tail(executable)
    BY <1>4, StepsStay DEF Commit
  <2>3. 1 \in DOMAIN executable /\ executable[1][1] = t
    BY <1>2, <2>1, TailFacts
  <2>4. LogicalStep[t] = step
    BY <2>3 DEF InOrder
  <2>5. \A u : u \in TasksIn(executable') <=> u \in TasksIn(executable) /\ u # t
    BY <2>1, <2>2, <2>3, TasksInTail
  <2>6. task_states'[t] = "completed"
        /\ \A u \in Task : u # t => task_states'[u] = task_states[u]
    BY <1>2, <2>1
  <2> QED
    BY <2>2, <2>4, <2>5, <2>6 DEF Settling, Settled, Running
<1>5. CASE EndStep
  <2>1. /\ phase = "commit" /\ TasksIn(executable) = {} /\ task_states' = task_states
        /\ Running' => phase' = "dispatch" /\ step' = step + 1
    BY <1>5, StepEnds
  <2>2. LogicalStep' = LogicalStep
    BY <1>5, StepsStay DEF EndStep
  <2>3. \A t \in Task : LogicalStep[t] <= step => Settled(t)
    BY <1>1, <1>2, <2>1 DEF Settling, Running
  <2>4. \A t \in Task : LogicalStep[t] > step => task_states[t] = "pending"
    BY <2>1 DEF Settling, Running
  <2>5. ASSUME Running', NEW t \in Task
        PROVE  /\ LogicalStep[t] < step' => Settled(t)
               /\ LogicalStep[t] >= step' => task_states[t] = "pending"
    BY <1>1, <1>2, <2>1, <2>3, <2>4, <2>5
  <2>6. \A t \in Task : LogicalStep[t] > step' \/ LogicalStep[t] = step' => LogicalStep[t] >= step'
    BY <1>1, <1>2, <1>5, StepEnds
  <2> QED
    BY <2>1, <2>2, <2>5, <2>6 DEF Settling, Settled
<1>6. CASE Quiet
  <2>1. /\ LogicalStep' = LogicalStep
        /\ UNCHANGED <<step, executable, task_states>>
    BY <1>6, StepsStay DEF Quiet
  <2>2. CASE Undispatched = {}
    <3>1. \A t \in Task : LogicalStep[t] = step => task_states[t] # "pending"
      BY <2>2 DEF Undispatched, TasksAt
    <3> QED
      BY <1>6, <2>1, <3>1, QuietRuns DEF Settling, Settled
  <2>3. CASE Undispatched # {}
    BY <1>6, <2>1, <2>3, QuietRuns DEF Settling, Settled
  <2> QED
    BY <2>2, <2>3
<1> QED
  BY <1>3, <1>4, <1>5, <1>6, KindsOfSteps

\* A task that is dispatched is not executed yet.
LEMMA DispatchedWaits ==
  ASSUME NEW t \in Task, HandedOut(t), ExecutableRuns
  PROVE  task_states[t] = "pending" /\ t \notin TasksIn(executable)
  BY DEF HandedOut, Undispatched, ExecutableRuns

LEMMA NextExecutableRuns ==
  ASSUME Types, Matched, InOrder, log \in Seq(Entry), ExecutableRuns, [Next]_vars
  PROVE  ExecutableRuns'
<1>1. task_states \in [Task -> TaskStatus] /\ executable \in Seq(Pair)
  BY DEF Types
<1>2. \A u \in TasksIn(executable) : u \in Task
  <2>1. \A i \in DOMAIN executable : executable[i] \in Pair
    BY <1>1
  <2> QED
    BY <2>1 DEF TasksIn, Pair
<1>3. ASSUME NEW t \in Task, HandedOut(t)
      PROVE  ExecutableRuns'
  <2>1. t \notin TasksIn(executable)
    BY <1>3, DispatchedWaits
  <2>2. \A u \in Task : u # t => task_states'[u] = task_states[u]
    BY <1>1, <1>3 DEF HandedOut
  <2>3. CASE executable' = executable
    BY <1>2, <2>1, <2>2, <2>3 DEF ExecutableRuns
  <2>4. ASSUME task_states' = [task_states EXCEPT ![t] = "running"],
               NEW w \in Worker, executable' = Append(executable, <<t, w>>)
        PROVE  ExecutableRuns'
    <3>1. \A u : u \in TasksIn(executable') <=> u \in TasksIn(executable) \/ u = t
      BY <1>1, <2>4, TasksInAppend
    <3>2. task_states'[t] = "running"
      BY <1>1, <2>4
    <3> QED
      BY <1>2, <2>1, <2>2, <3>1, <3>2 DEF ExecutableRuns
  <2> QED
    BY <1>3, <2>3, <2>4 DEF HandedOut
<1>4. CASE Commit
  <2>1. PICK t \in Task, w \in Worker :
          /\ executable # <<>> /\ executable[1] = <<t, w>>
          /\ task_states' = [task_states EXCEPT ![t] = "completed"]
    BY <1>4, CommitLogs
  <2>2. executable' = Tail(executable)
    BY <1>4 DEF Commit
  <2>3. executable[1][1] = t
    BY <2>1
  <2>4. \A u : u \in TasksIn(executable') <=> u \in TasksIn(executable) /\ u # t
    BY <2>1, <2>2, <2>3, TasksInTail
  <2>5. \A u \in Task : u # t => task_states'[u] = task_states[u]
    BY <1>1, <2>1
  <2> QED
    BY <1>2, <2>4, <2>5 DEF ExecutableRuns
<1>5. CASE EndStep
  BY <1>5, StepEnds DEF ExecutableRuns
<1>6. CASE Quiet
  BY <1>6 DEF Quiet, ExecutableRuns
<1> QED
  BY <1>3, <1>4, <1>5, <1>6, KindsOfSteps

\* What a step adds to the log, in terms of what the properties ask of it.
LEMMA NewMessages ==
  ASSUME Types, Matched, log \in Seq(Entry), [Next]_vars
  PROVE  /\ Len(log) \in Nat /\ Len(log') \in Nat /\ Len(log) <= Len(log')
         /\ DOMAIN log = 1 .. Len(log) /\ DOMAIN log' = 1 .. Len(log')
         /\ \A i \in DOMAIN log : log'[i] = log[i]
         /\ \A i \in (Len(log) + 1) .. Len(log') : log'[i].step = step
<1>1. ASSUME NEW R, GrowsBy(log, log', R), \A e \in R : e.step = step
      PROVE  /\ Len(log) \in Nat /\ Len(log') \in Nat /\ Len(log) <= Len(log')
             /\ DOMAIN log = 1 .. Len(log) /\ DOMAIN log' = 1 .. Len(log')
             /\ \A i \in DOMAIN log : log'[i] = log[i]
             /\ \A i \in (Len(log) + 1) .. Len(log') : log'[i].step = step
  <2>1. \A i \in (Len(log) + 1) .. Len(log') : log'[i].step = step
    BY <1>1 DEF GrowsBy
  <2> QED
    BY <1>1, <2>1, GrownLog
<1>2. ASSUME NEW t \in Task, HandedOut(t)
      PROVE  GrowsBy(log, log', Handed(t)) /\ \A e \in Handed(t) : e.step = step
  BY <1>2 DEF HandedOut, Handed
<1>3. CASE Commit
  <2>1. PICK t \in Task, w \in Worker :
          GrowsBy(log, log', {Message("task_result", t, w, AttemptOf(t))})
    BY <1>3, CommitLogs
  <2>2. Message("task_result", t, w, AttemptOf(t)).step = step
    BY DEF Message
  <2> QED
    BY <1>1, <2>1, <2>2
<1>4. CASE EndStep
  <2>1. GrowsBy(log, log', Closing) /\ \A e \in Closing : e.step = step
    BY <1>4, EndStepLogs DEF Closing
  <2> QED
    BY <1>1, <2>1
<1>5. CASE Quiet
  <2>1. GrowsBy(log, log', {})
    BY <1>5 DEF Quiet, GrowsBy
  <2> QED
    BY <1>1, <2>1
<1> QED
  BY <1>1, <1>2, <1>3, <1>4, <1>5, KindsOfSteps

\* A dispatch sends assignments, starts and failures of its task, ...
LEMMA DispatchMessages ==
  ASSUME log \in Seq(Entry), NEW t \in Task, HandedOut(t)
  PROVE  \A i \in (Len(log) + 1) .. Len(log') :
           /\ log'[i].task = t
           /\ log'[i].type \notin {"task_result", "barrier_wait", "barrier_release"}
BY DEF HandedOut, GrowsBy, Handed

\* ... a commit the result of its task, ...
LEMMA CommitMessages ==
  ASSUME Types, Matched, log \in Seq(Entry), Commit
  PROVE  \E t \in Task, w \in Worker :
           /\ Len(log') = Len(log) + 1
           /\ log'[Len(log')] = Message("task_result", t, w, AttemptOf(t))
           /\ executable # <<>> /\ executable[1] = <<t, w>>
           /\ ~ Committed(t) /\ completed' = Append(completed, t)
           /\ task_states' = [task_states EXCEPT ![t] = "completed"]
<1>1. PICK t \in Task, w \in Worker :
        LET m == Message("task_result", t, w, AttemptOf(t)) IN
        /\ m \in Entry
        /\ log' = Append(log, m)
        /\ executable # <<>> /\ executable[1] = <<t, w>>
        /\ ~ Committed(t) /\ completed' = Append(completed, t)
        /\ task_states' = [task_states EXCEPT ![t] = "completed"]
  BY CommitLogs
<1> PICK m : m = Message("task_result", t, w, AttemptOf(t))
  OBVIOUS
<1>2. Len(log') = Len(log) + 1 /\ log'[Len(log')] = m
  BY <1>1, AppendFacts
<1> QED
  BY <1>1, <1>2

\* ... the end of a step those of its barrier.
LEMMA EndStepMessages ==
  ASSUME Types, log \in Seq(Entry), EndStep
  PROVE  \A i \in (Len(log) + 1) .. Len(log') : IsBarrier(log'[i].type)
<1>1. GrowsBy(log, log', Closing)
  BY EndStepLogs
<1> QED
  BY <1>1 DEF GrowsBy, Closing

LEMMA NextResultsLogged ==
  ASSUME Types, Matched, log \in Seq(Entry), ResultsLogged, [Next]_vars
  PROVE  ResultsLogged'
<1> DEFINE Has(t) == \E i \in DOMAIN log : Sent(i, "task_result") /\ log[i].task = t
<1> PICK n \in Nat : n = Len(log)
  BY NewMessages
<1>1. /\ DOMAIN log = 1 .. n /\ DOMAIN log' = 1 .. Len(log') /\ n <= Len(log')
      /\ Len(log') \in Nat /\ \A i \in 1 .. n : log'[i] = log[i]
  BY NewMessages
<1>2. ASSUME \A i \in (n + 1) .. Len(log') : log'[i].type # "task_result",
             completed' = completed
      PROVE  ResultsLogged'
  <2>1. \A t \in Task : Committed(t)' <=> Committed(t)
    BY <1>2 DEF Committed
  <2>2. \A i \in DOMAIN log' : i \in DOMAIN log \/ i \in (n + 1) .. Len(log')
    BY <1>1
  <2>3. \A i \in DOMAIN log : i \in DOMAIN log'
    BY <1>1
  <2>4. \A t \in Task : Has(t)' <=> Has(t)
    BY <1>1, <1>2, <2>2, <2>3 DEF Sent
  <2> QED
    BY <2>1, <2>4 DEF ResultsLogged
<1>3. ASSUME NEW t \in Task, HandedOut(t)
      PROVE  ResultsLogged'
  BY <1>2, <1>3, DispatchMessages DEF HandedOut
<1>4. CASE Commit
  <2>1. PICK t \in Task, w \in Worker :
          /\ Len(log') = Len(log) + 1
          /\ log'[Len(log')] = Message("task_result", t, w, AttemptOf(t))
          /\ completed' = Append(completed, t)
    BY <1>4, CommitMessages
  <2>2. log'[n + 1].type = "task_result" /\ log'[n + 1].task = t /\ Len(log') = n + 1
    BY <2>1 DEF Message
  <2>3. \A u \in Task : Committed(u)' <=> Committed(u) \/ u = t
    <3> PICK k \in Nat : k = Len(completed)
      BY DEF Types
    <3>1. /\ DOMAIN completed = 1 .. k /\ DOMAIN completed' = 1 .. k + 1
          /\ \A i \in 1 .. k : completed'[i] = completed[i]
          /\ completed'[k + 1] = t
      BY <2>1, AppendFacts DEF Types
    <3>2. \A i \in 1 .. k + 1 : i \in 1 .. k \/ i = k + 1
      OBVIOUS
    <3>3. (\A i \in 1 .. k : i \in 1 .. k + 1) /\ k + 1 \in 1 .. k + 1
      OBVIOUS
    <3> QED
      BY <3>1, <3>2, <3>3 DEF Committed
  <2>4. \A u \in Task : Has(u)' <=> Has(u) \/ u = t
    <3>1. \A i \in DOMAIN log' : i \in DOMAIN log \/ i = n + 1
      BY <1>1, <2>2
    <3>2. (\A i \in DOMAIN log : i \in DOMAIN log') /\ n + 1 \in DOMAIN log'
      BY <1>1, <2>2
    <3> QED
      BY <1>1, <2>2, <3>1, <3>2 DEF Sent
  <2> QED
    BY <2>3, <2>4 DEF ResultsLogged
<1>5. CASE EndStep
  BY <1>2, <1>5, EndStepMessages, StepEnds DEF IsBarrier
<1>6. CASE Quiet
  BY <1>6 DEF Quiet, ResultsLogged, Sent, Committed
<1> QED
  BY <1>3, <1>4, <1>5, <1>6, KindsOfSteps

\* A start stays the last one of its task while others are dispatched.
LEMMA StillStarted ==
  ASSUME Types, Matched, log \in Seq(Entry), [Next]_vars,
         config' = config, step' = step, NEW t, NEW w, StartedOn(t, w),
         \A i \in (Len(log) + 1) .. Len(log') :
           log'[i].type = "task_start" => log'[i].task # t
  PROVE  StartedOn(t, w)'
<1> PICK n \in Nat : n = Len(log)
  BY NewMessages
<1>1. /\ DOMAIN log = 1 .. n /\ DOMAIN log' = 1 .. Len(log') /\ n <= Len(log')
      /\ Len(log') \in Nat /\ \A i \in 1 .. n : log'[i] = log[i]
  BY NewMessages
<1>2. PICK j \in DOMAIN log :
        log[j] = Message("task_start", t, w, AttemptOf(t)) /\ NoStartAfter(j, t)
  BY DEF StartedOn
<1>3. Message("task_start", t, w, AttemptOf(t))' = Message("task_start", t, w, AttemptOf(t))
  BY DEF Message, AttemptOf
<1>4. ASSUME NEW k \in (j + 1) .. Len(log'), log'[k].type = "task_start"
      PROVE  log'[k].task # t
  <2>1. CASE k \in 1 .. n
    <3>1. k \in (j + 1) .. Len(log) /\ log'[k] = log[k]
      BY <1>1, <1>2, <2>1
    <3> QED
      BY <1>1, <1>2, <1>4, <2>1, <3>1 DEF NoStartAfter, Sent
  <2>2. CASE k \in (n + 1) .. Len(log')
    BY <1>4, <2>2
  <2> QED
    BY <1>1, <1>2, <2>1, <2>2
<1>5. NoStartAfter(j, t)'
  BY <1>4 DEF NoStartAfter, Sent
<1>6. j \in DOMAIN log' /\ log'[j] = log[j]
  BY <1>1, <1>2
<1> QED
  BY <1>2, <1>3, <1>5, <1>6 DEF StartedOn

LEMMA NextExecutableStarted ==
  ASSUME Types, Matched, log \in Seq(Entry), ExecutableRuns, ExecutableStarted,
         [Next]_vars
  PROVE  ExecutableStarted'
<1> PICK m \in Nat : m = Len(executable)
  BY DEF Types
<1>1. DOMAIN executable = 1 .. m
  BY DEF Types
<1>2. ASSUME NEW t \in Task, HandedOut(t)
      PROVE  ExecutableStarted'
  <2>1. config' = config /\ step' = step /\ t \notin TasksIn(executable)
    BY <1>2, DispatchedWaits DEF HandedOut
  <2>2. \A i \in (Len(log) + 1) .. Len(log') : log'[i].task = t
    BY <1>2, DispatchMessages
  <2>3. ASSUME NEW u \in Task, NEW w \in Worker, NEW k \in 1 .. m,
               executable[k] = <<u, w>>
        PROVE  StartedOn(u, w)'
    <3>1. u # t
      BY <1>1, <2>1, <2>3 DEF TasksIn
    <3>2. StartedOn(u, w)
      BY <1>1, <2>3 DEF ExecutableStarted
    <3> QED
      BY <2>1, <2>2, <3>1, <3>2, StillStarted
  <2>4. CASE executable' = executable
    BY <1>1, <2>3, <2>4 DEF ExecutableStarted
  <2>5. ASSUME NEW w \in Worker, executable' = Append(executable, <<t, w>>),
               Len(log') > Len(log),
               log'[Len(log')] = Message("task_start", t, w, AttemptOf(t))
        PROVE  ExecutableStarted'
    <3>1. <<t, w>> \in Pair
      BY DEF Pair
    <3>2. /\ DOMAIN executable' = 1 .. m + 1
          /\ \A k \in 1 .. m : executable'[k] = executable[k]
          /\ executable'[m + 1] = <<t, w>>
      BY <1>1, <2>5, <3>1, AppendFacts DEF Types
    <3>3. StartedOn(t, w)'
      <4>1. Len(log') \in DOMAIN log' /\ Len(log') \in Nat
        BY <2>5, NewMessages
      <4> PICK l \in Nat : l = Len(log')
        BY <4>1
      <4>2. log'[l] = Message("task_start", t, w, AttemptOf(t))'
        BY <2>1, <2>5 DEF Message, AttemptOf
      <4>3. (l + 1) .. Len(log') = {}
        OBVIOUS
      <4>4. NoStartAfter(l, t)'
        BY <4>3 DEF NoStartAfter
      <4> QED
        BY <4>1, <4>2, <4>4 DEF StartedOn
    <3>4. ASSUME NEW u \in Task, NEW v \in Worker, NEW k \in 1 .. m + 1,
                 executable'[k] = <<u, v>>
          PROVE  StartedOn(u, v)'
      <4>1. CASE k \in 1 .. m
        BY <2>3, <3>2, <3>4, <4>1
      <4>2. CASE k = m + 1
        <5>1. u = t /\ v = w
          BY <3>2, <3>4, <4>2
        <5> QED
          BY <3>3, <5>1
      <4> QED
        BY <4>1, <4>2
    <3> QED
      BY <3>2, <3>4 DEF ExecutableStarted
  <2> QED
    BY <1>2, <2>4, <2>5 DEF HandedOut
<1>3. CASE Commit
  <2>1. PICK t \in Task, w \in Worker :
          /\ Len(log') = Len(log) + 1
          /\ log'[Len(log')] = Message("task_result", t, w, AttemptOf(t))
          /\ executable # <<>>
    BY <1>3, CommitMessages
  <2>2. executable' = Tail(executable) /\ config' = config /\ step' = step
    BY <1>3 DEF Commit
  <2>3. /\ DOMAIN executable' = 1 .. m - 1
        /\ \A k \in 1 .. m - 1 : executable'[k] = executable[k + 1]
    BY <2>1, <2>2, TailFacts DEF Types
  <2>4. \A i \in (Len(log) + 1) .. Len(log') : log'[i].type # "task_start"
    <3>1. log'[Len(log')].type # "task_start"
      BY <2>1 DEF Message
    <3>2. Len(log) \in Nat
      BY NewMessages
    <3>3. \A i \in (Len(log) + 1) .. Len(log') : i = Len(log')
      BY <2>1, <3>2
    <3> QED
      BY <3>1, <3>3
  <2>5. ASSUME NEW u \in Task, NEW v \in Worker, NEW k \in 1 .. m - 1,
               executable'[k] = <<u, v>>
        PROVE  StartedOn(u, v)'
    <3>1. k + 1 \in DOMAIN executable /\ executable[k + 1] = <<u, v>>
      BY <1>1, <2>3, <2>5
    <3>2. StartedOn(u, v)
      BY <3>1 DEF ExecutableStarted
    <3> QED
      BY <2>2, <2>4, <3>2, StillStarted
  <2> QED
    BY <2>3, <2>5 DEF ExecutableStarted
<1>4. CASE EndStep
  <2>1. executable' = <<>>
    BY <1>4, StepEnds
  <2> QED
    BY <2>1 DEF ExecutableStarted
<1>5. CASE Quiet
  <2>1. UNCHANGED <<executable, config, step, log>>
    BY <1>5 DEF Quiet
  <2> QED
    BY <2>1 DEF ExecutableStarted, StartedOn, NoStartAfter, Sent, Message, AttemptOf
<1> QED
  BY <1>2, <1>3, <1>4, <1>5, KindsOfSteps

\* Who was released stays so.
LEMMA StillReleased ==
  ASSUME Types, Matched, log \in Seq(Entry), [Next]_vars,
         NEW i \in DOMAIN log, ReleasedAfter(i)
  PROVE  ReleasedAfter(i)'
<1>1. PICK k \in (i + 1) .. Len(log) :
        Sent(k, "barrier_release") /\ log[k].worker = log[i].worker
  BY DEF ReleasedAfter
<1>2. k \in DOMAIN log /\ k \in DOMAIN log' /\ k \in (i + 1) .. Len(log')
  BY <1>1, NewMessages DEF Sent
<1>3. log'[i] = log[i] /\ log'[k] = log[k]
  BY <1>2, NewMessages
<1> QED
  BY <1>1, <1>2, <1>3 DEF ReleasedAfter, Sent

LEMMA NextReleased ==
  ASSUME Types, Matched, LogInStep, Released, [Next]_vars
  PROVE  Released'
<1>1. log \in Seq(Entry) /\ step \in Nat
  BY DEF LogInStep, Types
<1> PICK n \in Nat : n = Len(log)
  BY <1>1, NewMessages
<1>2. /\ DOMAIN log = 1 .. n /\ DOMAIN log' = 1 .. Len(log') /\ n <= Len(log')
      /\ Len(log') \in Nat /\ \A i \in 1 .. n : log'[i] = log[i]
      /\ \A i \in (n + 1) .. Len(log') : log'[i].step = step
  BY <1>1, NewMessages
<1>3. \A i \in DOMAIN log' : i \in DOMAIN log \/ i \in (n + 1) .. Len(log')
  BY <1>2
<1>4. ASSUME step' = step, config' = config, Running' => Running
      PROVE  Released'
  <2> SUFFICES ASSUME config.barrier, Running, NEW i \in DOMAIN log',
                      log'[i].type = "task_result", log'[i].step < step
               PROVE  ReleasedAfter(i)'
    BY <1>4 DEF Released, Sent
  <2>1. i \in DOMAIN log /\ log'[i] = log[i]
    BY <1>1, <1>2, <1>3
  <2>2. ReleasedAfter(i)
    BY <2>1 DEF Released, Sent
  <2> QED
    BY <1>1, <2>1, <2>2, StillReleased
<1>5. ASSUME NEW t \in Task, HandedOut(t)
      PROVE  Released'
  BY <1>4, <1>5 DEF HandedOut, Running
<1>6. CASE Commit
  BY <1>4, <1>6 DEF Commit, Running
<1>7. CASE EndStep
  <2> SUFFICES ASSUME config.barrier, Running', NEW i \in DOMAIN log',
                      log'[i].type = "task_result", log'[i].step < step'
               PROVE  ReleasedAfter(i)'
    BY <1>7 DEF EndStep, Released, Sent
  <2>1. i \in DOMAIN log /\ log'[i] = log[i] /\ i \in 1 .. n
    <3>1. \A k \in (n + 1) .. Len(log') : IsBarrier(log'[k].type)
      BY <1>1, <1>7, EndStepMessages
    <3> QED
      BY <1>2, <1>3, <3>1 DEF IsBarrier
  <2>2. Running /\ log[i].step <= step /\ log[i].step \in Nat
    <3>1. log[i] \in Entry
      BY <1>1, <2>1
    <3> QED
      BY <1>7, <2>1, <3>1 DEF EndStep, Running, LogInStep, Entry
  <2>3. CASE log[i].step < step
    <3>1. ReleasedAfter(i)
      BY <2>1, <2>2, <2>3 DEF Released, Sent
    <3> QED
      BY <1>1, <2>1, <3>1, StillReleased
  <2>4. CASE log[i].step = step
    <3>1. log[i].worker \in StepWorkers
      BY <2>1, <2>4 DEF StepWorkers
    <3>2. PICK b \in n .. Len(log') :
            /\ \A k \in (b + 1) .. Len(log') : log'[k].type = "barrier_release"
            /\ \A w \in StepWorkers : \E k \in (b + 1) .. Len(log') : log'[k].worker = w
      BY <1>1, <1>7, EndStepLogs
    <3>3. PICK k \in (b + 1) .. Len(log') : log'[k].worker = log[i].worker
      BY <3>1, <3>2
    <3>4. k \in (i + 1) .. Len(log') /\ k \in DOMAIN log'
      BY <1>2, <2>1, <3>2, <3>3
    <3> QED
      BY <2>1, <3>2, <3>3, <3>4 DEF ReleasedAfter, Sent
  <2> QED
    BY <1>1, <2>2, <2>3, <2>4
<1>8. CASE Quiet
  BY <1>4, <1>8, QuietRuns DEF Quiet
<1> QED
  BY <1>1, <1>5, <1>6, <1>7, <1>8, KindsOfSteps

LEMMA NextFixed ==
  ASSUME Fixed, [Next]_vars
  PROVE  Fixed'
<1>1. deps' = deps /\ config' = config
  <2>1. Dispatch \/ Commit \/ EndStep \/ Quiet
    BY FourKindsOfSteps
  <2> QED
    BY <2>1 DEF Dispatch, Commit, EndStep, Quiet
<1> QED
  BY <1>1 DEF Fixed, Plans, Configs

MInv == IInv /\ Messages

LEMMA InitMessages == Init => Messages
<1> SUFFICES ASSUME Init
             PROVE  Messages
  OBVIOUS
<1>1. /\ deps \in Plans /\ config \in Configs /\ phase = "dispatch" /\ step = 0
      /\ executable = <<>> /\ log = <<>> /\ completed = <<>>
      /\ task_states = [t \in Task |-> "pending"]
  BY DEF Init
<1>2. Fixed /\ LogInStep
  BY <1>1 DEF Fixed, LogInStep
<1>3. Settling
  <2>1. \A t \in Task : LogicalStep[t] \in Nat
    BY <1>1, StepsAreDepths DEF Task
  <2> QED
    BY <1>1, <2>1 DEF Settling
<1>4. ExecutableRuns /\ ExecutableStarted
  BY <1>1 DEF ExecutableRuns, ExecutableStarted, TasksIn
<1>5. ResultsLogged /\ Released
  BY <1>1 DEF ResultsLogged, Released, Committed
<1> QED
  BY <1>2, <1>3, <1>4, <1>5 DEF Messages

LEMMA NextMessagesHold == IInv /\ Messages /\ [Next]_vars => Messages'
<1> SUFFICES ASSUME IInv, Messages, [Next]_vars
             PROVE  Messages'
  OBVIOUS
<1>1. Types /\ Matched /\ InOrder
  BY DEF IInv, Account, Order
<1>2. log \in Seq(Entry)
  BY DEF Messages, LogInStep
<1>3. Fixed' /\ LogInStep'
  BY <1>1, NextFixed, NextLogInStep DEF Messages
<1>4. Settling'
  BY <1>1, <1>2, NextSettling DEF Messages
<1>5. ExecutableRuns'
  BY <1>1, <1>2, NextExecutableRuns DEF Messages
<1>6. ExecutableStarted'
  BY <1>1, <1>2, NextExecutableStarted DEF Messages
<1>7. ResultsLogged'
  BY <1>1, <1>2, NextResultsLogged DEF Messages
<1>8. Released'
  BY <1>1, NextReleased DEF Messages
<1> QED
  BY <1>3, <1>4, <1>5, <1>6, <1>7, <1>8 DEF Messages

\* The invariant about messages, on top of the accounts of the run.
THEOREM MessagesInductive == Spec => []MInv
<1>1. Init => MInv
  BY InitIInv, InitMessages DEF MInv
<1>2. MInv /\ [Next]_vars => MInv'
  BY NextIInv, NextMessagesHold DEF MInv
<1> QED
  BY <1>1, <1>2, PTL DEF Spec

-----------------------------------------------------------------------------
(* Starts, results and barriers.                                             *)

\* The dependencies of a task that is dispatched are done or given up.
LEMMA DependenciesSettled ==
  ASSUME MInv, NEW t \in Task, HandedOut(t), NEW d \in deps[t]
  PROVE  /\ d \in Task /\ d # t
         /\ \/ \E j \in DOMAIN log : Sent(j, "task_result") /\ log[j].task = d
            \/ task_states[d] = "failed"
<1>1. /\ d \in Task /\ LogicalStep[d] < LogicalStep[t]
      /\ LogicalStep[t] \in Nat /\ LogicalStep[d] \in Nat
  <2>1. deps \in Plans
    BY DEF MInv, Messages, Fixed
  <2>2. d \in Task
    BY <2>1, DependenciesPrecede
  <2>3. t \in Nat /\ d \in Nat
    BY <2>2 DEF Task
  <2> QED
    BY <2>1, <2>2, <2>3, StepsAreDepths
<1>2. LogicalStep[t] = step /\ Running
  BY DEF HandedOut, Undispatched, TasksAt, Running
<1>3. Settled(d)
  BY <1>1, <1>2 DEF MInv, Messages, Settling
<1>4. CASE task_states[d] = "completed"
  <2>1. Committed(d)
    BY <1>1, <1>4 DEF MInv, IInv, Account, StatesAgree
  <2> QED
    BY <1>1, <2>1 DEF MInv, Messages, ResultsLogged
<1> QED
  BY <1>1, <1>3, <1>4 DEF Settled

\* A task that was given up stays so.
LEMMA FailedStays ==
  ASSUME MInv, [Next]_vars, NEW d \in Task, task_states[d] = "failed"
  PROVE  task_states'[d] = "failed"
<1>1. /\ Types /\ Matched /\ log \in Seq(Entry) /\ ExecutableRuns
      /\ task_states \in [Task -> TaskStatus]
  BY DEF MInv, IInv, Account, Messages, LogInStep, Types
<1>2. ASSUME NEW t \in Task, HandedOut(t)
      PROVE  task_states'[d] = "failed"
  BY <1>1, <1>2, DispatchedWaits DEF HandedOut
<1>3. CASE Commit
  <2>1. PICK t \in Task, w \in Worker :
          /\ executable # <<>> /\ executable[1] = <<t, w>>
          /\ task_states' = [task_states EXCEPT ![t] = "completed"]
    BY <1>1, <1>3, CommitMessages
  <2>2. 1 \in DOMAIN executable /\ executable[1][1] = t
    BY <1>1, <2>1, TailFacts DEF Types
  <2>3. task_states[t] = "running"
    BY <1>1, <2>2 DEF ExecutableRuns, TasksIn
  <2> QED
    BY <1>1, <2>1, <2>3
<1>4. CASE EndStep
  BY <1>4 DEF EndStep
<1>5. CASE Quiet
  BY <1>5 DEF Quiet
<1> QED
  BY <1>1, <1>2, <1>3, <1>4, <1>5, KindsOfSteps

\* What the steps other than a dispatch send starts no task.
LEMMA OnlyDispatchStarts ==
  ASSUME Types, Matched, log \in Seq(Entry), Commit \/ EndStep \/ Quiet
  PROVE  \A i \in (Len(log) + 1) .. Len(log') : log'[i].type # "task_start"
<1>1. CASE Commit
  <2>1. PICK t \in Task, w \in Worker :
          /\ Len(log') = Len(log) + 1
          /\ log'[Len(log')] = Message("task_result", t, w, AttemptOf(t))
    BY <1>1, CommitMessages
  <2>2. log'[Len(log')].type # "task_start"
    BY <2>1 DEF Message
  <2>3. \A i \in (Len(log) + 1) .. Len(log') : i = Len(log')
    <3>1. Len(log) \in Nat
      OBVIOUS
    <3> QED
      BY <2>1, <3>1
  <2> QED
    BY <2>2, <2>3
<1>2. CASE EndStep
  BY <1>2, EndStepMessages DEF IsBarrier
<1>3. CASE Quiet
  BY <1>3 DEF Quiet
<1> QED
  BY <1>1, <1>2, <1>3

LEMMA NextStartsFollow ==
  ASSUME MInv, StartsFollowResults, [Next]_vars
  PROVE  StartsFollowResults'
<1>1. /\ Types /\ Matched /\ log \in Seq(Entry) /\ Fixed
      /\ \A i \in DOMAIN log : log[i].type = "task_start" => log[i].task \in Task
  BY DEF MInv, IInv, Account, Messages, LogInStep
<1> PICK n \in Nat : n = Len(log)
  BY <1>1, NewMessages
<1>2. /\ DOMAIN log = 1 .. n /\ DOMAIN log' = 1 .. Len(log') /\ n <= Len(log')
      /\ Len(log') \in Nat /\ \A i \in 1 .. n : log'[i] = log[i]
  BY <1>1, NewMessages
<1>3. deps' = deps
  <2>1. Dispatch \/ Commit \/ EndStep \/ Quiet
    BY FourKindsOfSteps
  <2> QED
    BY <2>1 DEF Dispatch, Commit, EndStep, Quiet
<1>4. ASSUME NEW i \in 1 .. n, log'[i].type = "task_start", NEW d \in deps[log'[i].task]
      PROVE  \/ \E j \in 1 .. (i - 1) : Sent(j, "task_result")' /\ log'[j].task = d
             \/ task_states'[d] = "failed"
  <2>1. i \in DOMAIN log /\ log'[i] = log[i]
    BY <1>2
  <2>2. \/ \E j \in 1 .. (i - 1) : Sent(j, "task_result") /\ log[j].task = d
        \/ task_states[d] = "failed"
    BY <1>4, <2>1 DEF StartsFollowResults, Sent
  <2>3. ASSUME NEW j \in 1 .. (i - 1), Sent(j, "task_result"), log[j].task = d
        PROVE  Sent(j, "task_result")' /\ log'[j].task = d
    <3>1. j \in 1 .. n /\ j \in DOMAIN log'
      BY <1>2
    <3> QED
      BY <1>2, <2>3, <3>1 DEF Sent
  <2>4. d \in Task
    BY <1>1, <1>4, <2>1, DependenciesPrecede DEF Fixed
  <2> QED
    BY <2>2, <2>3, <2>4, FailedStays
<1>5. ASSUME NEW t \in Task, HandedOut(t), NEW i \in (n + 1) .. Len(log'),
             NEW d \in deps[log'[i].task]
      PROVE  \/ \E j \in 1 .. (i - 1) : Sent(j, "task_result")' /\ log'[j].task = d
             \/ task_states'[d] = "failed"
  <2>1. log'[i].task = t
    BY <1>1, <1>5, DispatchMessages
  <2>2. /\ d \in Task
        /\ \/ \E j \in DOMAIN log : Sent(j, "task_result") /\ log[j].task = d
           \/ task_states[d] = "failed"
    BY <1>5, <2>1, DependenciesSettled
  <2>3. ASSUME NEW j \in DOMAIN log, Sent(j, "task_result"), log[j].task = d
        PROVE  j \in 1 .. (i - 1) /\ Sent(j, "task_result")' /\ log'[j].task = d
    <3>1. j \in 1 .. n /\ j \in DOMAIN log' /\ j \in 1 .. (i - 1)
      BY <1>2
    <3> QED
      BY <1>2, <2>3, <3>1 DEF Sent
  <2> QED
    BY <2>2, <2>3, FailedStays
<1>6. ASSUME NEW i \in (n + 1) .. Len(log'), log'[i].type = "task_start"
      PROVE  \E t \in Task : HandedOut(t)
  BY <1>1, <1>6, KindsOfSteps, OnlyDispatchStarts
<1>7. \A i \in DOMAIN log' : i \in 1 .. n \/ i \in (n + 1) .. Len(log')
  BY <1>2
<1>8. ASSUME NEW i \in DOMAIN log', log'[i].type = "task_start",
             NEW d \in deps[log'[i].task]
      PROVE  \/ \E j \in 1 .. (i - 1) : Sent(j, "task_result")' /\ log'[j].task = d
             \/ task_states'[d] = "failed"
  BY <1>4, <1>5, <1>6, <1>7, <1>8
<1> QED
  BY <1>3, <1>8 DEF StartsFollowResults, Sent

\* The start that a result answers.
Answered(i) ==
  \E j \in 1 .. (i - 1) :
    /\ Sent(j, "task_start")
    /\ log[j] = [log[i] EXCEPT !.type = "task_start"]
    /\ NoStartAfter(j, log[i].task)

\* The only result of its task.
OnlyResult(i) ==
  \A j \in DOMAIN log :
    Sent(j, "task_result") /\ log[j].task = log[i].task => i = j

LEMMA StillAnswered ==
  ASSUME Types, Matched, log \in Seq(Entry), [Next]_vars,
         NEW i \in DOMAIN log, Answered(i),
         \A k \in (Len(log) + 1) .. Len(log') :
           log'[k].type = "task_start" => log'[k].task # log[i].task
  PROVE  Answered(i)'
<1> PICK n \in Nat : n = Len(log)
  BY NewMessages
<1>1. /\ DOMAIN log = 1 .. n /\ DOMAIN log' = 1 .. Len(log') /\ n <= Len(log')
      /\ Len(log') \in Nat /\ \A k \in 1 .. n : log'[k] = log[k]
  BY NewMessages
<1>2. PICK j \in 1 .. (i - 1) :
        /\ Sent(j, "task_start")
        /\ log[j] = [log[i] EXCEPT !.type = "task_start"]
        /\ NoStartAfter(j, log[i].task)
  BY DEF Answered
<1>3. j \in DOMAIN log' /\ log'[j] = log[j] /\ log'[i] = log[i] /\ j \in 1 .. n
  BY <1>1
<1>4. ASSUME NEW k \in (j + 1) .. Len(log'), log'[k].type = "task_start"
      PROVE  log'[k].task # log[i].task
  <2>1. CASE k \in 1 .. n
    <3>1. k \in (j + 1) .. Len(log) /\ log'[k] = log[k] /\ k \in DOMAIN log
      BY <1>1, <1>3, <2>1
    <3> QED
      BY <1>2, <1>4, <3>1 DEF NoStartAfter, Sent
  <2>2. CASE k \in (n + 1) .. Len(log')
    BY <1>4, <2>2
  <2> QED
    BY <1>1, <1>3, <2>1, <2>2
<1> QED
  BY <1>2, <1>3, <1>4 DEF Answered, NoStartAfter, Sent

LEMMA NextResultsMatch ==
  ASSUME MInv, ResultsMatchAttempts, [Next]_vars
  PROVE  ResultsMatchAttempts'
<1>1. /\ Types /\ Matched /\ log \in Seq(Entry) /\ StatesAgree /\ ResultsLogged
      /\ ExecutableStarted /\ ExecutableRuns
  BY DEF MInv, IInv, Account, Messages, LogInStep
<1> PICK n \in Nat : n = Len(log)
  BY <1>1, NewMessages
<1>2. /\ DOMAIN log = 1 .. n /\ DOMAIN log' = 1 .. Len(log') /\ n <= Len(log')
      /\ Len(log') \in Nat /\ \A i \in 1 .. n : log'[i] = log[i]
  BY <1>1, NewMessages
<1>3. \A i \in DOMAIN log' : i \in 1 .. n \/ i \in (n + 1) .. Len(log')
  BY <1>2
<1>4. \A i \in DOMAIN log : Sent(i, "task_result") => OnlyResult(i) /\ Answered(i)
  BY DEF ResultsMatchAttempts, OnlyResult, Answered, NoStartAfter
<1>5. SUFFICES ASSUME NEW i \in DOMAIN log', log'[i].type = "task_result"
               PROVE  OnlyResult(i)' /\ Answered(i)'
  BY DEF ResultsMatchAttempts, OnlyResult, Answered, NoStartAfter, Sent
<1>6. ASSUME \A k \in (n + 1) .. Len(log') : log'[k].type # "task_result",
             \A k \in (n + 1) .. Len(log') :
               log'[k].type = "task_start" => ~ Committed(log'[k].task) /\ log'[k].task \in Task
      PROVE  OnlyResult(i)' /\ Answered(i)'
  <2>1. i \in DOMAIN log /\ log'[i] = log[i] /\ OnlyResult(i) /\ Answered(i)
    BY <1>2, <1>3, <1>4, <1>5, <1>6 DEF Sent
  <2>2. OnlyResult(i)'
    <3>1. \A k \in DOMAIN log' : log'[k].type = "task_result" => k \in DOMAIN log /\ log'[k] = log[k]
      BY <1>2, <1>3, <1>6
    <3> QED
      BY <2>1, <3>1 DEF OnlyResult, Sent
  <2>3. \A t \in Task : log[i].task = t => Committed(t)
    BY <1>1, <1>5, <2>1 DEF ResultsLogged, Sent
  <2>4. \A k \in (n + 1) .. Len(log') :
          log'[k].type = "task_start" => log'[k].task # log[i].task
    BY <1>6, <2>3
  <2> QED
    BY <1>1, <2>1, <2>2, <2>4, StillAnswered
<1>7. ASSUME NEW t \in Task, HandedOut(t)
      PROVE  OnlyResult(i)' /\ Answered(i)'
  <2>1. \A k \in (n + 1) .. Len(log') :
          log'[k].type # "task_result" /\ log'[k].task = t
    BY <1>1, <1>7, DispatchMessages
  <2>2. ~ Committed(t)
    BY <1>1, <1>7, DispatchedWaits DEF StatesAgree
  <2> QED
    BY <1>6, <2>1, <2>2
<1>8. CASE Commit
  <2>1. PICK t \in Task, w \in Worker :
          /\ Len(log') = n + 1
          /\ log'[n + 1] = Message("task_result", t, w, AttemptOf(t))
          /\ executable # <<>> /\ executable[1] = <<t, w>> /\ ~ Committed(t)
    BY <1>1, <1>8, CommitMessages
  <2> PICK m : m = Message("task_result", t, w, AttemptOf(t))
    OBVIOUS
  <2>2. /\ m.type = "task_result" /\ m.task = t
        /\ [m EXCEPT !.type = "task_start"] = Message("task_start", t, w, AttemptOf(t))
    BY DEF Message
  <2>3. ~ \E k \in DOMAIN log : Sent(k, "task_result") /\ log[k].task = t
    BY <1>1, <2>1 DEF ResultsLogged
  <2>4. CASE i \in 1 .. n
    <3>1. i \in DOMAIN log /\ log'[i] = log[i] /\ OnlyResult(i) /\ Answered(i)
      BY <1>2, <1>4, <1>5, <2>4 DEF Sent
    <3>2. log[i].task # t
      BY <1>5, <2>3, <3>1 DEF Sent
    <3>3. OnlyResult(i)'
      <4>1. ASSUME NEW k \in DOMAIN log', log'[k].type = "task_result",
                   log'[k].task = log'[i].task
            PROVE  i = k
        <5>1. k # n + 1
          BY <2>1, <2>2, <3>1, <3>2, <4>1
        <5>2. k \in DOMAIN log /\ log'[k] = log[k]
          BY <1>2, <2>1, <5>1
        <5> QED
          BY <3>1, <4>1, <5>2 DEF OnlyResult, Sent
      <4> QED
        BY <4>1 DEF OnlyResult, Sent
    <3>4. \A k \in (n + 1) .. Len(log') : log'[k].type # "task_start"
      BY <1>1, <1>8, OnlyDispatchStarts
    <3> QED
      BY <1>1, <3>1, <3>3, <3>4, StillAnswered
  <2>5. CASE i = n + 1
    <3>1. log'[i] = m
      BY <2>1, <2>5
    <3>2. OnlyResult(i)'
      <4>1. ASSUME NEW k \in DOMAIN log', log'[k].type = "task_result",
                   log'[k].task = t, k # n + 1
            PROVE  FALSE
        <5>1. k \in DOMAIN log /\ log'[k] = log[k]
          BY <1>2, <2>1, <4>1
        <5> QED
          BY <2>3, <4>1, <5>1 DEF Sent
      <4> QED
        BY <2>2, <2>5, <3>1, <4>1 DEF OnlyResult, Sent
    <3>3. StartedOn(t, w)
      <4>1. 1 \in DOMAIN executable
        BY <1>1, <2>1, TailFacts DEF Types
      <4> QED
        BY <1>1, <2>1, <4>1 DEF ExecutableStarted
    <3>4. PICK j \in 1 .. n :
            log[j] = Message("task_start", t, w, AttemptOf(t)) /\ NoStartAfter(j, t)
      BY <1>2, <3>3 DEF StartedOn
    <3>5. /\ j \in DOMAIN log' /\ j \in 1 .. (i - 1) /\ log'[j] = log[j]
          /\ log[j].type = "task_start"
      BY <1>2, <2>5, <3>4 DEF Message
    <3>6. ASSUME NEW k \in (j + 1) .. Len(log'), log'[k].type = "task_start"
          PROVE  log'[k].task # t
      <4>1. k # n + 1
        BY <2>1, <2>2, <3>6
      <4>2. k \in (j + 1) .. Len(log) /\ k \in DOMAIN log /\ log'[k] = log[k]
        BY <1>2, <2>1, <3>4, <4>1
      <4> QED
        BY <3>4, <3>6, <4>2 DEF NoStartAfter, Sent
    <3>7. Answered(i)'
      BY <2>2, <3>1, <3>4, <3>5, <3>6 DEF Answered, NoStartAfter, Sent
    <3> QED
      BY <3>2, <3>7
  <2> QED
    BY <1>2, <2>1, <2>4, <2>5
<1>9. CASE EndStep
  BY <1>1, <1>6, <1>9, EndStepMessages DEF IsBarrier
<1>10. CASE Quiet
  BY <1>6, <1>10 DEF Quiet
<1> QED
  BY <1>1, <1>7, <1>8, <1>9, <1>10, KindsOfSteps

\* The three parts of BarrierSeparatesSteps.
WaitsThenReleases ==
  \A i, j \in DOMAIN log :
    Sent(i, "barrier_release") /\ Sent(j, "barrier_wait") /\ log[i].step = log[j].step
      => j < i

ReleasesThenStarts ==
  \A i, j \in DOMAIN log :
    Sent(i, "barrier_release") /\ Sent(j, "task_start") /\ log[i].step < log[j].step
      => i < j

ReleasedBetween ==
  \A i, j \in DOMAIN log :
    Sent(i, "task_result") /\ Sent(j, "task_start") /\ log[i].step < log[j].step =>
      \E k \in (i + 1) .. (j - 1) :
        Sent(k, "barrier_release") /\ log[k].worker = log[i].worker

Separated == WaitsThenReleases /\ ReleasesThenStarts /\ ReleasedBetween

LEMMA NextSeparated ==
  ASSUME MInv, config.barrier, Separated, [Next]_vars
  PROVE  Separated'
<1>1. Types /\ Matched /\ log \in Seq(Entry) /\ step \in Nat
  BY DEF MInv, IInv, Account, Messages, LogInStep, Types
<1> PICK n \in Nat : n = Len(log)
  BY <1>1, NewMessages
<1>2. /\ DOMAIN log = 1 .. n /\ DOMAIN log' = 1 .. Len(log') /\ n <= Len(log')
      /\ Len(log') \in Nat /\ \A i \in 1 .. n : log'[i] = log[i]
      /\ \A i \in (n + 1) .. Len(log') : log'[i].step = step
  BY <1>1, NewMessages
<1>3. \A i \in DOMAIN log' : i \in 1 .. n \/ i \in (n + 1) .. Len(log')
  BY <1>2
<1>4. \A i \in 1 .. n : /\ log[i].step \in Nat /\ log[i].step <= step
                        /\ Running /\ IsBarrier(log[i].type) => log[i].step < step
  <2>1. \A i \in 1 .. n : log[i] \in Entry
    BY <1>1, <1>2
  <2> QED
    BY <1>2, <2>1 DEF MInv, Messages, LogInStep, Entry
<1>5. \A i \in DOMAIN log' : log'[i].step \in Nat /\ log'[i].step <= step
  BY <1>1, <1>2, <1>3, <1>4
<1>6. ASSUME NEW i \in 1 .. n, NEW j \in DOMAIN log', log'[i].type = "task_result",
             log'[j].type = "task_start", log'[i].step < log'[j].step
      PROVE  \E k \in (i + 1) .. (j - 1) :
               Sent(k, "barrier_release")' /\ log'[k].worker = log'[i].worker
  <2>1. PICK k \in (i + 1) .. n :
          k < j /\ Sent(k, "barrier_release") /\ log[k].worker = log[i].worker
    <3>1. CASE j \in 1 .. n
      <4>1. PICK k \in (i + 1) .. (j - 1) :
              Sent(k, "barrier_release") /\ log[k].worker = log[i].worker
        BY <1>2, <1>6, <3>1 DEF Separated, ReleasedBetween, Sent
      <4>2. k \in (i + 1) .. n /\ k < j
        BY <3>1, <4>1
      <4> QED
        BY <4>1, <4>2
    <3>2. CASE j \in (n + 1) .. Len(log')
      <4>1. Running
        <5>1. \E t \in Task : HandedOut(t)
          BY <1>1, <1>6, <3>2, KindsOfSteps, OnlyDispatchStarts
        <5> QED
          BY <5>1 DEF HandedOut, Running
      <4>2. log[i].type = "task_result" /\ log[i].step < step
        BY <1>2, <1>6, <3>2
      <4>3. ReleasedAfter(i)
        BY <1>2, <4>1, <4>2 DEF MInv, Messages, Released, Sent
      <4>4. \A k \in (i + 1) .. n : k < j
        BY <1>2, <3>2
      <4> QED
        BY <4>3, <4>4 DEF ReleasedAfter
    <3> QED
      BY <1>3, <3>1, <3>2
  <2>2. k \in 1 .. n /\ k \in DOMAIN log' /\ k \in (i + 1) .. (j - 1)
    BY <1>2, <2>1
  <2> QED
    BY <1>2, <2>1, <2>2 DEF Sent
<1>7. ReleasedBetween'
  <2>1. ASSUME NEW i \in (n + 1) .. Len(log'), NEW j \in DOMAIN log'
        PROVE  ~ (log'[i].step < log'[j].step)
    BY <1>1, <1>2, <1>5
  <2> QED
    BY <1>3, <1>6, <2>1 DEF ReleasedBetween, Sent
<1>8. ReleasesThenStarts'
  <2>1. ASSUME NEW i \in DOMAIN log', NEW j \in DOMAIN log',
               log'[i].type = "barrier_release", log'[j].type = "task_start",
               log'[i].step < log'[j].step
        PROVE  i < j
    <3>1. i \in 1 .. n
      BY <1>1, <1>2, <1>3, <1>5, <2>1
    <3>2. CASE j \in 1 .. n
      BY <1>2, <2>1, <3>1, <3>2 DEF Separated, ReleasesThenStarts, Sent
    <3>3. CASE j \in (n + 1) .. Len(log')
      BY <1>2, <3>1, <3>3
    <3> QED
      BY <1>3, <3>2, <3>3
  <2> QED
    BY <2>1 DEF ReleasesThenStarts, Sent
<1>9. ASSUME \A i \in (n + 1) .. Len(log') :
               log'[i].type \notin {"barrier_wait", "barrier_release"}
      PROVE  WaitsThenReleases'
  <2>1. ASSUME NEW i \in DOMAIN log', NEW j \in DOMAIN log',
               log'[i].type = "barrier_release", log'[j].type = "barrier_wait",
               log'[i].step = log'[j].step
        PROVE  j < i
    <3>1. i \in 1 .. n /\ j \in 1 .. n
      BY <1>3, <1>9, <2>1
    <3> QED
      BY <1>2, <2>1, <3>1 DEF Separated, WaitsThenReleases, Sent
  <2> QED
    BY <2>1 DEF WaitsThenReleases, Sent
<1>10. ASSUME NEW t \in Task, HandedOut(t)
       PROVE  WaitsThenReleases'
  BY <1>1, <1>9, <1>10, DispatchMessages
<1>11. ASSUME Commit
       PROVE  WaitsThenReleases'
  <2>1. PICK t \in Task, w \in Worker :
          /\ Len(log') = n + 1
          /\ log'[n + 1] = Message("task_result", t, w, AttemptOf(t))
    BY <1>1, <1>11, CommitMessages
  <2>2. \A i \in (n + 1) .. Len(log') : i = n + 1
    BY <2>1
  <2>3. log'[n + 1].type = "task_result"
    BY <2>1 DEF Message
  <2> QED
    BY <1>9, <2>2, <2>3
<1>12. ASSUME EndStep
       PROVE  WaitsThenReleases'
  <2>1. PICK b \in n .. Len(log') :
          /\ \A i \in (n + 1) .. b : log'[i].type = "barrier_wait"
          /\ \A i \in (b + 1) .. Len(log') : log'[i].type = "barrier_release"
    BY <1>1, <1>12, EndStepLogs
  <2>2. Running
    BY <1>12 DEF EndStep, Running
  <2>3. ASSUME NEW i \in DOMAIN log', NEW j \in DOMAIN log',
               log'[i].type = "barrier_release", log'[j].type = "barrier_wait",
               log'[i].step = log'[j].step
        PROVE  j < i
    <3>1. CASE i \in 1 .. n /\ j \in 1 .. n
      BY <1>2, <2>3, <3>1 DEF Separated, WaitsThenReleases, Sent
    <3>2. CASE i \in 1 .. n /\ j \in (n + 1) .. Len(log')
      <4>1. log[i].step = step /\ IsBarrier(log[i].type)
        BY <1>2, <2>3, <3>2 DEF IsBarrier
      <4> QED
        BY <1>1, <1>4, <2>2, <3>2, <4>1
    <3>3. CASE i \in (n + 1) .. Len(log') /\ j \in 1 .. n
      BY <1>2, <3>3
    <3>4. CASE i \in (n + 1) .. Len(log') /\ j \in (n + 1) .. Len(log')
      <4>1. i \notin (n + 1) .. b /\ j \notin (b + 1) .. Len(log')
        BY <2>1, <2>3
      <4> QED
        BY <1>2, <2>1, <3>4, <4>1
    <3> QED
      BY <1>3, <3>1, <3>2, <3>3, <3>4
  <2> QED
    BY <2>3 DEF WaitsThenReleases, Sent
<1>13. ASSUME Quiet
       PROVE  WaitsThenReleases'
  BY <1>9, <1>13 DEF Quiet
<1>14. WaitsThenReleases'
  BY <1>1, <1>10, <1>11, <1>12, <1>13, KindsOfSteps
<1> QED
  BY <1>7, <1>8, <1>14 DEF Separated

-----------------------------------------------------------------------------
(* Types of what the run reports.                                            *)

Diagnostics == {"CRR-RUN-004", "CRR-RUN-005", "CRR-RUN-008", "CRR-STA-005"}

Reports ==
  /\ children \in [Task -> ChildStatus]
  /\ state_version \in Len(snapshots) .. (Len(snapshots) + 1)
  /\ diagnostics \subseteq Diagnostics
  /\ status \in {"running", "completed", "failed", "error"}
  /\ step <= LastStep
  /\ RetriedOnce

LEMMA NextReported ==
  ASSUME children \in [Task -> ChildStatus], diagnostics \subseteq Diagnostics,
         status \in {"running", "completed", "failed", "error"}, [Next]_vars
  PROVE  /\ children' \in [Task -> ChildStatus] /\ diagnostics' \subseteq Diagnostics
         /\ status' \in {"running", "completed", "failed", "error"}
<1> USE DEF ChildStatus, Diagnostics
<1>1. CASE Dispatch
  <2>1. diagnostics' \subseteq diagnostics \cup {"CRR-RUN-004"}
        /\ UNCHANGED <<children, status>>
    BY <1>1 DEF Dispatch
  <2> QED
    BY <2>1
<1>2. CASE StepLimit
  BY <1>2 DEF StepLimit
<1>3. CASE SpawnFails \/ AllSpawned
  BY <1>3 DEF SpawnFails, AllSpawned
<1>4. ASSUME NEW t \in Task, Spawn(t) \/ ChildReads(t) \/ ChildEnds(t)
      PROVE  /\ children' \in [Task -> ChildStatus] /\ diagnostics' \subseteq Diagnostics
             /\ status' \in {"running", "completed", "failed", "error"}
  BY <1>4 DEF Spawn, ChildReads, ChildEnds
<1>5. ASSUME NEW t \in Task, Collect(t) \/ Abort(t) \/ ExecuteHere(t)
      PROVE  /\ children' \in [Task -> ChildStatus] /\ diagnostics' \subseteq Diagnostics
             /\ status' \in {"running", "completed", "failed", "error"}
  BY <1>5 DEF Collect, Abort, ExecuteHere
<1>6. CASE AllCollected \/ Commit \/ EndStep
  BY <1>6 DEF AllCollected, Commit, EndStep
<1>7. CASE Evaluate
  BY <1>7 DEF Evaluate
<1>8. CASE UNCHANGED vars
  BY <1>8 DEF vars
<1> QED
  BY <1>1, <1>2, <1>3, <1>4, <1>5, <1>6, <1>7, <1>8 DEF Next, Coordinator

LEMMA NextReports ==
  ASSUME MInv, Reports, [Next]_vars
  PROVE  Reports'
<1>1. /\ Types /\ Matched /\ log \in Seq(Entry) /\ Versions /\ Fixed /\ ExecutableRuns
      /\ task_states \in [Task -> TaskStatus] /\ snapshots \in Seq(Snapshots)
      /\ step \in Nat /\ state_version \in Nat
  BY DEF MInv, IInv, Account, Messages, LogInStep, Types
<1>2. /\ children' \in [Task -> ChildStatus] /\ diagnostics' \subseteq Diagnostics
      /\ status' \in {"running", "completed", "failed", "error"}
  BY NextReported DEF Reports
<1>3. LastStep \in Nat /\ LastStep' = LastStep
  <2>1. deps' = deps
    <3>1. Dispatch \/ Commit \/ EndStep \/ Quiet
      BY FourKindsOfSteps
    <3> QED
      BY <3>1 DEF Dispatch, Commit, EndStep, Quiet
  <2>2. LogicalStep' = LogicalStep
    BY <2>1, StepsStay
  <2> QED
    BY <1>1, <2>2, LastStepFacts, CountsAreNatural DEF Fixed, LastStep, TasksAt
<1>5. CASE EndStep
  <2>1. step' <= LastStep'
    BY <1>1, <1>3, <1>5 DEF EndStep, Reports
  <2>2. state_version = Len(snapshots) /\ state_version' = state_version + 1
    BY <1>5 DEF EndStep, MInv, IInv, Versions
  <2>3. snapshots' = snapshots \/ Len(snapshots') = Len(snapshots) + 1
    <3>1. snapshots' = snapshots \/ snapshots' = Append(snapshots, Snapshot)
      BY <1>5 DEF EndStep
    <3> QED
      BY <1>1, <3>1, SnapshotType, AppendFacts
  <2>4. state_version' \in Len(snapshots') .. (Len(snapshots') + 1)
    <3>1. Len(snapshots) \in Nat
      BY <1>1
    <3> QED
      BY <2>2, <2>3, <3>1
  <2>5. RetriedOnce'
    BY <1>5 DEF EndStep, Reports, RetriedOnce
  <2> QED
    BY <1>2, <2>1, <2>4, <2>5 DEF Reports
<1>6. ASSUME NEW t \in Task, HandedOut(t)
      PROVE  RetriedOnce'
  <2>1. /\ task_states[t] = "pending" /\ task_states'[t] # "pending" /\ config' = config
        /\ \A u \in Task : u # t => task_states'[u] = task_states[u]
    BY <1>1, <1>6, DispatchedWaits DEF HandedOut
  <2>2. CASE retries' = retries
    <3>1. ASSUME NEW u \in Task, u = config.fail_task_once, task_states[u] # "pending"
          PROVE  task_states'[u] # "pending"
      BY <2>1, <3>1
    <3> QED
      BY <2>1, <2>2, <3>1 DEF Reports, RetriedOnce
  <2>3. CASE config.fail_task_once = t /\ retries' = retries + 1
    <3>1. retries = 0
      BY <2>1, <2>3 DEF Reports, RetriedOnce
    <3> QED
      BY <2>1, <2>3, <3>1 DEF RetriedOnce
  <2> QED
    BY <1>6, <2>2, <2>3 DEF HandedOut
<1>7. ASSUME Commit
      PROVE  RetriedOnce'
  <2>1. PICK t \in Task, w \in Worker :
          task_states' = [task_states EXCEPT ![t] = "completed"]
    BY <1>1, <1>7, CommitMessages
  <2>2. \A u \in Task : task_states[u] # "pending" => task_states'[u] # "pending"
    BY <1>1, <2>1
  <2> QED
    BY <1>7, <2>2 DEF Commit, Reports, RetriedOnce
<1>8. ASSUME Quiet
      PROVE  RetriedOnce'
  BY <1>8 DEF Quiet, Reports, RetriedOnce
<1>9. CASE \E t \in Task : HandedOut(t)
  <2>1. UNCHANGED <<step, state_version, snapshots>>
    BY <1>9 DEF HandedOut
  <2>2. RetriedOnce'
    BY <1>6, <1>9
  <2> QED
    BY <1>2, <1>3, <2>1, <2>2 DEF Reports
<1>10. CASE Commit \/ Quiet
  <2>1. UNCHANGED <<step, state_version, snapshots>>
    BY <1>10 DEF Commit, Quiet
  <2>2. RetriedOnce'
    BY <1>7, <1>8, <1>10
  <2> QED
    BY <1>2, <1>3, <2>1, <2>2 DEF Reports
<1> QED
  BY <1>1, <1>5, <1>9, <1>10, KindsOfSteps

-----------------------------------------------------------------------------
(* Theorems.                                                                 *)

\* TypeOK collects what the invariants say of the single variables.
LEMMA TypesTogether == MInv /\ Reports => TypeOK
<1> SUFFICES ASSUME MInv, Reports
             PROVE  TypeOK
  OBVIOUS
<1>1. Types /\ Matched /\ Fixed /\ log \in Seq(Entry)
  BY DEF MInv, IInv, Account, Messages, LogInStep
<1>2. step \in 0 .. NumTasks - 1
  <2>1. LastStep \in 0 .. NumTasks - 1 /\ NumTasks \in Nat
    BY <1>1, LastStepFacts, CountsAreNatural DEF Fixed
  <2> QED
    BY <1>1, <2>1 DEF Types, Reports
<1>3. phase \in {"dispatch", "collect", "commit", "evaluate", "over"}
  BY <1>1 DEF Types, Phases
<1>4. executable \in Seq(Task \X Worker) /\ results \in Seq(Task) /\ completed \in Seq(Task)
      /\ task_states \in [Task -> TaskStatus] /\ Len(results) <= Len(executable)
  BY <1>1 DEF Types, Pair, Matched
<1>5. worker_states \in [Worker ->
        [status : {"ready", "unavailable"}, completed_tasks : SUBSET Task]]
  BY <1>1 DEF Types, WorkerState
<1>6. log \in Seq([type : MessageTypes, task : Task \cup {NoTask}, worker : Worker,
                   step : Nat, attempt : 0 .. 2])
  BY <1>1 DEF Entry
<1>7. /\ children \in [Task -> ChildStatus] /\ retries \in 0 .. 1
      /\ state_version \in Len(snapshots) .. (Len(snapshots) + 1)
      /\ diagnostics \subseteq {"CRR-RUN-004", "CRR-RUN-005", "CRR-RUN-008", "CRR-STA-005"}
      /\ status \in {"running", "completed", "failed", "error"}
  BY DEF Reports, RetriedOnce, Diagnostics
<1> QED
  BY <1>1, <1>2, <1>3, <1>4, <1>5, <1>6, <1>7 DEF TypeOK, Fixed

\* The variables of a run keep their types: it stays within the steps of its
\* plan, retries one task at most once, and is at most one version ahead of its
\* snapshots.
THEOREM TypesHold == Spec => []TypeOK
<1>1. Init => Reports
  <2> SUFFICES ASSUME Init
               PROVE  Reports
    OBVIOUS
  <2>1. /\ deps \in Plans /\ step = 0 /\ retries = 0 /\ state_version = 0
        /\ snapshots = <<>> /\ diagnostics = {} /\ status = "running"
        /\ children = [t \in Task |-> "none"]
    BY DEF Init
  <2>2. step <= LastStep
    BY <2>1, LastStepFacts, CountsAreNatural
  <2> QED
    BY <2>1, <2>2 DEF Reports, RetriedOnce, ChildStatus
<1>2. MInv /\ Reports /\ [Next]_vars => Reports'
  BY NextReports
<1>3. MInv /\ Reports => TypeOK
  BY TypesTogether
<1> QED
  BY <1>1, <1>2, <1>3, MessagesInductive, PTL DEF Spec

\* No task starts before the results it needs were committed, unless the task
\* to deliver one was given up.
THEOREM StartsWait == Spec => []StartsFollowResults
<1>1. Init => StartsFollowResults
  BY DEF Init, StartsFollowResults, Sent
<1>2. MInv /\ StartsFollowResults /\ [Next]_vars => StartsFollowResults'
  BY NextStartsFollow
<1> QED
  BY <1>1, <1>2, MessagesInductive, PTL DEF Spec

\* A task answers at most once, for its last attempt and from the worker that
\* attempt was started on: a lost attempt never answers.
THEOREM ResultsAnswer == Spec => []ResultsMatchAttempts
<1>1. Init => ResultsMatchAttempts
  BY DEF Init, ResultsMatchAttempts, Sent
<1>2. MInv /\ ResultsMatchAttempts /\ [Next]_vars => ResultsMatchAttempts'
  BY NextResultsMatch
<1> QED
  BY <1>1, <1>2, MessagesInductive, PTL DEF Spec

\* With the barrier policy a step's workers all report before one is released,
\* and all are released before a task of a later step starts.
THEOREM StepsAreSeparated == Spec => []BarrierSeparatesSteps
<1>1. Init => (config.barrier => Separated)
  <2> SUFFICES ASSUME Init
               PROVE  Separated
    OBVIOUS
  <2>1. log = <<>>
    BY DEF Init
  <2> QED
    BY <2>1 DEF Separated, WaitsThenReleases, ReleasesThenStarts, ReleasedBetween
<1>2. MInv /\ (config.barrier => Separated) /\ [Next]_vars
        => (config.barrier => Separated)'
  <2> SUFFICES ASSUME MInv, config.barrier => Separated, [Next]_vars, config'.barrier
               PROVE  Separated'
    OBVIOUS
  <2>1. config' = config
    <3>1. Dispatch \/ Commit \/ EndStep \/ Quiet
      BY FourKindsOfSteps
    <3> QED
      BY <3>1 DEF Dispatch, Commit, EndStep, Quiet
  <2> QED
    BY <2>1, NextSeparated
<1>3. (config.barrier => Separated) => BarrierSeparatesSteps
  BY DEF Separated, WaitsThenReleases, ReleasesThenStarts, ReleasedBetween,
         BarrierSeparatesSteps
<1> QED
  BY <1>1, <1>2, <1>3, MessagesInductive, PTL DEF Spec
=============================================================================
