# ReasonScript: TLA+ models, model checks and proofs

ReasonScript is a language and toolchain for "Reason" programs: a Python front end and toolchain
(`frontend/`, `toolchain/`, `scripts/`), Rust runtimes (`ReasonRuntime/`, `HybridRuntime/`,
`ClusterRuntime/`, `RuntimeReal/`, `VisualizationRuntime/`), SDKs, editors and playgrounds. Most of it
translates data: parsers, lowerings, numeric kernels. What a model checker is good for is the part where
*state is kept over many steps and things can go wrong between two of them*: transactions over reason
states and graph files, the installation updater, the cluster runtimes, the life of tensors in the evaluator,
and the state trace of the VM. This directory models those.

`PROJECT.json` is the index: components, runs, hazards, the map from definitions to source lines, findings,
theorems. Paths below are relative to the repository.

## 1. Inventory

| Component | State it keeps | Operations | What is hard | Here |
|---|---|---|---|---|
| Transaction kernel (`HybridRuntime/src/transaction.rs` over `StateKernel`, `Trace` in `reason_ir.rs`) | current snapshot, candidates, deltas, trace, audit records, used ids | `prepare`, `validate`, `commit`, `rollback` | calls of several transactions interleave; stale candidates; states that come back; four structures in step | `TransactionKernel`, `StateLedger`, `TransactionKernel_proofs` |
| Installation updater (`toolchain/install_update/core.py`, `platform.py`, `InstallFoundationUpdater/src/main.rs`) | the install root on disk: pointer, link, three documents, history, `versions/`, `staging/`, `backup/` | `discover` (with v1.0 migration), `update`, automatic rollback, `rollback` | I/O errors and crashes between two file operations; leftovers of earlier attempts | `InstallUpdate`, `InstallUpdate_proofs` |
| Cluster coordinator (`ClusterRuntime/src/runtime.rs`, `worker.rs`) | task and worker states, message log, committed tasks, snapshots | one run: dispatch, spawn, collect, commit, barrier, evaluate | worker processes end in any order, fail or hang; a lost worker and one retry; limits between steps | `ClusterCoordinator`, `ClusterCoordinator_proofs` |
| Dynamic ReasonUnit cluster (`ClusterRuntime/src/dynamic/`) | units and their lifecycle, branches, plan revisions, proposal records, budgets | one run: seeds, proposal loop, scenario, schedule, report, artifacts, replay | five counters and maps that must agree however proposals are refused, merged or dropped | `DynamicCluster`, `DynamicCluster_proofs` |
| Cluster planner, messages, state, evaluator | none of their own | `build_cluster_plan`, `MessageLog::send`, `StateSnapshot::new`, `evaluate` | - | inside `ClusterCoordinator` |
| Runtime waves (`ClusterRuntime/src/visual.rs`, `uera.rs`) | outputs by task, memory and operation counts | `run_runtime` in dependency waves | threads; a wall-clock limit tested between waves | planned |
| Graph transactions (`toolchain/reason_object_graph/persistence.py`, `transaction.py`, `format.py`, `native_graph.py`; `transact_reason_graph_file` in `ReasonRuntime/crates/reason-object-core/src/lib.rs`) | one graph file, temporary files | `transact`, `native-transact` | no lock; a temporary name shared by all runs of a transaction; a timeout that kills; retries | `GraphTransaction`, `GraphTransaction_proofs` |
| Tensor runtime and evaluator (`frontend/tensor/runtime.py`, `frontend/integrated_computation_runtime.py`) | live tensors, autograd tape, protected roots, frames | create, operate, call, return, loop, `collect`, `parameter`, `detach`, `grad` | releases after every statement against roots kept in three places | `TensorLifetime`, `TensorLifetime_proofs` |
| State trace (`ReasonRuntime/crates/computation-ir/src/state_trace.rs`, driven by `vm.rs`) | per frame: traced state, address index, hash, pending changes | assign, store, mutate, begin, flush, end, finish | aliases across suspended frames; freed addresses; match guards; returns inside loops | `StateTrace`, `StateTrace_proofs`, `StateJournal_proofs` |
| Reasoning state (`ReasonRuntime/crates/computation-ir/src/reasoning_state.rs` and its neighbours) | versions, observations, bounded events | observe, reuse, evict | versions against bounded storage | planned |
| Update packages, provenance, installer | documents | validation, file copying | - | external verdict / initial state |
| Hybrid search and closure, rest of the VM, tensor, geometry and vision kernels | values | pure computations, floats | data | not modelled |
| Front end, language server, IDE, toolchain commands, SDKs, playgrounds, legacy Elixir runtime | documents, syntax trees | translations | data, I/O | not modelled |

How they interact: the front end and toolchain produce bundles (reason IR, execution plan) that
`reason-cluster` runs with the coordinator or the dynamic cluster; the two share configuration and planner but
no run-time state. The transaction kernel is a library object of the hybrid runtime. Graph files are read and written
by command-line processes that share nothing but the file system. The evaluator owns its tensor runtime, and the VM its
state traces: `TensorLifetime` and `StateTrace` are each the composition of the two, an interpreter and the
bookkeeping it calls. The updater installs releases of all of it and shares nothing with them but the install root. The
other compositions here are of a component with its environment (processes, disk, callers) and of the kernel with
its abstract ledger.

## 2. Modules

Each component has a module with one action per operation, handler or step; an `MC...` module adds what TLC
needs (constants' values, a stuttering step where a run is really over), and the `.cfg` gives the bounds.
Early returns are the guards; a call that changes nothing is a stuttering step. Definitions named `Slip...`,
or commented as a mutant, are *not* part of a specification: each is what a plausible bug would put in the place
of one definition, and shows that a property can fail.

### TransactionKernel (and StateLedger)

One action per method. Fields keep their Rust names; `"candidate-N"` is `N`. The two guards that matter are
`Committable` (the *whole* current snapshot equals the one the candidate was prepared on) and `Reversible` (the
current state equals the delta's result and the delta was not undone before). `Emit` is the tail the two share.
Abstracted: timestamps, plan ids, names of failed checks.

`StateLedger` is what a client may rely on, without candidates, deltas or audit: a history of states that only
grows; an owner acts once; an offer is taken up at most once and only on the very state it was made against; a
step is undone at most once and while it is current. `ImplementsLedger` is the refinement: `history` is read off
the deltas, `offers` are the candidates neither rejected nor committed.

### InstallUpdate

The state is the disk; every step is one file or directory operation, so a `Fault` (an I/O error, handled as
`update` or `_automatic_rollback` handles it, or raised out of both when nothing catches it) or a `Crash` falls between
any two. `Discoverable` is the test `discover` makes, `Migrate` the v1.0 migration, `PrepareStaging` ...
`PlaceFinal` the preparation, `SwitchPointer` ... `UndoLink` `activate_version` with its handler, which is not yet around
`ClearTemporaries`: `exposed` remembers an error there, after the pointer and before the `try`. `BackUp` and
`Write` are `_complete`, `RecordRollback` and `Restore...` `_automatic_rollback`. Opening and vetting a package and the
post-install validation are nondeterministic verdicts. One engine runs at a time (the code has no lock either way).

### ClusterCoordinator

The coordinator is one thread (`Dispatch`, `Spawn`, `Collect`, `Abort`, `Commit`, `EndStep`, `Evaluate`...), each child
process an actor that `ChildEnds` may end, well or broken, or that never ends. Children are started one by one, and each
gets its request by a `write_all` that has no timeout: the coordinator goes on only after `ChildReads`, since a request
larger than the pipe fits only as the child takes it (a child that ended instead is `"refused"`, and the run an error).
They are awaited in dispatch order (`Awaited`), as `execute_local_processes` does. In the other modes, and in the
single-node fallback, the coordinator executes the tasks itself (`ExecuteHere`), and waits for the runtime host as long as
that takes. A child blocked on a full stdout pipe is one that hangs. Tasks are numbered in the planner's order, their inputs come
from earlier tasks, `LogicalStep` is `assign_depths`.

### DynamicCluster

One action per branch of the proposal loop: `Duplicate`, `Refuse` (the chain `Objection`, then `Conflicts`), `Accept`,
and `Drop`, the path past the branch limit that has already counted the proposal. Proposals are taken in any order
the canonical sort allows. Lifecycle moves are walks through `Allowed`; an illegal one ends the run in `error`, as `?`
does. `Validate` is the replay of the artifacts. The id of a unit is the triple its checksum is computed from. A
bundle's proposal cannot name a dynamic unit as a parent (its id is a checksum over the bundle), so parents are seeds or
missing, and missing is one of the flaws. `max_units_per_branch`, `max_logical_steps` and `max_state_bytes` are not in the
model because the run never reads them.

### GraphTransaction

One step per file operation, for any number of processes. `transact` is `Load` (`read_graph`), `Keep` (`before_bytes`),
`Decide`, then `Refuse` or `Open`, `Write`, `Rename` (`write_graph`); `native-transact` starts with the wrapper's `Keep` and `Peek`,
runs the native program (`Load`, `Decide`, `Open`, `Write`, `Rename`, `Clean`) and ends in the wrapper's `Refuse` or `Check`. `Fail`
is an I/O error, `Die` a kill, which leaves the temporary file behind. The two programs do not judge alike: Python validates
a candidate before it commits it and a graph when it reads it (`Acceptable`, `Reads`), the native program compares the hash and
makes some of the structural checks when it loads, so that it may publish what `validate_graph` objects to. Which graphs
are valid is the constant `Valid`; of an invalid graph the native `Load` may take it or refuse it. Files are inodes with names, since a program
that has a file open writes to it after another process has renamed it. A graph is the set of proposals applied to the
first one, its hash is the graph itself, and a file that is empty stands for every truncated or half-written one.
`shared` records that two native programs have written for one transaction at once, `unchecked` that a native program has
accepted an invalid candidate.

### TensorLifetime

A tensor is its id. `rt` is the `TensorRuntime` (references, tape nodes, tape roots, tracked ids), `frames` the evaluator's
call stack; each frame has its variables and, since they live in Python locals that no root names, the operand an
expression has already evaluated while it calls a function, and the values a `for` loop still has to bind. A statement is
one step that ends with `collect`; a call is two (`Call`, `Return`), with the callee's statements between. `flow` and
`silentZero` are histories: the parameters a tensor was computed from since the tape was last cut, and whether a `grad`
ever answered zeros for one of them.

### StateTrace

A program is any sequence of writes, calls, returns, loops and match arms over two names, in frames whose values share
containers; each is one action that changes the heap and calls the tracer as `vm.rs` does. `TraceAssign`, `Mutation`,
`Register`, `Unregister` and `Replace` are the tracer's functions, `Diff` and `HashTree` its JSON difference and its hash over
leaves (a set of leaves here; the xor of two equal leaves cancels). `reader` and `Replay` are the consumer of the
events, taken from `verify_trace` in `computation_ir_tests/test_relation_state_runtime.py`.

## 3. Runs

All runs use two workers and end within about two minutes. Deadlock is checked everywhere but in
`transaction_kernel`, `tensor_lifetime` and `tensor_pending`, whose instances really stop when the transaction ids or the
tensors are used up or the program has ended in an error.

| Run | What it asks | Instance, and why it is enough |
|---|---|---|
| `transaction_kernel` | types, chain, trace, rollback, one effect per transaction, audit log, refinement of the ledger | 5 interchangeable ids and a blank one, 3 snapshots of which two share an id, at most 3 candidates. Three snapshots let the state return to a prepared base by another way; two ids besides the candidates' give rollbacks of rollbacks |
| `install_update` | what every interruption leaves on disk | 3 versions, 4 operations, 2 I/O errors in one operation, 2 crashes: an update can meet the leftovers of an earlier one, a rollback can go to a newer version, a handler can fail itself |
| `install_healthy` | the claim `previous_installation_healthy` of every rollback report (violated) | no error and no crash needed |
| `install_pointer` | the comment "restore it if the compatibility switch fails" (violated) | one operation, one I/O error |
| `cluster_coordinator` | order of starts, results, commits and barriers; accounting; that a run ends | every plan of 4 tasks (diamonds and two independent chains included), 2 workers, with processes or in the coordinator, every failing task, 0 or 1 retries, barrier or not, 1 to 3 steps |
| `dynamic_cluster` | whether the bookkeeping of a run agrees with itself and its replay | up to 3 proposals over 2 contents, depths 0 to 2, 2 steps, 2 epochs, one contested path, one flaw; 8 settings in which a limit bites alone; 2 seeds. Three proposals are what it takes for one to be judged against traces of a second that a third limit removed |
| `graph_transaction` | whether the graph file is whole, can be decoded, and holds only what was proposed for it | 2 processes, 3 transactions of which the third needs the first to be valid, 3 commands of either kind, 4 files. Two commands can be at any two steps at once; the third retries one that was killed, or is another transaction between a lost answer and the retry. Four files suffice, since each command opens at most one beside the first |
| `tensor_lifetime` | what `collect` may release | 2 variables, 5 tensors of which 4 live at once, 2 tape nodes, calls 2 deep: every limit is hit, a parameter reaches a loss through one node or two, a caller is suspended under a suspended caller |
| `tensor_pending` | the docstring of `protect`: caller-owned values stay alive (violated) | one call in a second operand |
| `state_trace` | whether the trace, its index and its events agree with the program | 2 names, 2 structs, 1 array of at most 2 of them, 2 integers, 2 frames, 1 loop level, 6 steps: a struct can be reached at once by a name, through the array and from a suspended caller, be freed, and its address used again |
| `state_trace_return` | the documentation's claim that a frame's first event has a checkpoint (violated) | one write and a return in a first loop turn |
| `dynamic_budget` | the test's claim that budget termination is not convergence (violated) | one proposal, the message budget |

Fairness is assumed in one place, for `RunEnds`: weak fairness of the coordinator's own steps taken together. It is one
thread in a loop, so as long as one of these is possible it takes one. Nothing is assumed of what it waits for: a child need
not read its request or end (`ChildReads`, `ChildEnds`), a task executed in the coordinator need not return (`ExecuteHere`).
So `RunEnds` says what the code guarantees and no more: a run ends although a child may hang, because the timeout lets
`Abort` act, unless it stays for ever in one of the two waits without a timeout (`UntimedWait`).

### Properties worth a reader's time

- `OneEffectPerTransaction`, `RollbackReversesOnce`, `ImplementsLedger`: the kernel compares snapshots, so a state that
  *comes back* reopens old candidates and deltas. These say that each is still used at most once.
- `CommitNeverFailsLate`: the checks made at `prepare` still hold whenever `commit` passes its own, so that the `?` in
  the middle of `commit` never leaves things half done.
- `ActiveVersionIsKept`, `UpdateActivatesWholeVersion`: an update may be killed anywhere, also on
  top of an earlier interrupted one.
- `FailedUpdateIsContained`, `CompletedCanBeUndone`, `RolledBackAgrees`, `RollbackRestoresDocuments`: what an
  update's report promises about pointer, link and three documents. After one I/O error a failed update has left all of
  them, but for the recorded previous version, as they were, with one exception that the property states exactly: an
  error while `activate_version` clears the leftovers of an earlier process (`platform.py:103-108`) comes after the pointer
  was switched and before the `try`. Then the report is "failed", the launcher starts the new version, and `discover`
  refuses the installation because the documents name the old one.
- `StartsFollowResults`, `CompletedMeansEverything`: the coordinator does start dependents of a task it gave up; such a
  run is never reported as completed.
- `BarrierSeparatesSteps`, `CommitOrderIsCanonical`, `ResultsMatchAttempts`: the log of a run does not depend on the order in
  which worker processes end.
- `ErrorsHaveACause`, `RecordsAreGrounded`, `ConvergenceIsEarned`: `Drop` counts a proposal that leaves no unit. It does no
  harm to the replay only because branches never go away: after one drop nothing is accepted any more.
- `RunEnds`: the timeout covers the wait for a child's end and nothing before it, so that the property names the two waits it
  does not cover.
- `WholeUnlessShared`: the documented "publication without partial writes", with its one exception stated exactly: two
  native programs that run one transaction at the same time share a temporary file, and the first to rename may
  publish what the second has just truncated. A process that is only cleaning up is no danger: it makes the other's
  rename fail. Not stated, because the code does not promise it: that both of two reported commits survive. Two
  commands whose proposals saw one graph can both rename; the second wins. That the whole file can also be *decoded* has a
  second exception: the native program publishes before the wrapper compares the outcomes (`RGO-NATIVE-TX-002`), and
  does not run `validate_graph`, so that a single undisturbed `native-transact` can leave a file Python refuses. The
  comment on `transact_reason_graph_file` (`lib.rs:1375`, "preserves all graph identities, references, and lifecycle
  semantics") describes a subset of proposals that the function has since outgrown.
- `ProposalsApplyToWhatTheySaw`: neither lost answers with retries, nor a stale load, nor a shared temporary file ever puts a
  graph in the file that nobody proposed.
- `BoundValuesStayAlive`, `TapeIsLive`, `FreshGradientsAreComplete`: `collect` runs after every statement of every callee; what a
  suspended caller has bound survives, the tape never refers to a released tensor, and zeros from `grad` are never
  silent within one training step. Across a cut they are: after a `grad` or `detach`, the gradient of another loss
  computed before it is zeros without an error.
- `TraceMirrorsTheFrames`, `AliasesAreExact`, `JournalReplays`: a write through any alias reaches every frame's trace, the index
  holds no freed address, and the emitted changes replay to the traced state.

### Findings

1. `install_healthy`: a rollback to a version that has no backup (one an earlier rollback left, say: two rollbacks in a row
   after one update) rewrites `install_state.json` and leaves `installed_files.json` naming the other version. Its report
   says `previous_installation_healthy: true`; the next `discover` refuses the installation.
2. `install_pointer`: after a failed link switch the handler rewrites `current.json` with the failed version as
   `previous_version`: the pointer is usable but not what it was, and an explicit rollback would go to the failed version.
3. `dynamic_budget`: a run that only its message budget ends has the status `budget_terminated` and the convergence reason
   `quiescence`, since the reason is fixed before the message budget is looked at.
4. `tensor_pending`: in `tensor.multiply(tensor.create([1.0, 2.0]), f(1))` the first operand is released by the `collect` after
   the first statement of `f`, and the multiplication raises TSF-018. `protect` registers the caller's variables only.
5. `state_trace_return`: a function that writes a variable and returns in the first turn of its first loop emits one event,
   without the checkpoint that `docs/reference/cli.md` promises for the first event of a frame: a reader cannot replay it.

## 4. Proofs

`TransactionKernel_proofs` proves, for every set of ids and snapshots (assuming only that snapshots have ids and the
initial state is a snapshot): `TypeCorrect`, `ChainComplete` (`DeltaChain`), `TraceComplete` (`TraceMatchesDeltas`) and
`CommitAlwaysApplies` (`CommitNeverFailsLate`).

The chain alone is nearly inductive: a commit appends a delta from the current state, so it only needs the types. The
last theorem is not: that a stored candidate's transition still starts at its base and ends at its proposal is known from
`prepare` only. `IInv` adds this as `CandidatesSound`; with it, `Committable` gives that the base *is* the current state and
the state kernel's two checks follow. `NextIInv` has one step per action, and under it one per conjunct; `AppendFacts` and
`InsertFacts` say what sequences and maps do, `EmitTypeOK` and `EmitKeepsChain` what the shared tail of commit and rollback
does.

On top of it stand `OneEffect` (`OneEffectPerTransaction`) and `OneReversal`
(`RollbackReversesOnce`). Neither is inductive
alone. That an id has one event follows from `EffectInv`: every candidate and
event names a used id (`IdsAreUsed`), no two candidates share one (`OneCandidatePerId`), and an event with a candidate's id is
that candidate's commit (`EventsAreCommits`), so a candidate not yet committed has no event and a fresh id has neither. That a
delta has one reversal follows from `ReversalInv`: the source of each `RolledBack` record is in `rolled_back_deltas`, which is
what `rollback` tests, and both deltas the record names exist and undo each other (`Reverses`). `KeptReversal` carries this
over a step that only adds deltas, `FreshEffect` the first over a step that adds an event.

`OneLife` (`AuditTellsOneLife`) says that the audit log tells one legal life of each transaction. `AuditInv` adds that a record
names a used id, and that a committed candidate was validated and accepted; then a new
record continues only the last one of its own transaction (`RecordContinues`), and the lives of the others are
untouched (`RecordKeepsLives`).

`KernelIsLedger` (`ImplementsLedger`) is the refinement of `StateLedger`. The mapping computes
the ledger's history from the deltas; `HistoryFacts` and `EmitAppends` say that it is one state longer than the deltas, ends
in the current state, and grows by exactly the new state when a delta is emitted. Each method is then one step of the
ledger or a stutter. That a commit takes up an offer that is there, and takes only that one away (`OfferTaken`), needs
`OneCandidatePerId`, and that its owner has not acted before needs that an id has one event: the two invariants above.

`GraphTransaction_proofs` proves, for any number of processes, transactions, files and commands: `TypesSound` (`TypeOK`), `WholeFile`
(`WholeUnlessShared`) and `ProposalsSound` (`ProposalsApplyToWhatTheySaw`). It assumes that there is a transaction, that no file
is the value for "no file", that the bound on commands is a number, and that the first graph is valid. Even types are not inductive alone: that a file
has one name after a rename needs to know that a private file had none. `FileInvariant` adds `PrivateFiles`, of the Python
commands' files, always, and `OwnFiles`, of the native programs' files, while nothing was shared: a writer's file is not
the graph file, has no name but its transaction's, is no other writer's, and holds nothing or the whole candidate. Most
steps open, write and rename nothing; `QuietFiles` covers them at once, and lets them take names away, as a failing or
cleaning process may. `OpenFiles`, `WriteFiles` and `RenameFiles` are the three that matter. That the file can be decoded is a second induction:
by `Checked`, as long as nothing was `unchecked`, every file holds valid graphs only and every accepted candidate is valid; a
native candidate needs no verdict of its own there, since `unchecked` is what a wrong one sets. `Provenance` follows the hash from
the proposal through `Decide` to the bytes; it does not need `OwnFiles`, so that it holds in the shared case too.

`TensorLifetime_proofs` proves `RuntimeStaysSound`, `TapeStaysLive` (`TapeIsLive`) and `CallersKeepTheirVariables`
(`BoundValuesStayAlive`), for any names, limits and depth of calls. Since an operation returns a runtime and a value or an error,
`RuntimeSound` is a predicate of *any* runtime, and each operation has a lemma that its outcome is sound if its argument
is (`NewSound`, `AddNode`, ...). `collect` keeps what is reachable from the roots; that these are the tape's and every
suspended frame's needs that exactly the suspended frames are protected, which `StackSound` adds and calls and returns preserve.
`LimitsHold` (`TypeOK`) and `GradientsAreComplete` (`FreshGradientsAreComplete`) follow from `RuntimeIsAccounted`. That `grad` meets
every parameter the loss came from is a fact about a walk of the whole tape; the invariant `FlowSound` states it one node
at a time instead (what a tensor was computed from is itself, or flowed into it through its node's inputs), which a step
disturbs at one tensor only, and `BelowHasTheFlow` adds the nodes up along the walk when `grad` needs it. Nodes refer to older
tensors only (`Tidy`), so that the walk is well defined (`WalksExist`) and ends.

`ClusterCoordinator_proofs` proves `CompletedRunsAreComplete` (`CompletedMeansEverything`), `CommitsAreOrdered`
(`CommitOrderIsCanonical`) and `HistoryAccounts` (`SnapshotsAccount`), for any tasks, workers, plans and limits. The
coordinator keeps four structures beside one another: task states, completed tasks, waiting results, snapshots. `Account` ties them together
(a task is among the completed ones exactly if its state says so; the results are those of the first tasks dispatched; a
run that reaches its evaluation in order has just taken a snapshot), `Order` gives the position of a task by its step and number, and
`Versions` that only what is committed is in a snapshot. All actions are one of four kinds (`FourKindsOfSteps`):
a dispatch, a commit, the end of a step, and the quiet ones, the processes' own and the in-process execution among them.

It also proves what the message log says: `TypesHold` (`TypeOK`), `StartsWait` (`StartsFollowResults`),
`ResultsAnswer` (`ResultsMatchAttempts`) and `StepsAreSeparated` (`BarrierSeparatesSteps`). The properties compare positions in the log, so
`MessagesInductive` ties the log to the run: no message is of a step that has not begun, and a barrier's end their step
(`LogInStep`); tasks of earlier steps are done or given up and those of later ones wait (`Settling`); the committed tasks are those whose
result was logged (`ResultsLogged`); a task that is executed was started last on the worker that has it (`ExecutableStarted`);
and who answered in an earlier step was released (`Released`). Two definitions are used before they are known to make sense: `LogicalStep` is a recursive function over
dependencies, and `Ascending` chooses an ordering. That the first solves its equation and the second exists is shown by
a least counterexample.

`InstallUpdate_proofs` proves `TypesSound` (`TypeOK`), `ActiveVersionStays` (`ActiveVersionIsKept`),
`OnlyWholeVersionsActivate` (`UpdateActivatesWholeVersion`), `CompletedIsUndoable` (`CompletedCanBeUndone`) and
`RollbackIsConsistent` (`RolledBackAgrees`), for any versions and any number of operations, errors and crashes. It assumes
that the mark for an absent history is no history. `IInv` says phase by phase what the engine has established
(`Goals`, `Updating`, `Pointer`, `Progress`); `Disk` is what survives any interruption. One case makes it subtle: a crash while a
document is copied tears a backup that a rollback would restore from. It cannot be reached again, because in the same moment
the documents name another version than the pointer, so that `discover` refuses from then on (`Stuck`). `Exposure` says that
an error between the pointer and the handler is the end of its operation.

`FailedUpdatesAreContained` (`FailedUpdateIsContained`) and `RollbacksRestore` (`RollbackRestoresDocuments`) compare the end of an
operation with its start, which the model remembers in `before`. `WayIsKnown` adds to the invariant what is still as it was then,
phase by phase: `Origin` (what the start looked like), `Journey` (what each step has replaced since, and that its backup holds the
old contents) and `Descent` (what the automatic rollback has put back). A rollback restores from the backup of the version it
goes back to; `Descent` knows that an older previous version has a whole backup of its own documents (`BackedUp`), and that no version newer
than the active one has any (`ClearAbove`), so that going forward there is none to restore.

`DynamicCluster_proofs` proves `TypesSound` (`TypeOK`), `AcceptedUnitsAreIndependent` (`UnitsAreIndependent`), `RunsAreBounded`
(`LimitsAreKept`), `ErrorsComeFromOutside` (`ErrorsHaveACause`), `RecordsAreAboutUnits` (`RecordsAreGrounded`) and `ConvergedRunsAreDone`
(`ConvergenceIsEarned`), for every bundle and limit, assuming that limits and depths are natural numbers, that a flaw is one of
the checks' codes or none, and that no content is the mark of a seed. A proposal is judged by the seen keys, the declared
writes and the epoch's count, not by the records; `Bookkeeping` says that these three cover the accepted records, `Drop`, which
feeds them without leaving a record, included. `RunsAreGrounded` numbers the accepted records (`Numbered`), says that
the registered units are those of the revisions (`Owned`), and that after a drop there is no room any more and a diagnostic tells
(`Dropping`). `RunsKeepCourse` follows every unit's lifecycle through the phases, where all units but the one a scenario
took away are at the same place.

`StateTrace_proofs` proves `NothingDangles` (`TypeOK`), `CopiesStayCurrent` (`TraceMirrorsTheFrames`) and
`IndexFindsEveryPath` (`AliasesAreExact`), for any finite set of variables and any addresses, lengths and depths of calls, assuming that no
address is both a struct's and an array's. `Inv` says that the heap holds what is reached and that every frame is `FrameOK`
against it: its trace is off, or `Exact` for the variables it shows, the one under an undecided match arm included. The last two
properties are one induction, since a write finds all the places of a container only if the index is exact. The hard case is a
write to a container that is reached by several paths: the tracer replaces them one after the other, and between two of them the
copy agrees with neither the heap before nor the heap after. `Halfway` and `HalfSet` say what the copy and the index are when a
given set of paths has been done; `IndexExact` and `FieldExact` carry them from none to all. `RewriteAllStages` gives the
recursive function over the paths its equation, and `Counting` an induction over their number. A
freed address can be used again because no index has it any more: what is live is what the frames hold (`LiveIsSound`), and an exact
index names nothing else, so that `Kept`, the heap without the garbage, reads as before (`KeptSound`).

`StateJournal_proofs` extends it with `ReadersCatchUp` (`JournalReplays`): a reader of the journal who applies the changes has the
traced state, and the hashes before and after are those of the states. Two computations have to agree, and neither looks at the
state as a whole. `Diff` lists the changes of one place, among them the items of an array that come and go one by one, and each
must find the old value it names (`DiffsRoot`, `DiffsArrays`); the digest is changed by the leaves of the old and of the new value only, which
is right because the leaves of different places are apart (`HashesRoot`, `HashesItem`). `Accounted` says both of one
place of one state and is shown of every place a write can reach (`RootAccounted`, `ItemAccounted`, `ItemFieldAccounted`,
`RootFieldAccounted`). `Ledger` is the invariant of a trace: digest and state agree, the changes so far take the reader to
the state, and who has a reader or an open loop has begun. A write through several aliases is again a sequence of
replacements; since none changes what kind of value a place holds (`SameKinds`), the rest stay places of the
state (`MutationLedger`). That an alias index names only places the state has (`IndexLedger`, `FieldLedger`) comes from `Exact`, so that
`JournalsBalance` adds `Ledger` to `Inv`.

Every safety property and action property of the runs is proved; only model-checked is `RunEnds`, since liveness and `ENABLED` are out of the
prover's reach. Some inductions that the library's theorems cannot be instantiated for are done by a least counterexample
instead: an interval from 0 is a finite set, so a set of numbers has a least element (`LeastElement`), and the step below it
gives the contradiction. In this way the recursive functions over paths, tasks and changes are reasoned about.

## 5. Not modelled, and why

Numeric and syntactic code (front end, the VM's instructions, tensor, geometry, vision, hybrid search): pure computations on
data, which golden and unit tests compare better; together they are most of the implementation. File formats, checksums
and serialisation: an artifact is the values it names. Two updater processes at once: the code takes no lock; the model
assumes one engine. Windows activation without symlinks. The provenance and transaction files of an update, which nothing
reads back.

`GraphTransaction`: what a proposal changes, the rejections other than a stale hash (they take the same path), proposals
that lead back to an earlier graph, other writers of the file (`mirp` import), a native program that outlives its
killed wrapper (it takes the steps it would have taken). `TensorLifetime`: `no_grad`, optimizers, planned execution (only a test
calls it), shapes and values. `StateTrace`: array builders, reason objects and transactions in a trace (`vm.rs:1428` reports a
mutation for the arguments only), optional values, the event budget, sampled and full modes, traps.

## 6. Plan

Next, in this order:

1. `RuntimeWaves` (`visual.rs`): tasks in waves over worker threads, the memory, operation and time limits, equality with
   sequential execution as a refinement of an abstract "every output is a function of the inputs' outputs".
2. `ClusterPlanner` (`planner.rs`): `assign_depths` as a function against the longest-path definition, over every small
   graph, cycles and unknown producers included; `ClusterCoordinator` then takes its plans from it.
3. Transactions on reason objects in the VM (`ruo_dispatch.rs`), and their events in `StateTrace`.
4. `ReasoningState` (`reasoning_state.rs`): versions, reuse and bounded event storage.
5. `InstallUpdate` with a second engine on the same root.
6. The language server's document store, if the above leaves room.
