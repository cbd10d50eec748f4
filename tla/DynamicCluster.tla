---------------------------- MODULE DynamicCluster ----------------------------
(***************************************************************************)
(* One run of the dynamic ReasonUnit cluster, run_dynamic of               *)
(* ClusterRuntime/src/dynamic/runtime.rs: the seed units are put to ready, *)
(* the bundle's proposals are judged one by one in canonical order, the    *)
(* accepted ones become units with a branch and a plan revision each, the  *)
(* scenario and the scheduler drive the units through their lifecycle, and *)
(* the run reports, writes its artifacts and replays them.                 *)
(*                                                                         *)
(* A proposal is what the run tells apart of one: its content (rule,       *)
(* parents, inputs, evidence, parameters), depth, logical step, epoch, the *)
(* paths it declares to write, and the first check on the proposal alone   *)
(* it fails.  canonical_unit_id is a checksum of the content, the depth    *)
(* and the creation index: the triple itself here.  A proposal cannot name *)
(* a dynamic unit as its parent, since that id is a checksum over the      *)
(* bundle the proposal is part of; so its parents are seeds or missing.    *)
(***************************************************************************)
EXTENDS Naturals, Sequences, FiniteSets, FiniteSetsExt, SequencesExt

CONSTANTS
    NumSeeds,      \* units of the initial cluster plan
    Proposals,     \* what a bundle may propose
    Limits,        \* the dynamic limits a run may be configured with
    Scenarios,     \* the scenario options of a run
    MaxProposals   \* bound: how many proposals a bundle holds

ASSUME CountsAreNatural == NumSeeds \in Nat /\ MaxProposals \in Nat
ASSUME LimitsAreNatural ==
    \A l \in Limits : {l.total, l.active, l.perEpoch, l.branches, l.depth,
                       l.reactivations, l.messages} \subseteq Nat

\* What the checks on a proposal alone may find: its schema, checksum,
\* proposer, parents, rule, and the state access it declares.
Flaws == {"none", "DRU-PRP-001", "DRU-PRP-002", "DRU-PRP-003", "DRU-PRP-004",
          "DRU-PRP-005", "DRU-GEN-001", "DRU-GEN-007"}

\* The ids of seeds and of dynamic units differ in their prefix.
ASSUME ProposalsAreProposals ==
    \A p \in Proposals : p.depth \in Nat /\ p.flaw \in Flaws /\ p.content # "seed"

VARIABLES
    limits,        \* DynamicConfig.limits of this run
    scenario,      \* options.scenario, read once the proposals are through
    phase,         \* where the run is; "ok", "error", "refused" end it
    handled,       \* the prefix of the sorted proposal list gone through
    records,       \* proposal_records: each proposal with its verdict
    accepted,      \* proposals counted as accepted
    seen,          \* duplicate key -> unit id, for every accepted proposal
    declared,      \* declared_writes: <<logical step, path>>
    life,          \* lifecycle.states of the registered units
    events,        \* lifecycle.events: how many
    branches,      \* the units that own a branch besides the root branch
    revisions,     \* the units the plan revisions added, in order
    diagnostics,   \* codes of the diagnostics raised
    terminated,    \* budget_terminated
    report,        \* status and reason of the summary
    artifacts      \* what is in the artifact directory

vars == <<limits, scenario, phase, handled, records, accepted, seen, declared, life,
          events, branches, revisions, diagnostics, terminated, report,
          artifacts>>

Seed(i)   == <<"seed", 0, i>>
Seeds     == {Seed(i) : i \in 1..NumSeeds}
Registered == DOMAIN life \ Seeds
NoUnit    == <<"none", 0, 0>>

Key(p)          == <<p.content, p.depth>>
UnitId(p, index) == <<p.content, p.depth, index>>
DepthOf(u)      == u[2]

\* The canonical order of proposals: step, epoch, depth; among equals the
\* priority, which nothing else here reads, allows every order.
NotBefore(q, p) ==
    \/ p.step < q.step
    \/ p.step = q.step /\ p.epoch < q.epoch
    \/ p.step = q.step /\ p.epoch = q.epoch /\ p.depth <= q.depth

(***************************************************************************)
(* Lifecycle.  A walk is legal when each of its moves is.                  *)
(***************************************************************************)
Allowed ==
    {<<"absent", "proposed">>} \cup
    {"proposed"}  \X {"validated", "rejected"} \cup
    {"validated"} \X {"registered", "rejected"} \cup
    {"registered"} \X {"inactive", "ready", "replaced"} \cup
    {"inactive"}  \X {"ready", "retired", "replaced"} \cup
    {"ready"}     \X {"assigned", "suspended", "cancelled", "replaced"} \cup
    {"assigned"}  \X {"running", "cancelled"} \cup
    {"running"}   \X {"waiting", "completed", "failed", "suspended"} \cup
    {"waiting"}   \X {"running", "suspended", "failed"} \cup
    {"suspended"} \X {"ready", "retired", "replaced", "cancelled"} \cup
    {"failed"}    \X {"ready", "retired", "replaced"} \cup
    {"completed"} \X {"retired"}

Reactivations(from, walk) ==
    Cardinality({i \in 1..Len(walk) :
        /\ walk[i] = "ready"
        /\ (IF i = 1 THEN from ELSE walk[i - 1]) = "suspended"})

Legal(from, walk) ==
    /\ \A i \in 1..Len(walk) :
          <<IF i = 1 THEN from ELSE walk[i - 1], walk[i]>> \in Allowed
    /\ Reactivations(from, walk) <= limits.reactivations

Registration == <<"proposed", "validated", "registered", "ready">>
Execution    == <<"assigned", "running", "completed">>

\* What a scenario does to the unit it picks.
Script(s) ==
    CASE s = "suspension-reactivation" -> <<"suspended", "ready">>
      [] s = "replacement"             -> <<"replaced">>
      [] s = "branch-pruning"          -> <<"suspended", "retired">>
      [] s = "worker-failure"          -> <<"assigned", "running", "failed",
                                            "ready">>
      [] OTHER                         -> <<>>

Inserted(map, key, value) ==
    [k \in DOMAIN map \cup {key} |-> IF k = key THEN value ELSE map[k]]

MaxOfTwo(a, b) == IF a > b THEN a ELSE b

ProceedIf(ok, next) == phase' = IF ok THEN next ELSE "error"

-----------------------------------------------------------------------------
Init ==
    /\ limits \in Limits
    /\ scenario = "none"
    /\ phase = "config"
    /\ handled = <<>>
    /\ records = <<>>
    /\ accepted = 0
    /\ seen = <<>>
    /\ declared = {}
    /\ life = <<>>
    /\ events = 0
    /\ branches = {}
    /\ revisions = <<>>
    /\ diagnostics = {}
    /\ terminated = FALSE
    /\ report = [status |-> "none", reason |-> "none"]
    /\ artifacts = "none"

ValidConfig == limits.total > 0 /\ limits.depth > 0 /\ limits.active > 0

\* A run whose limits are not bounded away from zero fails closed.
RefuseConfig ==
    /\ phase = "config"
    /\ ~ValidConfig
    /\ phase' = "refused"
    /\ report' = [status |-> "failed", reason |-> "none"]
    /\ UNCHANGED <<limits, scenario, handled, records, accepted, seen, declared, life,
                   events, branches, revisions, diagnostics, terminated,
                   artifacts>>

\* The seeds of the initial plan are registered and made ready.
SeedUnits ==
    /\ phase = "config"
    /\ ValidConfig
    /\ life' = [u \in Seeds |-> "ready"]
    /\ events' = NumSeeds * Len(Registration)
    /\ ProceedIf(Legal("absent", Registration), "proposals")
    /\ UNCHANGED <<limits, scenario, handled, records, accepted, seen, declared,
                   branches, revisions, diagnostics, terminated, report,
                   artifacts>>

-----------------------------------------------------------------------------
(***************************************************************************)
(* The proposal loop.                                                      *)
(***************************************************************************)
EpochCount(p) ==
    1 + Cardinality({i \in DOMAIN handled : handled[i].epoch = p.epoch})

\* Mutant: one proposal more than the limit is let in.
BudgetSpent_OneTooMany(p) ==
    \/ EpochCount(p) > limits.perEpoch
    \/ Cardinality(DOMAIN life) > limits.total
    \/ accepted >= limits.active

BudgetSpent(p) ==
    \/ EpochCount(p) > limits.perEpoch
    \/ Cardinality(DOMAIN life) >= limits.total
    \/ accepted >= limits.active

\* The first check of the chain that the proposal fails, "none" if it passes.
Objection(p) ==
    CASE p.flaw # "none"          -> p.flaw
      [] p.depth > limits.depth   -> "DRU-GEN-002"
      [] BudgetSpent(p)           -> "DRU-GEN-003"
      [] OTHER                    -> "none"

IsDuplicate(p) == Objection(p) = "none" /\ Key(p) \in DOMAIN seen

\* Mutant: the declared writes are looked up by epoch.
Conflicts_PerEpoch(p) == \E path \in p.writes : <<p.epoch, path>> \in declared

Conflicts(p) == \E path \in p.writes : <<p.step, path>> \in declared

\* What a proposal that is no duplicate is refused for.
Refusal(p) ==
    IF Objection(p) = "none" /\ Conflicts(p) THEN "DRU-STA-003"
    ELSE Objection(p)

Take(p) ==   \* p is the next proposal of the sorted list
    /\ phase = "proposals"
    /\ Len(handled) < MaxProposals
    /\ handled # <<>> => NotBefore(Last(handled), p)
    /\ handled' = Append(handled, p)

Record(p, verdict, unit) ==
    records' = Append(records,
                      [proposal |-> p, verdict |-> verdict, unit |-> unit])

Duplicate(p) ==
    /\ Take(p)
    /\ IsDuplicate(p)
    /\ Record(p, "DRU-PRP-006", seen[Key(p)])
    /\ UNCHANGED <<limits, scenario, phase, accepted, seen, declared, life,
                   events, branches, revisions, diagnostics, terminated,
                   report, artifacts>>

\* Mutant: the creation index moves before the write conflict is seen.
Refuse_CountsTheProposal(p) ==
    /\ Take(p)
    /\ ~IsDuplicate(p)
    /\ Refusal(p) # "none"
    /\ accepted' = accepted + (IF Objection(p) = "none" THEN 1 ELSE 0)
    /\ Record(p, Refusal(p), NoUnit)
    /\ diagnostics' = diagnostics \cup {Refusal(p)}
    /\ terminated' = (terminated \/ Refusal(p) = "DRU-GEN-003")
    /\ UNCHANGED <<limits, scenario, phase, seen, declared, life, events,
                   branches, revisions, report, artifacts>>

Refuse(p) ==
    /\ Take(p)
    /\ ~IsDuplicate(p)
    /\ Refusal(p) # "none"
    /\ Record(p, Refusal(p), NoUnit)
    /\ diagnostics' = diagnostics \cup {Refusal(p)}
    /\ terminated' = (terminated \/ Refusal(p) = "DRU-GEN-003")
    /\ UNCHANGED <<limits, scenario, phase, accepted, seen, declared, life,
                   events, branches, revisions, report, artifacts>>

\* Accepting counts the proposal and remembers its key and its writes before
\* the branch limit is looked at.
Admit(p) ==
    /\ Take(p)
    /\ ~IsDuplicate(p)
    /\ Refusal(p) = "none"
    /\ accepted' = accepted + 1
    /\ seen' = Inserted(seen, Key(p), UnitId(p, accepted + 1))
    /\ declared' = declared \cup {<<p.step, path>> : path \in p.writes}

HasRoom == 1 + Cardinality(branches) < limits.branches

Accept(p) ==
    /\ Admit(p)
    /\ HasRoom
    /\ LET id == UnitId(p, accepted + 1) IN
       /\ life' = Inserted(life, id, Last(Registration))
       /\ branches' = branches \cup {id}
       /\ revisions' = Append(revisions, id)
       /\ Record(p, "accepted", id)
    /\ events' = events + Len(Registration)
    /\ ProceedIf(Legal("absent", Registration), "proposals")
    /\ UNCHANGED <<limits, scenario, diagnostics, terminated, report,
                   artifacts>>

\* Mutant: the branch limit drops a proposal without a diagnostic.
Drop_Silently(p) ==
    /\ Admit(p)
    /\ ~HasRoom
    /\ terminated' = TRUE
    /\ UNCHANGED <<limits, scenario, phase, records, life, events, branches,
                   revisions, diagnostics, report, artifacts>>

\* Past the branch limit an admitted proposal leaves no record and no unit.
Drop(p) ==
    /\ Admit(p)
    /\ ~HasRoom
    /\ diagnostics' = diagnostics \cup {"DRU-BRN-001"}
    /\ terminated' = TRUE
    /\ UNCHANGED <<limits, scenario, phase, records, life, events, branches,
                   revisions, report, artifacts>>

NoMoreProposals ==
    /\ phase = "proposals"
    /\ phase' = "scenario"
    /\ UNCHANGED <<limits, scenario, handled, records, accepted, seen, declared, life,
                   events, branches, revisions, diagnostics, terminated,
                   report, artifacts>>

-----------------------------------------------------------------------------
(***************************************************************************)
(* After the loop.                                                         *)
(***************************************************************************)
\* The units a scenario may pick: the first of depth above 0 by id, any of
\* them as the order of checksums has it.
Candidates == {u \in Registered : DepthOf(u) > 0}

\* The first move of every script, to "ready", is refused for a unit that is
\* ready and the refusal is ignored.  Any other refusal ends the run, whose
\* state goes with it.
ApplyScenario(s) ==
    /\ phase = "scenario"
    /\ scenario' = s
    /\ IF Candidates = {} \/ Script(s) = <<>>
       THEN phase' = "schedule" /\ UNCHANGED <<life, events>>
       ELSE \E u \in Candidates :
              IF Legal(life[u], Script(s))
              THEN /\ phase' = "schedule"
                   /\ life' = [life EXCEPT ![u] = Last(Script(s))]
                   /\ events' = events + Len(Script(s))
              ELSE phase' = "error" /\ UNCHANGED <<life, events>>
    /\ diagnostics' = IF s = "generation-depth-limit"
                      THEN diagnostics \cup {"DRU-GEN-002"} ELSE diagnostics
    /\ UNCHANGED <<limits, handled, records, accepted, seen, declared, branches,
                   revisions, terminated, report, artifacts>>

ReadyUnits == {u \in DOMAIN life : life[u] = "ready"}

\* Every ready unit is assigned, runs and completes.
Schedule ==
    /\ phase = "schedule"
    /\ IF \A u \in ReadyUnits : Legal(life[u], Execution)
       THEN /\ phase' = "report"
            /\ life' = [u \in DOMAIN life |->
                          IF u \in ReadyUnits THEN Last(Execution)
                          ELSE life[u]]
            /\ events' = events + Cardinality(ReadyUnits) * Len(Execution)
       ELSE phase' = "error" /\ UNCHANGED <<life, events>>
    /\ UNCHANGED <<limits, scenario, handled, records, accepted, seen, declared,
                   branches, revisions, diagnostics, terminated, report,
                   artifacts>>

Messages == 2 * Len(records) + 2 * Len(revisions) + events

\* Mutant: the status carries the reason.
Report_ReasonAsStatus ==
    /\ phase = "report"
    /\ LET spent == Messages > limits.messages IN
       /\ terminated' = (terminated \/ spent)
       /\ diagnostics' = IF spent THEN diagnostics \cup {"DRU-GEN-003"}
                         ELSE diagnostics
       /\ report' = [status |-> IF terminated \/ spent
                                THEN "budget_terminated" ELSE "quiescence",
                     reason |-> IF terminated THEN "budget_terminated"
                                ELSE "quiescence"]
    /\ phase' = "publish"
    /\ UNCHANGED <<limits, scenario, handled, records, accepted, seen, declared,
                   life, events, branches, revisions, artifacts>>

\* Mutant: the status is fixed before the message budget, too.
Report_StatusBeforeMessages ==
    /\ phase = "report"
    /\ LET spent == Messages > limits.messages IN
       /\ terminated' = (terminated \/ spent)
       /\ diagnostics' = IF spent THEN diagnostics \cup {"DRU-GEN-003"}
                         ELSE diagnostics
       /\ report' = [status |-> IF terminated THEN "budget_terminated"
                                ELSE "converged",
                     reason |-> IF terminated THEN "budget_terminated"
                                ELSE "quiescence"]
    /\ phase' = "publish"
    /\ UNCHANGED <<limits, scenario, handled, records, accepted, seen, declared,
                   life, events, branches, revisions, artifacts>>

\* The reason is fixed before the message budget is looked at, the status
\* after it.
Report ==
    /\ phase = "report"
    /\ LET spent == Messages > limits.messages
           ended == terminated \/ spent IN
       /\ terminated' = ended
       /\ diagnostics' = IF spent THEN diagnostics \cup {"DRU-GEN-003"}
                         ELSE diagnostics
       /\ report' = [status |-> IF ended THEN "budget_terminated"
                                ELSE "converged",
                     reason |-> IF terminated THEN "budget_terminated"
                                ELSE "quiescence"]
    /\ phase' = "publish"
    /\ UNCHANGED <<limits, scenario, handled, records, accepted, seen, declared,
                   life, events, branches, revisions, artifacts>>

\* The artifacts are written, or none was asked for, or a write fails.
Publish ==
    /\ phase = "publish"
    /\ \/ phase' = "validate" /\ artifacts' \in {"none", "complete"}
       \/ phase' = "error" /\ artifacts' = "partial"
    /\ UNCHANGED <<limits, scenario, handled, records, accepted, seen, declared,
                   life, events, branches, revisions, diagnostics, terminated,
                   report>>

AcceptedAt == {i \in DOMAIN records : records[i].verdict = "accepted"}

\* The position of a record among the accepted ones.
AcceptedIndex(i) == Cardinality({j \in AcceptedAt : j <= i})

\* validate_documents: a proposal was recorded, and the accepted records
\* carry the ids of their position among the accepted.
DocumentsValid ==
    /\ records # <<>>
    /\ \A i \in AcceptedAt :
          records[i].unit = UnitId(records[i].proposal, AcceptedIndex(i))

Validate ==
    /\ phase = "validate"
    /\ ProceedIf(DocumentsValid, "ok")
    /\ UNCHANGED <<limits, scenario, handled, records, accepted, seen, declared,
                   life, events, branches, revisions, diagnostics, terminated,
                   report, artifacts>>

Next ==
    \/ RefuseConfig \/ SeedUnits
    \/ \E p \in Proposals : Duplicate(p) \/ Refuse(p) \/ Accept(p) \/ Drop(p)
    \/ NoMoreProposals
    \/ \E s \in Scenarios : ApplyScenario(s)
    \/ Schedule \/ Report \/ Publish \/ Validate

Spec == Init /\ [][Next]_vars

Over == phase \in {"ok", "error", "refused"}

-----------------------------------------------------------------------------
(***************************************************************************)
(* Properties.                                                             *)
(***************************************************************************)
UnitIds == {UnitId(p, n) : p \in Proposals, n \in 1..MaxProposals}
Verdicts == {p.flaw : p \in Proposals} \cup
            {"accepted", "DRU-PRP-006", "DRU-GEN-002", "DRU-GEN-003",
             "DRU-STA-003"}

\* The type of the state: one lifecycle state per registered unit, records of
\* proposals with a known verdict, a report of the known words.
TypeOK ==
    /\ limits \in Limits
    /\ scenario \in Scenarios \cup {"none"}
    /\ phase \in {"config", "proposals", "scenario", "schedule", "report",
                  "publish", "validate", "ok", "error", "refused"}
    /\ \A i \in DOMAIN handled : handled[i] \in Proposals
    /\ \A i \in DOMAIN records :
          records[i] \in [proposal : Proposals, verdict : Verdicts,
                         unit : UnitIds \cup {NoUnit}]
    /\ accepted \in 0..MaxProposals
    /\ \A k \in DOMAIN seen : seen[k] \in UnitIds
    /\ DOMAIN life \subseteq Seeds \cup UnitIds
    /\ branches \subseteq UnitIds
    /\ \A i \in DOMAIN revisions : revisions[i] \in UnitIds
    /\ events \in Nat /\ terminated \in BOOLEAN
    /\ report.status \in {"none", "failed", "converged", "budget_terminated"}
    /\ report.reason \in {"none", "quiescence", "budget_terminated"}
    /\ artifacts \in {"none", "partial", "complete"}

\* A run ends in an error only for a cause outside its own bookkeeping: the
\* bundle proposed nothing, the branch limit dropped all it proposed, a write
\* failed, or the scenario reactivates a unit the limits do not let come back.
\* Its own lifecycle moves are all legal, and the replay of its artifacts gives
\* every accepted proposal the id the run gave it, however proposals were
\* refused, dropped or merged.
ErrorsHaveACause ==
    phase = "error" =>
        \/ handled = <<>>
        \/ artifacts = "partial"
        \/ scenario = "suspension-reactivation" /\ limits.reactivations = 0
        \/ records = <<>> /\ "DRU-BRN-001" \in diagnostics

\* Two units accepted for one logical step never declare a write to the same
\* path, and no two accepted units are the same derivation.
UnitsAreIndependent ==
    \A i, j \in AcceptedAt : i # j =>
        LET p == records[i].proposal
            q == records[j].proposal IN
        /\ Key(p) # Key(q)
        /\ p.step = q.step => p.writes \cap q.writes = {}

\* What the run tells of a unit is about a unit it has: until the branch
\* limit is hit, a duplicate names a registered unit, every accepted proposal
\* is a registered unit with a branch, and the plan revisions add exactly the
\* accepted units in their order.
RecordsAreGrounded ==
    /\ Len(revisions) = Cardinality(AcceptedAt)
    /\ \A i \in AcceptedAt : revisions[AcceptedIndex(i)] = records[i].unit
    /\ Registered = ToSet(revisions) /\ branches = Registered
    /\ "DRU-BRN-001" \notin diagnostics =>
          /\ accepted = Cardinality(Registered)
          /\ \A i \in DOMAIN records :
                records[i].verdict = "DRU-PRP-006" =>
                    records[i].unit \in Registered

\* No run grows past its limits, whatever is proposed: units, active units,
\* branches, depth, and accepted proposals of one epoch.
LimitsAreKept ==
    /\ Cardinality(DOMAIN life) <= MaxOfTwo(NumSeeds, limits.total)
    /\ accepted <= limits.active
    /\ 1 + Cardinality(branches) <= MaxOfTwo(1, limits.branches)
    /\ \A i \in AcceptedAt :
          LET p == records[i].proposal IN
          /\ p.depth <= limits.depth
          /\ Cardinality({j \in AcceptedAt :
                 records[j].proposal.epoch = p.epoch}) <= limits.perEpoch

\* A run reported as converged dropped nothing for a budget, kept every unit
\* it accepted, and leaves none of them ready, running or waiting.
ConvergenceIsEarned ==
    report.status = "converged" =>
        /\ diagnostics \cap {"DRU-GEN-003", "DRU-BRN-001"} = {}
        /\ Len(records) = Len(handled)
        /\ accepted = Cardinality(Registered)
        /\ \A u \in DOMAIN life : life[u] \in {"completed", "retired", "replaced"}
        /\ Cardinality({u \in DOMAIN life : life[u] # "completed"}) <= 1

\* What the tests and the report's schema say of a run that a budget ended:
\* its termination is not reported as convergence by quiescence.
BudgetTerminationIsNotConvergence ==
    report.status = "budget_terminated" => report.reason # "quiescence"
=============================================================================
