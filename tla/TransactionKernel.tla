------------------------- MODULE TransactionKernel -------------------------
(***************************************************************************)
(* HybridRuntime's TransactionKernel (transaction.rs) over its StateKernel *)
(* and Trace (reason_ir.rs).  The kernel is a library object behind        *)
(* `&mut self`: each method is one atomic step and callers interleave the  *)
(* methods of several transactions in any order.  A call that returns Err  *)
(* leaves every field as it was, so it is a stuttering step here; the      *)
(* guards below are the conjunction of its early returns.                  *)
(*                                                                         *)
(* Abstracted: "candidate-N" and "delta-N" are N; timestamps, plan ids,    *)
(* transition ids and the names of failed checks, which no step reads.     *)
(***************************************************************************)
EXTENDS Naturals, Sequences

CONSTANTS
  StateIds,        \* the values of StateSnapshot.state_id
  Snapshot,        \* StateSnapshot: a state_id and the rest (state_type, data)
  TransactionIds,  \* the ids callers choose, blank and repeated ones included
  BlankId,         \* an id that trims to ""
  InitialState     \* the snapshot given to TransactionKernel::new

Transition == [source : StateIds, target : StateIds]
ValidationStatus == {"Pending", "Accepted", "Rejected"}
TransactionStatus ==
  {"Prepared", "Accepted", "Rejected", "Committed", "RolledBack"}

ASSUME SnapshotsHaveIds == \A s \in Snapshot : s.state_id \in StateIds
ASSUME InitialStateIsSnapshot == InitialState \in Snapshot

None == 0          \* Option::None for candidate and delta ids, which start at 1

PreparedDelta ==
  [transaction_id : TransactionIds, before_state : Snapshot,
   proposed_state : Snapshot, transition : Transition,
   validation_status : ValidationStatus]

StateDelta ==
  [delta_id : Nat \ {0}, before_state : Snapshot, after_state : Snapshot]

TraceEvent == [delta_id : Nat \ {0}, transaction_id : TransactionIds]

TransactionRecord ==
  [transaction_id : TransactionIds, candidate_id : Nat, delta_id : Nat,
   status : TransactionStatus, source_delta_id : Nat]

VARIABLES
  current_state,         \* StateKernel.current_state
  next_delta_id,         \* StateKernel.next_delta_id
  events,                \* Trace.events
  next_candidate_id,
  candidates,            \* BTreeMap: candidate id -> PreparedDelta
  transaction_ids,       \* the ids used up
  committed_candidates,
  rolled_back_deltas,
  deltas,                \* Vec<StateDelta>
  records                \* Vec<TransactionRecord>, the audit log

kernel == <<current_state, next_delta_id, events, deltas>>
vars == <<current_state, next_delta_id, events, next_candidate_id, candidates,
          transaction_ids, committed_candidates, rolled_back_deltas, deltas,
          records>>

Init ==
  /\ current_state = InitialState
  /\ next_delta_id = 1
  /\ events = <<>>
  /\ next_candidate_id = 1
  /\ candidates = <<>>
  /\ transaction_ids = {}
  /\ committed_candidates = {}
  /\ rolled_back_deltas = {}
  /\ deltas = <<>>
  /\ records = <<>>

-----------------------------------------------------------------------------
(* Slips: guards and effects as a plausible error in the code would leave     *)
(* them. The specification uses none of them; each is the mutant that shows   *)
(* one property below can fail.                                               *)

\* prepare trusts the caller's source state.
SlipPreparable(tx, transition, proposed) ==
  /\ tx # BlankId
  /\ tx \notin transaction_ids
  /\ transition.target = proposed.state_id

\* validate may overwrite a verdict.
SlipUnvalidated(c) == c \in DOMAIN candidates

\* commit compares state ids instead of whole snapshots.
SlipCommittableOnId(c) ==
  /\ c \notin committed_candidates
  /\ c \in DOMAIN candidates
  /\ candidates[c].validation_status = "Accepted"
  /\ current_state.state_id = candidates[c].before_state.state_id

\* commit forgets committed_candidates.
SlipCommittableAgain(c) ==
  /\ c \in DOMAIN candidates
  /\ candidates[c].validation_status = "Accepted"
  /\ current_state = candidates[c].before_state

\* rollback forgets to compare the current state with the delta's result.
SlipReversibleAnytime(i, id) ==
  /\ id \notin rolled_back_deltas
  /\ deltas[i].delta_id = id

\* rollback forgets rolled_back_deltas.
SlipReversibleAgain(i, id) ==
  /\ deltas[i].delta_id = id
  /\ current_state = deltas[i].after_state

\* The StateKernel forgets to advance next_delta_id.
SlipEmit(before, after, tx) ==
  /\ current_state' = after
  /\ next_delta_id' = next_delta_id
  /\ deltas' = Append(deltas, [delta_id |-> next_delta_id,
                               before_state |-> before, after_state |-> after])
  /\ events' = Append(events,
                      [delta_id |-> next_delta_id, transaction_id |-> tx])

\* BTreeMap::insert skipped: the candidate is announced and not stored.
SlipInsert(map, key, value) == map

-----------------------------------------------------------------------------

\* BTreeMap::insert
Insert(map, key, value) ==
  [k \in DOMAIN map \cup {key} |-> IF k = key THEN value ELSE map[k]]

Record(tx, cand, delta, st, source) ==
  records' = Append(records,
    [transaction_id |-> tx, candidate_id |-> cand, delta_id |-> delta,
     status |-> st, source_delta_id |-> source])

\* require_id, and the id not used before.
FreshId(tx) ==
  /\ tx # BlankId
  /\ tx \notin transaction_ids

\* The source and target checks of StateKernel::apply, made again at commit.
Applies(transition, after) ==
  /\ transition.source = current_state.state_id
  /\ transition.target = after.state_id

\* The tail every successful commit and rollback shares: the StateKernel moves
\* to the delta's after state, the Trace gets its event, the delta is kept.
Emit(before, after, tx) ==
  /\ current_state' = after
  /\ next_delta_id' = next_delta_id + 1
  /\ deltas' = Append(deltas, [delta_id |-> next_delta_id,
                               before_state |-> before, after_state |-> after])
  /\ events' = Append(events,
                      [delta_id |-> next_delta_id, transaction_id |-> tx])

\* The early returns of prepare.
Preparable(tx, transition, proposed) ==
  /\ FreshId(tx)
  /\ transition.source = current_state.state_id
  /\ transition.target = proposed.state_id

Prepare(tx, transition, proposed) ==
  /\ Preparable(tx, transition, proposed)
  /\ next_candidate_id' = next_candidate_id + 1
  /\ transaction_ids' = transaction_ids \cup {tx}
  /\ candidates' = Insert(candidates, next_candidate_id,
       [transaction_id |-> tx, before_state |-> current_state,
        proposed_state |-> proposed, transition |-> transition,
        validation_status |-> "Pending"])
  /\ Record(tx, next_candidate_id, None, "Prepared", None)
  /\ UNCHANGED <<kernel, committed_candidates, rolled_back_deltas>>

\* validate gives one verdict per candidate.
Unvalidated(c) ==
  /\ c \in DOMAIN candidates
  /\ candidates[c].validation_status = "Pending"

\* passed: all five ValidationChecks hold.
Validate(c, passed) ==
  LET verdict == IF passed THEN "Accepted" ELSE "Rejected" IN
  /\ Unvalidated(c)
  /\ candidates' = [candidates EXCEPT ![c].validation_status = verdict]
  /\ Record(candidates[c].transaction_id, c, None, verdict, None)
  /\ UNCHANGED <<kernel, next_candidate_id, transaction_ids,
                 committed_candidates, rolled_back_deltas>>

\* The early returns of commit before it asks the StateKernel.
Committable(c) ==
  /\ c \notin committed_candidates
  /\ c \in DOMAIN candidates
  /\ candidates[c].validation_status = "Accepted"
  /\ current_state = candidates[c].before_state

Commit(c) ==
  LET cand == candidates[c] IN
  /\ Committable(c)
  /\ Applies(cand.transition, cand.proposed_state)
  /\ Emit(current_state, cand.proposed_state, cand.transaction_id)
  /\ committed_candidates' = committed_candidates \cup {c}
  /\ Record(cand.transaction_id, c, next_delta_id, "Committed", None)
  /\ UNCHANGED <<next_candidate_id, candidates, transaction_ids,
                 rolled_back_deltas>>

\* deltas.iter().find(..): i is the first delta with the id asked for.
FirstWithId(i, id) ==
  /\ deltas[i].delta_id = id
  /\ \A j \in 1..(i - 1) : deltas[j].delta_id # id

\* The early returns of rollback and of StateKernel::rollback.
Reversible(i, id) ==
  /\ id \notin rolled_back_deltas
  /\ FirstWithId(i, id)
  /\ current_state = deltas[i].after_state

Rollback(tx, i) ==
  LET source == deltas[i] IN
  /\ FreshId(tx)
  /\ Reversible(i, source.delta_id)
  /\ Emit(source.after_state, source.before_state, tx)
  /\ transaction_ids' = transaction_ids \cup {tx}
  /\ rolled_back_deltas' = rolled_back_deltas \cup {source.delta_id}
  /\ Record(tx, None, next_delta_id, "RolledBack", source.delta_id)
  /\ UNCHANGED <<next_candidate_id, candidates, committed_candidates>>

Next ==
  \/ \E tx \in TransactionIds, t \in Transition, s \in Snapshot : Prepare(tx, t, s)
  \/ \E c \in DOMAIN candidates, passed \in BOOLEAN : Validate(c, passed)
  \/ \E c \in DOMAIN candidates : Commit(c)
  \/ \E tx \in TransactionIds, i \in DOMAIN deltas : Rollback(tx, i)

Spec == Init /\ [][Next]_vars

-----------------------------------------------------------------------------
(* Properties.                                                                *)

\* Every field holds what its Rust type and the kernel's numbering say:
\* candidates are stored under exactly the ids handed out.
TypeOK ==
  /\ current_state \in Snapshot
  /\ next_delta_id \in Nat \ {0}
  /\ events \in Seq(TraceEvent)
  /\ next_candidate_id \in Nat \ {0}
  /\ candidates \in [1..(next_candidate_id - 1) -> PreparedDelta]
  /\ transaction_ids \subseteq TransactionIds
  /\ committed_candidates \subseteq DOMAIN candidates
  /\ rolled_back_deltas \subseteq 1..(next_delta_id - 1)
  /\ deltas \in Seq(StateDelta)
  /\ records \in Seq(TransactionRecord)

\* Commits and rollbacks form one complete chain: from the initial snapshot
\* each delta starts where the one before it ended, the last one ends in the
\* current state, whatever was prepared or left uncommitted in between.
DeltaChain ==
  /\ deltas = <<>> => current_state = InitialState
  /\ deltas # <<>> =>
       /\ deltas[1].before_state = InitialState
       /\ deltas[Len(deltas)].after_state = current_state
  /\ \A i \in 2..Len(deltas) : deltas[i].before_state = deltas[i - 1].after_state

\* The trace tells the deltas apart and in order: one event per delta, with
\* its id, and no id used twice (validate_deltas alone asks only that each id
\* occurs somewhere).
TraceMatchesDeltas ==
  /\ Len(events) = Len(deltas)
  /\ \A i \in DOMAIN deltas :
       /\ deltas[i].delta_id = i
       /\ events[i].delta_id = i
  /\ next_delta_id = Len(deltas) + 1

\* A rollback undoes exactly the delta it names and no delta is undone twice,
\* also when the state has come back to what that delta produced.
RollbackReversesOnce ==
  LET reversals == {r \in DOMAIN records : records[r].status = "RolledBack"} IN
  /\ \A r \in reversals :
       LET undo == deltas[records[r].delta_id]
           done == deltas[records[r].source_delta_id] IN
       /\ records[r].source_delta_id < records[r].delta_id
       /\ undo.before_state = done.after_state
       /\ undo.after_state = done.before_state
  /\ \A r, q \in reversals :
       records[r].source_delta_id = records[q].source_delta_id => r = q

\* A transaction id changes the state at most once, be it by a commit or by a
\* rollback, however often the state returns to where it was prepared.
OneEffectPerTransaction ==
  \A i, j \in DOMAIN events :
    events[i].transaction_id = events[j].transaction_id => i = j

\* Record j is of the transaction of record i.
OfOneTransaction(i, j) == records[i].transaction_id = records[j].transaction_id

\* Record i is the first, or the last, of its transaction.
IsFirst(i) == \A k \in 1..(i - 1) : ~OfOneTransaction(i, k)
IsLast(i) == \A k \in (i + 1)..Len(records) : ~OfOneTransaction(i, k)

\* Record j is the next of record i's transaction.
Follows(j, i) ==
  /\ i < j /\ OfOneTransaction(i, j)
  /\ \A k \in (i + 1)..(j - 1) : ~OfOneTransaction(i, k)

\* How the fields commit and validate decide by say a candidate stands.
Standing(c) ==
  IF c \in committed_candidates THEN "Committed"
  ELSE IF candidates[c].validation_status = "Pending" THEN "Prepared"
  ELSE candidates[c].validation_status

\* The audit log of every transaction reads as one legal life (one rollback, or
\* a preparation, then a verdict, then a commit if it was accepted), and its
\* last record of a candidate agrees with what the next call decides by.
AuditTellsOneLife ==
  /\ \A i \in DOMAIN records :
       IsFirst(i) => records[i].status \in {"Prepared", "RolledBack"}
  /\ \A i, j \in DOMAIN records : Follows(j, i) =>
       <<records[i].status, records[j].status>> \in
         {<<"Prepared", "Accepted">>, <<"Prepared", "Rejected">>,
          <<"Accepted", "Committed">>}
  /\ \A c \in DOMAIN candidates : \E i \in DOMAIN records :
       /\ records[i].transaction_id = candidates[c].transaction_id
       /\ IsLast(i) /\ records[i].status = Standing(c)

\* Once commit's own checks pass, the StateKernel accepts the transition: its
\* `?` never turns a commit away, although prepare checked the source against
\* an earlier state.
CommitNeverFailsLate ==
  \A c \in DOMAIN candidates :
    Committable(c) => Applies(candidates[c].transition, candidates[c].proposed_state)

-----------------------------------------------------------------------------
(* The promise the kernel keeps.                                              *)

\* A candidate can still be taken up unless it was rejected or committed.
Open(c) ==
  /\ candidates[c].validation_status # "Rejected"
  /\ c \notin committed_candidates

OfferOf(c) ==
  [owner |-> candidates[c].transaction_id,
   base |-> candidates[c].before_state,
   next |-> candidates[c].proposed_state]

History ==
  [i \in 1..(Len(deltas) + 1) |->
     IF i = 1 THEN InitialState ELSE deltas[i - 1].after_state]

Ledger == INSTANCE StateLedger WITH
  State <- Snapshot,
  Owner <- TransactionIds,
  Initial <- InitialState,
  history <- History,
  offers <- {OfferOf(c) : c \in {d \in DOMAIN candidates : Open(d)}},
  spent <- transaction_ids,
  undone <- {d + 1 : d \in rolled_back_deltas}

\* Whatever calls interleave, the kernel is one append-only ledger: an offer is
\* taken up at most once and only on the very snapshot it was prepared
\* against, and each delta is undone at most once, while it is current.
ImplementsLedger == Ledger!Spec
=============================================================================
