---------------------- MODULE TransactionKernel_proofs ----------------------
(***************************************************************************)
(* Proofs about TransactionKernel for every set of ids and snapshots.      *)
(* First the structures the kernel keeps in step: states, deltas, trace.   *)
(* Then, on that invariant, what it promises a transaction: one effect,    *)
(* one reversal per delta, one legal life in the audit log.  At the end,   *)
(* that it implements the ledger of StateLedger.                           *)
(***************************************************************************)
EXTENDS TransactionKernel, TLAPS

-----------------------------------------------------------------------------
(* What the sequences and maps of the model do.                              *)

\* Appending keeps the elements there were and adds one at the end.
LEMMA AppendFacts ==
  ASSUME NEW S, NEW q \in Seq(S), NEW e \in S
  PROVE  /\ Append(q, e) \in Seq(S)
         /\ Len(Append(q, e)) = Len(q) + 1
         /\ DOMAIN Append(q, e) = 1..(Len(q) + 1)
         /\ \A i \in 1..Len(q) : Append(q, e)[i] = q[i]
         /\ Append(q, e)[Len(q) + 1] = e
  OBVIOUS

\* Storing under the next free number extends a map by that number only.
LEMMA InsertFacts ==
  ASSUME NEW S, NEW n \in Nat \ {0}, NEW map \in [1..(n - 1) -> S], NEW v \in S
  PROVE  /\ Insert(map, n, v) \in [1..n -> S]
         /\ Insert(map, n, v)[n] = v
         /\ \A k \in 1..(n - 1) : Insert(map, n, v)[k] = map[k]
  BY DEF Insert

-----------------------------------------------------------------------------
(* Type correctness.                                                         *)

LEMMA InitTypeOK == Init => TypeOK
  BY InitialStateIsSnapshot DEF Init, TypeOK

LEMMA PrepareTypeOK ==
  ASSUME TypeOK, NEW tx \in TransactionIds, NEW t \in Transition,
         NEW s \in Snapshot, Prepare(tx, t, s)
  PROVE  TypeOK'
<1> DEFINE c == [transaction_id |-> tx, before_state |-> current_state,
                 proposed_state |-> s, transition |-> t,
                 validation_status |-> "Pending"]
           r == [transaction_id |-> tx, candidate_id |-> next_candidate_id,
                 delta_id |-> None, status |-> "Prepared",
                 source_delta_id |-> None]
<1>1. c \in PreparedDelta
  BY DEF TypeOK, PreparedDelta, ValidationStatus
<1>2. /\ candidates' \in [1..next_candidate_id -> PreparedDelta]
      /\ next_candidate_id' = next_candidate_id + 1
  BY <1>1, InsertFacts DEF TypeOK, Prepare
<1>3. candidates' \in [1..(next_candidate_id' - 1) -> PreparedDelta]
  BY <1>2 DEF TypeOK
<1>4. r \in TransactionRecord
  BY DEF TypeOK, TransactionRecord, TransactionStatus, None
<1>5. records' \in Seq(TransactionRecord)
  BY <1>4, AppendFacts DEF TypeOK, Prepare, Record
<1>6. committed_candidates' \subseteq DOMAIN candidates'
  BY <1>2 DEF TypeOK, Prepare
<1> QED
  BY <1>2, <1>3, <1>5, <1>6 DEF TypeOK, Prepare, kernel

LEMMA ValidateTypeOK ==
  ASSUME TypeOK, NEW c \in DOMAIN candidates, NEW passed \in BOOLEAN,
         Validate(c, passed)
  PROVE  TypeOK'
<1> DEFINE verdict == IF passed THEN "Accepted" ELSE "Rejected"
           r == [transaction_id |-> candidates[c].transaction_id,
                 candidate_id |-> c, delta_id |-> None, status |-> verdict,
                 source_delta_id |-> None]
<1>1. [candidates[c] EXCEPT !.validation_status = verdict] \in PreparedDelta
  BY DEF TypeOK, PreparedDelta, ValidationStatus
<1>2. candidates' \in [1..(next_candidate_id - 1) -> PreparedDelta]
  BY <1>1 DEF TypeOK, Validate
<1>3. r \in TransactionRecord
  BY DEF TypeOK, TransactionRecord, TransactionStatus, None, PreparedDelta
<1>4. records' \in Seq(TransactionRecord)
  BY <1>3, AppendFacts DEF TypeOK, Validate, Record
<1> QED
  BY <1>2, <1>4 DEF TypeOK, Validate, kernel

\* What the shared tail of commit and rollback does to the kernel's own types.
LEMMA EmitTypeOK ==
  ASSUME TypeOK, NEW before \in Snapshot, NEW after \in Snapshot,
         NEW tx \in TransactionIds, Emit(before, after, tx)
  PROVE  /\ current_state' \in Snapshot
         /\ next_delta_id' \in Nat \ {0}
         /\ next_delta_id' = next_delta_id + 1
         /\ events' \in Seq(TraceEvent)
         /\ deltas' \in Seq(StateDelta)
<1>1. [delta_id |-> next_delta_id, before_state |-> before,
       after_state |-> after] \in StateDelta
  BY DEF TypeOK, StateDelta
<1>2. [delta_id |-> next_delta_id, transaction_id |-> tx] \in TraceEvent
  BY DEF TypeOK, TraceEvent
<1> QED
  BY <1>1, <1>2, AppendFacts DEF TypeOK, Emit

LEMMA CommitTypeOK ==
  ASSUME TypeOK, NEW c \in DOMAIN candidates, Commit(c)
  PROVE  TypeOK'
<1> DEFINE tx == candidates[c].transaction_id
           r == [transaction_id |-> tx, candidate_id |-> c,
                 delta_id |-> next_delta_id, status |-> "Committed",
                 source_delta_id |-> None]
<1>1. /\ candidates[c] \in PreparedDelta
      /\ tx \in TransactionIds
      /\ candidates[c].proposed_state \in Snapshot
  BY DEF TypeOK, PreparedDelta
<1>2. /\ current_state' \in Snapshot
      /\ next_delta_id' \in Nat \ {0}
      /\ next_delta_id' = next_delta_id + 1
      /\ events' \in Seq(TraceEvent)
      /\ deltas' \in Seq(StateDelta)
  BY <1>1, EmitTypeOK DEF TypeOK, Commit
<1>3. r \in TransactionRecord
  BY <1>1 DEF TypeOK, TransactionRecord, TransactionStatus, None
<1>4. records' \in Seq(TransactionRecord)
  BY <1>3, AppendFacts DEF TypeOK, Commit, Record
<1>5. rolled_back_deltas' \subseteq 1..(next_delta_id' - 1)
  BY <1>2 DEF TypeOK, Commit
<1>6. committed_candidates' \subseteq DOMAIN candidates'
  BY DEF TypeOK, Commit
<1>7. /\ candidates' = candidates
      /\ next_candidate_id' = next_candidate_id
      /\ transaction_ids' = transaction_ids
  BY DEF Commit
<1> QED
  BY <1>2, <1>4, <1>5, <1>6, <1>7 DEF TypeOK

\* Type correctness of a rollback rests on the numbering of the deltas: the
\* delta it marks has an id below next_delta_id.
LEMMA RollbackTypeOK ==
  ASSUME TypeOK, TraceMatchesDeltas, NEW tx \in TransactionIds,
         NEW i \in DOMAIN deltas, Rollback(tx, i)
  PROVE  TypeOK'
<1> DEFINE source == deltas[i]
           r == [transaction_id |-> tx, candidate_id |-> None,
                 delta_id |-> next_delta_id, status |-> "RolledBack",
                 source_delta_id |-> source.delta_id]
<1>a. i \in 1..Len(deltas)
  BY DEF TypeOK
<1>b. source \in StateDelta
  BY <1>a DEF TypeOK
<1>1. /\ source.before_state \in Snapshot
      /\ source.after_state \in Snapshot
      /\ source.delta_id \in 1..(next_delta_id - 1)
  BY <1>a, <1>b DEF TypeOK, StateDelta, TraceMatchesDeltas
<1>2. /\ current_state' \in Snapshot
      /\ next_delta_id' \in Nat \ {0}
      /\ next_delta_id' = next_delta_id + 1
      /\ events' \in Seq(TraceEvent)
      /\ deltas' \in Seq(StateDelta)
  BY <1>1, EmitTypeOK DEF Rollback
<1>3. r \in TransactionRecord
  BY <1>1 DEF TypeOK, TransactionRecord, TransactionStatus, None
<1>4. records' \in Seq(TransactionRecord)
  BY <1>3, AppendFacts DEF TypeOK, Rollback, Record
<1>5. rolled_back_deltas' = rolled_back_deltas \cup {source.delta_id}
  BY DEF Rollback
<1>6. rolled_back_deltas' \subseteq 1..(next_delta_id' - 1)
  <2>1. /\ next_delta_id \in Nat \ {0}
        /\ rolled_back_deltas \subseteq 1..(next_delta_id - 1)
    BY DEF TypeOK
  <2>2. source.delta_id \in 1..(next_delta_id - 1)
    BY <1>1
  <2>3. next_delta_id' = next_delta_id + 1
    BY <1>2
  <2>4. ASSUME NEW d \in rolled_back_deltas'
        PROVE  d \in 1..(next_delta_id' - 1)
    <3>1. d \in 1..(next_delta_id - 1)
      BY <1>5, <2>1, <2>2
    <3> QED
      BY <3>1, <2>1, <2>3
  <2> QED
    BY <2>4
<1>7. /\ candidates' = candidates
      /\ next_candidate_id' = next_candidate_id
      /\ committed_candidates' = committed_candidates
      /\ transaction_ids' \subseteq TransactionIds
  BY DEF TypeOK, Rollback
<1> QED
  BY <1>2, <1>4, <1>6, <1>7 DEF TypeOK

-----------------------------------------------------------------------------
(* The chain of deltas and its trace.                                        *)

\* Commit and Rollback both emit one delta that starts at the current state.
LEMMA EmitKeepsChain ==
  ASSUME TypeOK, TraceMatchesDeltas, DeltaChain, NEW after \in Snapshot,
         NEW tx \in TransactionIds, Emit(current_state, after, tx)
  PROVE  TraceMatchesDeltas' /\ DeltaChain'
<1> DEFINE d == [delta_id |-> next_delta_id, before_state |-> current_state,
                 after_state |-> after]
           e == [delta_id |-> next_delta_id, transaction_id |-> tx]
           n == Len(deltas)
<1>1. d \in StateDelta /\ e \in TraceEvent /\ n \in Nat
  BY DEF TypeOK, StateDelta, TraceEvent
<1>2. /\ deltas' = Append(deltas, d)
      /\ Len(deltas') = n + 1
      /\ DOMAIN deltas' = 1..(n + 1)
      /\ \A i \in 1..n : deltas'[i] = deltas[i]
      /\ deltas'[n + 1] = d
  BY <1>1, AppendFacts DEF TypeOK, Emit
<1>3. /\ Len(events') = n + 1
      /\ \A i \in 1..n : events'[i] = events[i]
      /\ events'[n + 1] = e
  BY <1>1, AppendFacts DEF TypeOK, Emit, TraceMatchesDeltas
<1>4. TraceMatchesDeltas'
  <2>1. next_delta_id = n + 1 /\ next_delta_id' = n + 2
    BY <1>1 DEF TraceMatchesDeltas, Emit
  <2>2. ASSUME NEW i \in 1..(n + 1)
        PROVE  deltas'[i].delta_id = i /\ events'[i].delta_id = i
    <3>1. CASE i \in 1..n
      BY <3>1, <1>2, <1>3 DEF TraceMatchesDeltas, TypeOK
    <3>2. CASE i = n + 1
      BY <3>2, <2>1, <1>2, <1>3
    <3> QED
      BY <1>1, <3>1, <3>2
  <2> QED
    BY <1>1, <1>2, <1>3, <2>1, <2>2 DEF TraceMatchesDeltas
<1>5. DeltaChain'
  <2>1. deltas' # <<>> /\ deltas'[Len(deltas')].after_state = current_state'
    BY <1>1, <1>2 DEF Emit
  <2>2. deltas'[1].before_state = InitialState
    <3>1. CASE n = 0
      BY <3>1, <1>2 DEF DeltaChain, TypeOK
    <3>2. CASE n # 0
      BY <3>2, <1>1, <1>2 DEF DeltaChain, TypeOK
    <3> QED
      BY <3>1, <3>2
  <2>3. ASSUME NEW i \in 2..(n + 1)
        PROVE  deltas'[i].before_state = deltas'[i - 1].after_state
    <3>1. CASE i \in 2..n
      BY <3>1, <1>1, <1>2 DEF DeltaChain
    <3>2. CASE i = n + 1
      <4>1. n # 0 /\ deltas # <<>>
        BY <3>2, <1>1 DEF TypeOK
      <4>2. deltas[n].after_state = current_state
        BY <4>1 DEF DeltaChain
      <4> QED
        BY <3>2, <4>1, <4>2, <1>1, <1>2
    <3> QED
      BY <1>1, <3>1, <3>2
  <2> QED
    BY <1>2, <2>1, <2>2, <2>3 DEF DeltaChain
<1> QED
  BY <1>4, <1>5

\* What the other two methods leave alone, the chain rests on.
LEMMA KernelUnchangedKeepsChain ==
  ASSUME TraceMatchesDeltas, DeltaChain, UNCHANGED kernel
  PROVE  TraceMatchesDeltas' /\ DeltaChain'
  BY DEF TraceMatchesDeltas, DeltaChain, kernel

-----------------------------------------------------------------------------
(* The inductive invariant of the kernel proper.                             *)

\* A candidate's transition leads from the state it was prepared on to the
\* state it proposes.
CandidatesSound ==
  \A c \in DOMAIN candidates :
    /\ candidates[c].transition.source = candidates[c].before_state.state_id
    /\ candidates[c].transition.target = candidates[c].proposed_state.state_id

IInv ==
  /\ TypeOK
  /\ TraceMatchesDeltas
  /\ DeltaChain
  /\ CandidatesSound

\* The initial kernel satisfies it.
LEMMA InitIInv == Init => IInv
<1> SUFFICES ASSUME Init PROVE IInv
  OBVIOUS
<1>1. TypeOK
  BY InitTypeOK
<1>2. TraceMatchesDeltas /\ DeltaChain
  BY DEF Init, TraceMatchesDeltas, DeltaChain
<1>3. CandidatesSound
  BY DEF Init, CandidatesSound
<1> QED
  BY <1>1, <1>2, <1>3 DEF IInv

\* Every method call preserves it.
LEMMA NextIInv == IInv /\ [Next]_vars => IInv'
<1> SUFFICES ASSUME IInv, [Next]_vars PROVE IInv'
  OBVIOUS
<1> USE DEF IInv
<1>1. ASSUME NEW tx \in TransactionIds, NEW t \in Transition,
             NEW s \in Snapshot, Prepare(tx, t, s)
      PROVE  IInv'
  <2>1. TypeOK'
    BY <1>1, PrepareTypeOK
  <2>2. TraceMatchesDeltas' /\ DeltaChain'
    BY <1>1, KernelUnchangedKeepsChain DEF Prepare
  <2>3. CandidatesSound'
    <3> DEFINE c == [transaction_id |-> tx, before_state |-> current_state,
                     proposed_state |-> s, transition |-> t,
                     validation_status |-> "Pending"]
    <3>1. c \in PreparedDelta
      BY DEF TypeOK, PreparedDelta, ValidationStatus
    <3>2. /\ candidates' \in [1..next_candidate_id -> PreparedDelta]
          /\ candidates'[next_candidate_id] = c
          /\ \A k \in 1..(next_candidate_id - 1) : candidates'[k] = candidates[k]
      <4>1. candidates' = Insert(candidates, next_candidate_id, c)
        BY <1>1 DEF Prepare
      <4>2. /\ next_candidate_id \in Nat \ {0}
            /\ candidates \in [1..(next_candidate_id - 1) -> PreparedDelta]
        BY DEF TypeOK
      <4> HIDE DEF c, IInv
      <4>3. /\ Insert(candidates, next_candidate_id, c)
                 \in [1..next_candidate_id -> PreparedDelta]
            /\ Insert(candidates, next_candidate_id, c)[next_candidate_id] = c
            /\ \A k \in 1..(next_candidate_id - 1) :
                 Insert(candidates, next_candidate_id, c)[k] = candidates[k]
        BY <3>1, <4>2 DEF Insert
      <4> QED
        BY <4>1, <4>3
    <3>3. t.source = current_state.state_id /\ t.target = s.state_id
      BY <1>1 DEF Prepare, Preparable
    <3>4. ASSUME NEW k \in DOMAIN candidates'
          PROVE  /\ candidates'[k].transition.source = candidates'[k].before_state.state_id
                 /\ candidates'[k].transition.target = candidates'[k].proposed_state.state_id
      <4>1. next_candidate_id \in Nat \ {0} /\ k \in 1..next_candidate_id
        BY <3>2 DEF TypeOK
      <4>2. CASE k = next_candidate_id
        BY <4>2, <3>2, <3>3
      <4>3. CASE k \in 1..(next_candidate_id - 1)
        <5>1. k \in DOMAIN candidates /\ candidates'[k] = candidates[k]
          BY <4>3, <3>2 DEF TypeOK
        <5> QED
          BY <5>1 DEF CandidatesSound
      <4> QED
        BY <4>1, <4>2, <4>3
    <3> QED
      BY <3>4 DEF CandidatesSound
  <2> QED
    BY <2>1, <2>2, <2>3
<1>2. ASSUME NEW c \in DOMAIN candidates, NEW passed \in BOOLEAN,
             Validate(c, passed)
      PROVE  IInv'
  <2>1. TypeOK'
    BY <1>2, ValidateTypeOK
  <2>2. TraceMatchesDeltas' /\ DeltaChain'
    BY <1>2, KernelUnchangedKeepsChain DEF Validate
  <2>3. CandidatesSound'
    BY <1>2 DEF TypeOK, CandidatesSound, Validate, PreparedDelta
  <2> QED
    BY <2>1, <2>2, <2>3
<1>3. ASSUME NEW c \in DOMAIN candidates, Commit(c)
      PROVE  IInv'
  <2>1. TypeOK'
    BY <1>3, CommitTypeOK
  <2>2. /\ candidates[c].proposed_state \in Snapshot
        /\ candidates[c].transaction_id \in TransactionIds
    BY DEF TypeOK, PreparedDelta
  <2>3. TraceMatchesDeltas' /\ DeltaChain'
    BY <1>3, <2>2, EmitKeepsChain DEF Commit
  <2>4. CandidatesSound'
    BY <1>3 DEF CandidatesSound, Commit
  <2> QED
    BY <2>1, <2>3, <2>4
<1>4. ASSUME NEW tx \in TransactionIds, NEW i \in DOMAIN deltas,
             Rollback(tx, i)
      PROVE  IInv'
  <2>1. TypeOK'
    BY <1>4, RollbackTypeOK
  <2>2. deltas[i].before_state \in Snapshot
    <3>1. i \in 1..Len(deltas)
      BY DEF TypeOK
    <3>2. deltas[i] \in StateDelta
      BY <3>1 DEF TypeOK
    <3> QED
      BY <3>2 DEF StateDelta
  <2>3. Emit(current_state, deltas[i].before_state, tx)
    BY <1>4 DEF Rollback, Reversible
  <2>4. TraceMatchesDeltas' /\ DeltaChain'
    BY <2>2, <2>3, EmitKeepsChain
  <2>5. CandidatesSound'
    BY <1>4 DEF CandidatesSound, Rollback
  <2> QED
    BY <2>1, <2>4, <2>5
<1>5. CASE UNCHANGED vars
  BY <1>5 DEF vars, TypeOK, TraceMatchesDeltas, DeltaChain, CandidatesSound
<1> QED
  BY <1>1, <1>2, <1>3, <1>4, <1>5 DEF Next

\* Theorem: the inductive invariant holds in every reachable state.
THEOREM KernelInvariant == Spec => []IInv
  BY InitIInv, NextIInv, PTL DEF Spec

\* Theorem: every field keeps its type and the numbering of its ids.
THEOREM TypeCorrect == Spec => []TypeOK
<1>1. IInv => TypeOK
  BY DEF IInv
<1> QED
  BY <1>1, KernelInvariant, PTL

\* Theorem: commits and rollbacks form one complete chain of states.
THEOREM ChainComplete == Spec => []DeltaChain
<1>1. IInv => DeltaChain
  BY DEF IInv
<1> QED
  BY <1>1, KernelInvariant, PTL

\* Theorem: the trace has exactly one event for each delta, in order.
THEOREM TraceComplete == Spec => []TraceMatchesDeltas
<1>1. IInv => TraceMatchesDeltas
  BY DEF IInv
<1> QED
  BY <1>1, KernelInvariant, PTL

\* Theorem: the StateKernel never refuses a commit its kernel lets through.
THEOREM CommitAlwaysApplies == Spec => []CommitNeverFailsLate
<1>1. IInv => CommitNeverFailsLate
  BY DEF IInv, CandidatesSound, CommitNeverFailsLate, Committable, Applies
<1> QED
  BY <1>1, KernelInvariant, PTL

-----------------------------------------------------------------------------
(* A transaction has one effect.                                             *)

\* Every id that names a candidate or an event has been used up.
IdsAreUsed ==
  /\ \A c \in DOMAIN candidates : candidates[c].transaction_id \in transaction_ids
  /\ \A i \in DOMAIN events : events[i].transaction_id \in transaction_ids

OneCandidatePerId ==
  \A c, d \in DOMAIN candidates :
    candidates[c].transaction_id = candidates[d].transaction_id => c = d

\* The event of a candidate's transaction is the candidate's commit.
EventsAreCommits ==
  \A c \in DOMAIN candidates, i \in DOMAIN events :
    events[i].transaction_id = candidates[c].transaction_id
      => c \in committed_candidates

EffectInv ==
  /\ IdsAreUsed
  /\ OneCandidatePerId
  /\ EventsAreCommits
  /\ OneEffectPerTransaction

\* The initial kernel satisfies it.
LEMMA InitEffectInv == Init => EffectInv
  BY DEF Init, EffectInv, IdsAreUsed, OneCandidatePerId, EventsAreCommits,
         OneEffectPerTransaction

\* What prepare does to the candidates.
LEMMA PrepareAddsOne ==
  ASSUME TypeOK, NEW tx \in TransactionIds, NEW t \in Transition,
         NEW s \in Snapshot, Prepare(tx, t, s)
  PROVE  /\ next_candidate_id \in Nat \ {0}
         /\ DOMAIN candidates = 1..(next_candidate_id - 1)
         /\ DOMAIN candidates' = 1..next_candidate_id
         /\ candidates'[next_candidate_id].transaction_id = tx
         /\ \A k \in DOMAIN candidates : candidates'[k] = candidates[k]
<1> DEFINE c == [transaction_id |-> tx, before_state |-> current_state,
                 proposed_state |-> s, transition |-> t,
                 validation_status |-> "Pending"]
<1>1. /\ next_candidate_id \in Nat \ {0}
      /\ candidates \in [1..(next_candidate_id - 1) -> PreparedDelta]
  BY DEF TypeOK
<1>2. candidates' = Insert(candidates, next_candidate_id, c)
  BY DEF Prepare
<1>3. c.transaction_id = tx
  OBVIOUS
<1> HIDE DEF c
<1>4. /\ DOMAIN candidates' = 1..next_candidate_id
      /\ candidates'[next_candidate_id] = c
      /\ \A k \in 1..(next_candidate_id - 1) : candidates'[k] = candidates[k]
  BY <1>1, <1>2 DEF Insert
<1> QED
  BY <1>1, <1>3, <1>4

\* What commit and rollback do to the trace.
LEMMA EmitAddsOne ==
  ASSUME TypeOK, NEW before \in Snapshot, NEW after \in Snapshot,
         NEW tx \in TransactionIds, Emit(before, after, tx)
  PROVE  /\ Len(events) \in Nat
         /\ DOMAIN events = 1..Len(events)
         /\ DOMAIN events' = 1..(Len(events) + 1)
         /\ events'[Len(events) + 1].transaction_id = tx
         /\ \A i \in DOMAIN events : events'[i] = events[i]
<1> DEFINE e == [delta_id |-> next_delta_id, transaction_id |-> tx]
<1>1. e \in TraceEvent /\ e.transaction_id = tx
  BY DEF TypeOK, TraceEvent
<1>2. events' = Append(events, e) /\ events \in Seq(TraceEvent)
  BY DEF Emit, TypeOK
<1> HIDE DEF e
<1> QED
  BY <1>1, <1>2, AppendFacts

\* A new event of an id that no earlier event has keeps one effect per id.
LEMMA FreshEffect ==
  ASSUME TypeOK, OneEffectPerTransaction, NEW before \in Snapshot,
         NEW after \in Snapshot, NEW tx \in TransactionIds,
         Emit(before, after, tx),
         \A i \in DOMAIN events : events[i].transaction_id # tx
  PROVE  OneEffectPerTransaction'
<1>1. SUFFICES ASSUME NEW i \in DOMAIN events', NEW j \in DOMAIN events',
                      events'[i].transaction_id = events'[j].transaction_id
               PROVE  i = j
  BY DEF OneEffectPerTransaction
<1>2. /\ i \in DOMAIN events \/ i = Len(events) + 1
      /\ j \in DOMAIN events \/ j = Len(events) + 1
  BY EmitAddsOne
<1>3. CASE i \in DOMAIN events /\ j \in DOMAIN events
  BY <1>1, <1>3, EmitAddsOne DEF OneEffectPerTransaction
<1>4. CASE i = Len(events) + 1 /\ j \in DOMAIN events
  BY <1>1, <1>4, EmitAddsOne
<1>5. CASE i \in DOMAIN events /\ j = Len(events) + 1
  BY <1>1, <1>5, EmitAddsOne
<1> QED
  BY <1>2, <1>3, <1>4, <1>5

\* Every method call preserves it.
LEMMA NextEffectInv == IInv /\ EffectInv /\ [Next]_vars => EffectInv'
<1> SUFFICES ASSUME IInv, EffectInv, [Next]_vars PROVE EffectInv'
  OBVIOUS
<1> USE DEF EffectInv
<1>0. TypeOK
  BY DEF IInv
<1>1. ASSUME NEW tx \in TransactionIds, NEW t \in Transition,
             NEW s \in Snapshot, Prepare(tx, t, s)
      PROVE  EffectInv'
  <2>1. /\ next_candidate_id \in Nat \ {0}
        /\ DOMAIN candidates = 1..(next_candidate_id - 1)
        /\ DOMAIN candidates' = 1..next_candidate_id
        /\ candidates'[next_candidate_id].transaction_id = tx
        /\ \A k \in DOMAIN candidates : candidates'[k] = candidates[k]
    BY <1>0, <1>1, PrepareAddsOne
  <2>2. /\ tx \notin transaction_ids
        /\ transaction_ids' = transaction_ids \cup {tx}
        /\ events' = events /\ committed_candidates' = committed_candidates
    BY <1>1 DEF Prepare, Preparable, FreshId, kernel
  <2>3. \A k \in DOMAIN candidates' : k \in DOMAIN candidates \/ k = next_candidate_id
    BY <2>1
  <2>4. IdsAreUsed'
    BY <2>1, <2>2, <2>3 DEF IdsAreUsed
  <2>5. OneCandidatePerId'
    BY <2>1, <2>2, <2>3 DEF IdsAreUsed, OneCandidatePerId
  <2>6. EventsAreCommits'
    BY <2>1, <2>2, <2>3 DEF IdsAreUsed, EventsAreCommits
  <2>7. OneEffectPerTransaction'
    BY <2>2 DEF OneEffectPerTransaction
  <2> QED
    BY <2>4, <2>5, <2>6, <2>7
<1>2. ASSUME NEW c \in DOMAIN candidates, NEW passed \in BOOLEAN,
             Validate(c, passed)
      PROVE  EffectInv'
  <2>1. /\ DOMAIN candidates' = DOMAIN candidates
        /\ \A k \in DOMAIN candidates :
             candidates'[k].transaction_id = candidates[k].transaction_id
    BY <1>0, <1>2 DEF Validate, TypeOK, PreparedDelta
  <2>2. /\ events' = events /\ transaction_ids' = transaction_ids
        /\ committed_candidates' = committed_candidates
    BY <1>2 DEF Validate, kernel
  <2> QED
    BY <2>1, <2>2 DEF IdsAreUsed, OneCandidatePerId, EventsAreCommits,
                      OneEffectPerTransaction
<1>3. ASSUME NEW c \in DOMAIN candidates, Commit(c)
      PROVE  EffectInv'
  <2> DEFINE tx == candidates[c].transaction_id
  <2>1. /\ current_state \in Snapshot
        /\ candidates[c].proposed_state \in Snapshot
        /\ tx \in TransactionIds
    BY <1>0 DEF TypeOK, PreparedDelta
  <2>2. /\ Emit(current_state, candidates[c].proposed_state, tx)
        /\ candidates' = candidates /\ transaction_ids' = transaction_ids
        /\ committed_candidates' = committed_candidates \cup {c}
        /\ c \notin committed_candidates
    BY <1>3 DEF Commit, Committable
  <2>3. /\ Len(events) \in Nat
        /\ DOMAIN events' = 1..(Len(events) + 1)
        /\ events'[Len(events) + 1].transaction_id = tx
        /\ \A i \in DOMAIN events : events'[i] = events[i]
        /\ DOMAIN events = 1..Len(events)
    BY <1>0, <2>1, <2>2, EmitAddsOne
  <2>4. \A i \in DOMAIN events : events[i].transaction_id # tx
    BY <2>2 DEF EventsAreCommits
  <2> HIDE DEF tx
  <2>5. OneEffectPerTransaction'
    BY <1>0, <2>1, <2>2, <2>4, FreshEffect
  <2>6. \A i \in DOMAIN events' : i \in DOMAIN events \/ i = Len(events) + 1
    BY <2>3
  <2>7. IdsAreUsed'
    BY <2>2, <2>3, <2>6 DEF IdsAreUsed, tx
  <2>8. OneCandidatePerId'
    BY <2>2 DEF OneCandidatePerId
  <2>9. EventsAreCommits'
    BY <2>2, <2>3, <2>6 DEF EventsAreCommits, OneCandidatePerId, tx
  <2> QED
    BY <2>5, <2>7, <2>8, <2>9
<1>4. ASSUME NEW tx \in TransactionIds, NEW i \in DOMAIN deltas, Rollback(tx, i)
      PROVE  EffectInv'
  <2>1. deltas[i].before_state \in Snapshot /\ deltas[i].after_state \in Snapshot
    <3>1. i \in 1..Len(deltas) /\ deltas[i] \in StateDelta
      BY <1>0 DEF TypeOK
    <3> QED
      BY <3>1 DEF StateDelta
  <2>2. /\ Emit(deltas[i].after_state, deltas[i].before_state, tx)
        /\ candidates' = candidates /\ tx \notin transaction_ids
        /\ transaction_ids' = transaction_ids \cup {tx}
        /\ committed_candidates' = committed_candidates
    BY <1>4 DEF Rollback, FreshId
  <2>3. /\ Len(events) \in Nat
        /\ DOMAIN events' = 1..(Len(events) + 1)
        /\ events'[Len(events) + 1].transaction_id = tx
        /\ \A j \in DOMAIN events : events'[j] = events[j]
        /\ DOMAIN events = 1..Len(events)
    BY <1>0, <2>1, <2>2, EmitAddsOne
  <2>4. \A j \in DOMAIN events : events[j].transaction_id # tx
    BY <2>2 DEF IdsAreUsed
  <2>5. OneEffectPerTransaction'
    BY <1>0, <2>1, <2>2, <2>4, FreshEffect
  <2>6. \A j \in DOMAIN events' : j \in DOMAIN events \/ j = Len(events) + 1
    BY <2>3
  <2>7. IdsAreUsed'
    BY <2>2, <2>3, <2>6 DEF IdsAreUsed
  <2>8. OneCandidatePerId'
    BY <2>2 DEF OneCandidatePerId
  <2>9. EventsAreCommits'
    BY <2>2, <2>3, <2>6 DEF EventsAreCommits, IdsAreUsed
  <2> QED
    BY <2>5, <2>7, <2>8, <2>9
<1>5. CASE UNCHANGED vars
  BY <1>5 DEF vars, IdsAreUsed, OneCandidatePerId, EventsAreCommits,
              OneEffectPerTransaction
<1> QED
  BY <1>1, <1>2, <1>3, <1>4, <1>5 DEF Next

\* Theorem: a transaction id changes the state at most once, by a commit or by
\* a rollback, however often the state returns to where it was prepared.
THEOREM OneEffect == Spec => []OneEffectPerTransaction
<1>1. EffectInv => OneEffectPerTransaction
  BY DEF EffectInv
<1> QED
  BY <1>1, InitEffectInv, NextEffectInv, KernelInvariant, PTL DEF Spec

-----------------------------------------------------------------------------
(* A delta has one reversal.                                                 *)

Reversals == {r \in DOMAIN records : records[r].status = "RolledBack"}

\* Record r names an earlier delta as undone, and its own delta undoes it.
Reverses(r) ==
  /\ records[r].source_delta_id \in rolled_back_deltas
  /\ records[r].delta_id \in DOMAIN deltas
  /\ records[r].source_delta_id \in DOMAIN deltas
  /\ records[r].source_delta_id < records[r].delta_id
  /\ deltas[records[r].delta_id].before_state
       = deltas[records[r].source_delta_id].after_state
  /\ deltas[records[r].delta_id].after_state
       = deltas[records[r].source_delta_id].before_state

ReversalInv ==
  /\ \A r \in Reversals : Reverses(r)
  /\ \A r, q \in Reversals :
       records[r].source_delta_id = records[q].source_delta_id => r = q

\* The initial kernel satisfies it.
LEMMA InitReversalInv == Init => ReversalInv
  BY DEF Init, ReversalInv, Reversals

\* Appending to the audit log keeps what it says.
LEMMA RecordAddsOne ==
  ASSUME TypeOK, NEW rec \in TransactionRecord, records' = Append(records, rec)
  PROVE  /\ DOMAIN records' = DOMAIN records \cup {Len(records) + 1}
         /\ Len(records) + 1 \notin DOMAIN records
         /\ records'[Len(records) + 1] = rec
         /\ \A r \in DOMAIN records : records'[r] = records[r]
<1>1. records \in Seq(TransactionRecord)
  BY DEF TypeOK
<1>2. Len(records) \in Nat /\ DOMAIN records = 1..Len(records)
  BY <1>1
<1> QED
  BY <1>1, <1>2, AppendFacts

\* A record that names a reversal keeps doing so while deltas only grow.
LEMMA KeptReversal ==
  ASSUME NEW r, Reverses(r), records'[r] = records[r],
         rolled_back_deltas \subseteq rolled_back_deltas',
         DOMAIN deltas \subseteq DOMAIN deltas',
         \A i \in DOMAIN deltas : deltas'[i] = deltas[i]
  PROVE  Reverses(r)'
<1> DEFINE undo == records[r].delta_id
           done == records[r].source_delta_id
<1>1. /\ done \in rolled_back_deltas
      /\ undo \in DOMAIN deltas
      /\ done \in DOMAIN deltas
      /\ done < undo
      /\ deltas[undo].before_state = deltas[done].after_state
      /\ deltas[undo].after_state = deltas[done].before_state
  BY DEF Reverses
<1>2. /\ records'[r].delta_id = undo
      /\ records'[r].source_delta_id = done
  OBVIOUS
<1> HIDE DEF undo, done
<1>3. deltas'[undo] = deltas[undo] /\ deltas'[done] = deltas[done]
  BY <1>1
<1>4. /\ done \in rolled_back_deltas'
      /\ undo \in DOMAIN deltas'
      /\ done \in DOMAIN deltas'
      /\ done < undo
      /\ deltas'[undo].before_state = deltas'[done].after_state
      /\ deltas'[undo].after_state = deltas'[done].before_state
  BY <1>1, <1>3
<1> QED
  BY <1>2, <1>4 DEF Reverses

\* A call that neither rolls back nor changes an existing delta keeps it.
LEMMA OtherRecordsKeepReversals ==
  ASSUME TypeOK, ReversalInv, NEW rec \in TransactionRecord,
         records' = Append(records, rec), rec.status # "RolledBack",
         rolled_back_deltas' = rolled_back_deltas,
         DOMAIN deltas \subseteq DOMAIN deltas',
         \A i \in DOMAIN deltas : deltas'[i] = deltas[i]
  PROVE  ReversalInv'
<1>1. /\ DOMAIN records' = DOMAIN records \cup {Len(records) + 1}
      /\ Len(records) + 1 \notin DOMAIN records
      /\ records'[Len(records) + 1] = rec
      /\ \A r \in DOMAIN records : records'[r] = records[r]
  BY RecordAddsOne
<1>2. Reversals' = Reversals
  BY <1>1 DEF Reversals
<1>3. \A r \in Reversals : records'[r] = records[r]
  BY <1>1 DEF Reversals
<1>4. ASSUME NEW r \in Reversals PROVE Reverses(r)'
  BY <1>3, <1>4, KeptReversal DEF ReversalInv
<1>5. (\A r \in Reversals : Reverses(r))'
  BY <1>2, <1>4 DEF Reverses
<1>6. \A r, q \in Reversals :
        records[r].source_delta_id = records[q].source_delta_id => r = q
  BY DEF ReversalInv
<1>7. ASSUME NEW r \in Reversals, NEW q \in Reversals,
             records'[r].source_delta_id = records'[q].source_delta_id
      PROVE  r = q
  <2>1. records'[r] = records[r] /\ records'[q] = records[q]
    BY <1>3
  <2> QED
    BY <1>6, <1>7, <2>1
<1>8. (\A r, q \in Reversals :
         records[r].source_delta_id = records[q].source_delta_id => r = q)'
  BY <1>2, <1>7
<1> QED
  BY <1>5, <1>8 DEF ReversalInv

\* What commit and rollback do to the deltas.
LEMMA EmitAddsDelta ==
  ASSUME TypeOK, TraceMatchesDeltas, NEW before \in Snapshot,
         NEW after \in Snapshot, NEW tx \in TransactionIds,
         Emit(before, after, tx)
  PROVE  /\ next_delta_id = Len(deltas) + 1
         /\ DOMAIN deltas = 1..Len(deltas)
         /\ DOMAIN deltas' = 1..next_delta_id
         /\ deltas'[next_delta_id].before_state = before
         /\ deltas'[next_delta_id].after_state = after
         /\ \A i \in DOMAIN deltas : deltas'[i] = deltas[i]
<1> DEFINE d == [delta_id |-> next_delta_id, before_state |-> before,
                 after_state |-> after]
<1>1. /\ d \in StateDelta
      /\ d.before_state = before /\ d.after_state = after
  BY DEF TypeOK, StateDelta
<1>2. deltas' = Append(deltas, d) /\ deltas \in Seq(StateDelta)
  BY DEF Emit, TypeOK
<1>3. next_delta_id = Len(deltas) + 1
  BY DEF TraceMatchesDeltas
<1> HIDE DEF d
<1> QED
  BY <1>1, <1>2, <1>3, AppendFacts

\* Every method call preserves it.
LEMMA NextReversalInv == IInv /\ ReversalInv /\ [Next]_vars => ReversalInv'
<1> SUFFICES ASSUME IInv, ReversalInv, [Next]_vars PROVE ReversalInv'
  OBVIOUS
<1>0. TypeOK /\ TraceMatchesDeltas
  BY DEF IInv
<1>1. ASSUME NEW tx \in TransactionIds, NEW t \in Transition,
             NEW s \in Snapshot, Prepare(tx, t, s)
      PROVE  ReversalInv'
  <2> DEFINE rec == [transaction_id |-> tx, candidate_id |-> next_candidate_id,
                     delta_id |-> None, status |-> "Prepared",
                     source_delta_id |-> None]
  <2>1. rec \in TransactionRecord /\ rec.status # "RolledBack"
    BY <1>0 DEF TypeOK, TransactionRecord, TransactionStatus, None
  <2>2. records' = Append(records, rec)
    BY <1>1 DEF Prepare, Record
  <2>3. deltas' = deltas /\ rolled_back_deltas' = rolled_back_deltas
    BY <1>1 DEF Prepare, kernel
  <2> HIDE DEF rec
  <2> QED
    BY <1>0, <2>1, <2>2, <2>3, OtherRecordsKeepReversals
<1>2. ASSUME NEW c \in DOMAIN candidates, NEW passed \in BOOLEAN,
             Validate(c, passed)
      PROVE  ReversalInv'
  <2> DEFINE verdict == IF passed THEN "Accepted" ELSE "Rejected"
             rec == [transaction_id |-> candidates[c].transaction_id,
                     candidate_id |-> c, delta_id |-> None,
                     status |-> verdict, source_delta_id |-> None]
  <2>1. rec \in TransactionRecord /\ rec.status # "RolledBack"
    BY <1>0 DEF TypeOK, TransactionRecord, TransactionStatus, None,
                PreparedDelta
  <2>2. records' = Append(records, rec)
    BY <1>2 DEF Validate, Record
  <2>3. deltas' = deltas /\ rolled_back_deltas' = rolled_back_deltas
    BY <1>2 DEF Validate, kernel
  <2> HIDE DEF rec
  <2> QED
    BY <1>0, <2>1, <2>2, <2>3, OtherRecordsKeepReversals
<1>3. ASSUME NEW c \in DOMAIN candidates, Commit(c)
      PROVE  ReversalInv'
  <2> DEFINE rec == [transaction_id |-> candidates[c].transaction_id,
                     candidate_id |-> c, delta_id |-> next_delta_id,
                     status |-> "Committed", source_delta_id |-> None]
  <2>1. rec \in TransactionRecord /\ rec.status # "RolledBack"
    BY <1>0 DEF TypeOK, TransactionRecord, TransactionStatus, None,
                PreparedDelta
  <2>2. /\ current_state \in Snapshot
        /\ candidates[c].proposed_state \in Snapshot
        /\ candidates[c].transaction_id \in TransactionIds
    BY <1>0 DEF TypeOK, PreparedDelta
  <2>3. /\ Emit(current_state, candidates[c].proposed_state,
                candidates[c].transaction_id)
        /\ records' = Append(records, rec)
        /\ rolled_back_deltas' = rolled_back_deltas
    BY <1>3 DEF Commit, Record
  <2>4. /\ DOMAIN deltas \subseteq DOMAIN deltas'
        /\ \A i \in DOMAIN deltas : deltas'[i] = deltas[i]
    <3>1. /\ next_delta_id = Len(deltas) + 1
          /\ DOMAIN deltas = 1..Len(deltas)
          /\ DOMAIN deltas' = 1..next_delta_id
          /\ \A i \in DOMAIN deltas : deltas'[i] = deltas[i]
      BY <1>0, <2>2, <2>3, EmitAddsDelta
    <3> QED
      BY <1>0, <3>1 DEF TypeOK
  <2> HIDE DEF rec
  <2> QED
    BY <1>0, <2>1, <2>3, <2>4, OtherRecordsKeepReversals
<1>4. ASSUME NEW tx \in TransactionIds, NEW i \in DOMAIN deltas, Rollback(tx, i)
      PROVE  ReversalInv'
  <2> DEFINE rec == [transaction_id |-> tx, candidate_id |-> None,
                     delta_id |-> next_delta_id, status |-> "RolledBack",
                     source_delta_id |-> i]
  <2> PICK n : n = Len(records) + 1
    OBVIOUS
  <2>1. /\ deltas[i].delta_id = i /\ i \in 1..Len(deltas)
        /\ deltas[i].before_state \in Snapshot
        /\ deltas[i].after_state \in Snapshot
    <3>1. i \in 1..Len(deltas) /\ deltas[i] \in StateDelta
      BY <1>0 DEF TypeOK
    <3> QED
      BY <1>0, <3>1 DEF StateDelta, TraceMatchesDeltas
  <2>2. /\ Emit(deltas[i].after_state, deltas[i].before_state, tx)
        /\ records' = Append(records, rec)
        /\ i \notin rolled_back_deltas
        /\ rolled_back_deltas' = rolled_back_deltas \cup {i}
    BY <1>4, <2>1 DEF Rollback, Reversible, Record
  <2>3. /\ rec \in TransactionRecord
        /\ rec.status = "RolledBack" /\ rec.source_delta_id = i
        /\ rec.delta_id = next_delta_id
    BY <1>0, <2>1 DEF TypeOK, TransactionRecord, TransactionStatus, None
  <2>4. /\ next_delta_id = Len(deltas) + 1
        /\ DOMAIN deltas = 1..Len(deltas)
        /\ DOMAIN deltas' = 1..next_delta_id
        /\ deltas'[next_delta_id].before_state = deltas[i].after_state
        /\ deltas'[next_delta_id].after_state = deltas[i].before_state
        /\ \A j \in DOMAIN deltas : deltas'[j] = deltas[j]
    BY <1>0, <2>1, <2>2, EmitAddsDelta
  <2> HIDE DEF rec
  <2>5. /\ DOMAIN records' = DOMAIN records \cup {n}
        /\ n \notin DOMAIN records
        /\ records'[n] = rec
        /\ \A r \in DOMAIN records : records'[r] = records[r]
    BY <1>0, <2>2, <2>3, RecordAddsOne
  <2>6. Reversals' = Reversals \cup {n}
    BY <2>3, <2>5 DEF Reversals
  <2>7. /\ DOMAIN deltas \subseteq DOMAIN deltas'
        /\ next_delta_id \in DOMAIN deltas' /\ i \in DOMAIN deltas'
        /\ i < next_delta_id
    BY <1>0, <2>1, <2>4 DEF TypeOK
  <2>8. \A r \in Reversals : records'[r] = records[r] /\ Reverses(r)
    BY <2>5 DEF Reversals, ReversalInv
  <2>9. ASSUME NEW r \in Reversals PROVE Reverses(r)'
    BY <2>2, <2>4, <2>7, <2>8, <2>9, KeptReversal
  <2>10. Reverses(n)'
    BY <2>2, <2>3, <2>4, <2>5, <2>7 DEF Reverses
  <2>11. \A r \in Reversals : records'[r].source_delta_id # i
    BY <2>2, <2>8 DEF Reverses
  <2>12. records'[n].source_delta_id = i
    BY <2>3, <2>5
  <2>13. (\A r \in Reversals : Reverses(r))'
    BY <2>6, <2>9, <2>10 DEF Reverses
  <2>14. (\A r, q \in Reversals :
           records[r].source_delta_id = records[q].source_delta_id => r = q)'
    BY <2>6, <2>8, <2>11, <2>12 DEF ReversalInv
  <2> QED
    BY <2>13, <2>14 DEF ReversalInv
<1>5. CASE UNCHANGED vars
  BY <1>5 DEF vars, ReversalInv, Reversals, Reverses
<1> QED
  BY <1>1, <1>2, <1>3, <1>4, <1>5 DEF Next

\* Theorem: a rollback undoes exactly the delta it names, and no delta is
\* undone twice, also when the state has come back to what it produced.
THEOREM OneReversal == Spec => []RollbackReversesOnce
<1>1. ReversalInv => RollbackReversesOnce
  BY DEF ReversalInv, Reversals, Reverses, RollbackReversesOnce
<1> QED
  BY <1>1, InitReversalInv, NextReversalInv, KernelInvariant, PTL DEF Spec

-----------------------------------------------------------------------------
(* A transaction has one life in the audit log.                              *)

AuditInv ==
  /\ \A i \in DOMAIN records : records[i].transaction_id \in transaction_ids
  /\ \A c \in committed_candidates : candidates[c].validation_status = "Accepted"
  /\ AuditTellsOneLife

\* The initial kernel satisfies it.
LEMMA InitAuditInv == Init => AuditInv
  BY DEF Init, AuditInv, AuditTellsOneLife

\* A new record rec: the ones there were keep their place in their
\* transactions, except that the last one of rec's is followed by rec.
Continued(n, rec) ==
  /\ n \in Nat /\ DOMAIN records = 1..(n - 1) /\ DOMAIN records' = 1..n
  /\ records'[n] = rec /\ \A i \in 1..(n - 1) : records'[i] = records[i]
  /\ \A i \in 1..(n - 1) : IsFirst(i)' <=> IsFirst(i)
  /\ \A i, j \in 1..(n - 1) : Follows(j, i)' <=> Follows(j, i)
  /\ \A i \in 1..(n - 1) :
       IsLast(i)' <=> IsLast(i) /\ records[i].transaction_id # rec.transaction_id
  /\ \A i \in 1..(n - 1) : Follows(n, i)' =>
       IsLast(i) /\ records[i].transaction_id = rec.transaction_id
  /\ \A i \in 1..n : ~Follows(i, n)'
  /\ IsLast(n)'
  /\ IsFirst(n)' => \A i \in 1..(n - 1) :
       records[i].transaction_id # rec.transaction_id

LEMMA RecordContinues ==
  ASSUME TypeOK, NEW rec \in TransactionRecord, records' = Append(records, rec)
  PROVE  \E n : Continued(n, rec)
<1> PICK n : n = Len(records) + 1
  OBVIOUS
<1>1. /\ n \in Nat /\ DOMAIN records = 1..(n - 1) /\ DOMAIN records' = 1..n
      /\ Len(records) = n - 1 /\ Len(records') = n
      /\ records'[n] = rec /\ \A i \in 1..(n - 1) : records'[i] = records[i]
  BY AppendFacts DEF TypeOK
<1>2. \A i, j \in 1..(n - 1) : OfOneTransaction(i, j)' <=> OfOneTransaction(i, j)
  BY <1>1 DEF OfOneTransaction
<1>3. \A i \in 1..(n - 1) :
        OfOneTransaction(i, n)' <=> records[i].transaction_id = rec.transaction_id
  BY <1>1 DEF OfOneTransaction
<1>4. \A i \in 1..(n - 1) : OfOneTransaction(n, i)' <=> OfOneTransaction(i, n)'
  BY DEF OfOneTransaction
<1>5. ASSUME NEW i \in 1..(n - 1)
      PROVE  IsFirst(i)' <=> IsFirst(i)
  BY <1>1, <1>2 DEF IsFirst
<1>6. ASSUME NEW i \in 1..(n - 1), NEW j \in 1..(n - 1)
      PROVE  Follows(j, i)' <=> Follows(j, i)
  BY <1>1, <1>2 DEF Follows
<1>7. ASSUME NEW i \in 1..(n - 1)
      PROVE  /\ IsLast(i)' <=> IsLast(i) /\ records[i].transaction_id # rec.transaction_id
             /\ Follows(n, i)' =>
                  IsLast(i) /\ records[i].transaction_id = rec.transaction_id
  <2>1. \A k : k \in (i + 1)..n <=> k \in (i + 1)..(n - 1) \/ k = n
    BY <1>1
  <2>2. \A k \in (i + 1)..(n - 1) : k \in 1..(n - 1)
    BY <1>1
  <2> QED
    BY <1>1, <1>2, <1>3, <2>1, <2>2 DEF IsLast, Follows
<1>8. \A i \in 1..n : ~Follows(i, n)'
  BY <1>1 DEF Follows
<1>9. IsLast(n)'
  BY <1>1 DEF IsLast
<1>10. IsFirst(n)' => \A i \in 1..(n - 1) : records[i].transaction_id # rec.transaction_id
  BY <1>1, <1>3, <1>4 DEF IsFirst
<1>11. Continued(n, rec)
  BY <1>1, <1>5, <1>6, <1>7, <1>8, <1>9, <1>10 DEF Continued
<1> QED
  BY <1>11

\* A record that opens a transaction, or continues the last one of its
\* transaction legally, and that says how its candidate stands from now on.
LEMMA RecordKeepsLives ==
  ASSUME TypeOK, AuditInv, NEW rec \in TransactionRecord,
         records' = Append(records, rec),
         transaction_ids \subseteq transaction_ids',
         rec.transaction_id \in transaction_ids',
         \A c \in committed_candidates' : candidates'[c].validation_status = "Accepted",
         (\A i \in DOMAIN records : records[i].transaction_id # rec.transaction_id)
           => rec.status \in {"Prepared", "RolledBack"},
         \A i \in DOMAIN records :
           IsLast(i) /\ records[i].transaction_id = rec.transaction_id =>
             <<records[i].status, rec.status>> \in
               {<<"Prepared", "Accepted">>, <<"Prepared", "Rejected">>,
                <<"Accepted", "Committed">>},
         \A c \in DOMAIN candidates' :
           \/ /\ candidates'[c].transaction_id = rec.transaction_id
              /\ Standing(c)' = rec.status
           \/ /\ c \in DOMAIN candidates
              /\ candidates'[c].transaction_id = candidates[c].transaction_id
              /\ candidates[c].transaction_id # rec.transaction_id
              /\ Standing(c)' = Standing(c)
  PROVE  AuditInv'
<1>0. PICK n : Continued(n, rec)
  BY RecordContinues
<1>1. /\ n \in Nat /\ DOMAIN records = 1..(n - 1) /\ DOMAIN records' = 1..n
      /\ records'[n] = rec /\ \A i \in 1..(n - 1) : records'[i] = records[i]
      /\ \A i \in 1..(n - 1) : IsFirst(i)' <=> IsFirst(i)
      /\ \A i, j \in 1..(n - 1) : Follows(j, i)' <=> Follows(j, i)
      /\ \A i \in 1..(n - 1) :
           IsLast(i)' <=> IsLast(i) /\ records[i].transaction_id # rec.transaction_id
      /\ \A i \in 1..(n - 1) : Follows(n, i)' =>
           IsLast(i) /\ records[i].transaction_id = rec.transaction_id
      /\ \A i \in 1..n : ~Follows(i, n)'
      /\ IsLast(n)'
      /\ IsFirst(n)' => \A i \in 1..(n - 1) :
           records[i].transaction_id # rec.transaction_id
  BY <1>0 DEF Continued
<1>2. \A i \in 1..n : i \in 1..(n - 1) \/ i = n
  BY <1>1
<1>3. ASSUME NEW i \in 1..n, IsFirst(i)'
      PROVE  records'[i].status \in {"Prepared", "RolledBack"}
  BY <1>1, <1>2, <1>3 DEF AuditInv, AuditTellsOneLife
<1>4. ASSUME NEW i \in 1..n, NEW j \in 1..n, Follows(j, i)'
      PROVE  <<records'[i].status, records'[j].status>> \in
               {<<"Prepared", "Accepted">>, <<"Prepared", "Rejected">>,
                <<"Accepted", "Committed">>}
  <2>1. i \in 1..(n - 1)
    BY <1>1, <1>2, <1>4
  <2>2. CASE j \in 1..(n - 1)
    BY <1>1, <1>4, <2>1, <2>2 DEF AuditInv, AuditTellsOneLife
  <2>3. CASE j = n
    BY <1>1, <1>4, <2>1, <2>3
  <2> QED
    BY <1>2, <2>2, <2>3
<1>5. ASSUME NEW c \in DOMAIN candidates'
      PROVE  \E i \in 1..n :
               /\ records'[i].transaction_id = candidates'[c].transaction_id
               /\ IsLast(i)' /\ records'[i].status = Standing(c)'
  <2>1. n \in 1..n
    BY <1>1
  <2>2. CASE /\ c \in DOMAIN candidates
             /\ candidates'[c].transaction_id = candidates[c].transaction_id
             /\ candidates[c].transaction_id # rec.transaction_id
             /\ Standing(c)' = Standing(c)
    <3>1. PICK i \in 1..(n - 1) :
            /\ records[i].transaction_id = candidates[c].transaction_id
            /\ IsLast(i) /\ records[i].status = Standing(c)
      BY <1>1, <2>2 DEF AuditInv, AuditTellsOneLife
    <3>2. i \in 1..n /\ records'[i] = records[i] /\ IsLast(i)'
      BY <1>1, <2>2, <3>1
    <3> QED
      BY <2>2, <3>1, <3>2
  <2> QED
    BY <1>1, <1>5, <2>1, <2>2
<1>6. ASSUME NEW i \in 1..n
      PROVE  records'[i].transaction_id \in transaction_ids'
  BY <1>1, <1>2 DEF AuditInv
<1>7. AuditTellsOneLife'
  BY <1>1, <1>3, <1>4, <1>5 DEF AuditTellsOneLife
<1> QED
  BY <1>1, <1>6, <1>7 DEF AuditInv

\* The last record of a candidate's transaction tells how it stands.
LEMMA LastRecordTells ==
  ASSUME TypeOK, AuditInv, NEW c \in DOMAIN candidates
  PROVE  /\ \E i \in DOMAIN records :
              records[i].transaction_id = candidates[c].transaction_id
         /\ \A i \in DOMAIN records :
              IsLast(i) /\ records[i].transaction_id = candidates[c].transaction_id
                => records[i].status = Standing(c)
<1>1. PICK n \in Nat : n = Len(records) /\ DOMAIN records = 1..n
  BY DEF TypeOK
<1>2. PICK k \in 1..n : /\ records[k].transaction_id = candidates[c].transaction_id
                        /\ IsLast(k) /\ records[k].status = Standing(c)
  BY <1>1 DEF AuditInv, AuditTellsOneLife
<1>3. ASSUME NEW i \in 1..n, IsLast(i),
             records[i].transaction_id = candidates[c].transaction_id
      PROVE  i = k
  <2>1. ~(i < k)
    <3>1. i < k => k \in (i + 1)..n
      BY <1>1
    <3> QED
      BY <1>1, <1>2, <1>3, <3>1 DEF IsLast, OfOneTransaction
  <2>2. ~(k < i)
    <3>1. k < i => i \in (k + 1)..n
      BY <1>1
    <3> QED
      BY <1>1, <1>2, <1>3, <3>1 DEF IsLast, OfOneTransaction
  <2> QED
    BY <1>1, <2>1, <2>2
<1> QED
  BY <1>1, <1>2, <1>3

\* Every method call preserves it.
LEMMA NextAuditInv == IInv /\ EffectInv /\ AuditInv /\ [Next]_vars => AuditInv'
<1> SUFFICES ASSUME IInv, EffectInv, AuditInv, [Next]_vars PROVE AuditInv'
  OBVIOUS
<1>0. TypeOK /\ IdsAreUsed /\ OneCandidatePerId
  BY DEF IInv, EffectInv
<1>1. ASSUME NEW tx \in TransactionIds, NEW t \in Transition,
             NEW s \in Snapshot, Prepare(tx, t, s)
      PROVE  AuditInv'
  <2> DEFINE rec == [transaction_id |-> tx, candidate_id |-> next_candidate_id,
                     delta_id |-> None, status |-> "Prepared",
                     source_delta_id |-> None]
  <2>1. /\ rec \in TransactionRecord /\ rec.status = "Prepared"
        /\ rec.transaction_id = tx
    BY <1>0 DEF TypeOK, TransactionRecord, TransactionStatus, None
  <2>2. records' = Append(records, rec)
    BY <1>1 DEF Prepare, Record
  <2> HIDE DEF rec
  <2> PICK n : n = next_candidate_id
    OBVIOUS
  <2>3. /\ tx \notin transaction_ids
        /\ transaction_ids' = transaction_ids \cup {tx}
        /\ committed_candidates' = committed_candidates
    BY <1>1 DEF Prepare, Preparable, FreshId
  <2>4. \A i \in DOMAIN records : records[i].transaction_id # tx
    BY <2>3 DEF AuditInv
  <2>5. /\ n \in Nat \ {0}
        /\ DOMAIN candidates = 1..(n - 1)
        /\ DOMAIN candidates' = 1..n
        /\ candidates'[n].transaction_id = tx
        /\ \A k \in DOMAIN candidates : candidates'[k] = candidates[k]
    BY <1>0, <1>1, PrepareAddsOne
  <2>6. candidates'[n].validation_status = "Pending"
    BY <1>0, <1>1, <2>5 DEF Prepare, Insert, TypeOK
  <2>7. n \notin committed_candidates
    BY <1>0, <2>5 DEF TypeOK
  <2>8. \A c \in DOMAIN candidates : /\ candidates[c].transaction_id # tx
                                    /\ Standing(c)' = Standing(c)
    BY <1>0, <2>3, <2>5 DEF IdsAreUsed, Standing
  <2>9. Standing(n)' = "Prepared"
    BY <2>3, <2>6, <2>7 DEF Standing
  <2>10. \A c \in DOMAIN candidates' : c \in DOMAIN candidates \/ c = n
    BY <2>5
  <2>11. \A c \in DOMAIN candidates' :
           \/ /\ candidates'[c].transaction_id = rec.transaction_id
              /\ Standing(c)' = rec.status
           \/ /\ c \in DOMAIN candidates
              /\ candidates'[c].transaction_id = candidates[c].transaction_id
              /\ candidates[c].transaction_id # rec.transaction_id
              /\ Standing(c)' = Standing(c)
    BY <2>1, <2>5, <2>8, <2>9, <2>10
  <2>12. \A c \in committed_candidates' : candidates'[c].validation_status = "Accepted"
    BY <1>0, <2>3, <2>5 DEF AuditInv, TypeOK
  <2> QED
    BY <1>0, <2>1, <2>2, <2>3, <2>4, <2>11, <2>12, RecordKeepsLives
<1>2. ASSUME NEW c \in DOMAIN candidates, NEW passed \in BOOLEAN,
             Validate(c, passed)
      PROVE  AuditInv'
  <2> DEFINE verdict == IF passed THEN "Accepted" ELSE "Rejected"
             rec == [transaction_id |-> candidates[c].transaction_id,
                     candidate_id |-> c, delta_id |-> None,
                     status |-> verdict, source_delta_id |-> None]
  <2>1. /\ rec \in TransactionRecord /\ rec.status \in {"Accepted", "Rejected"}
        /\ rec.status = verdict /\ rec.transaction_id = candidates[c].transaction_id
    BY <1>0 DEF TypeOK, TransactionRecord, TransactionStatus, None, PreparedDelta
  <2>2. records' = Append(records, rec)
    BY <1>2 DEF Validate, Record
  <2> HIDE DEF rec
  <2>3. /\ candidates[c].validation_status = "Pending"
        /\ candidates' = [candidates EXCEPT ![c].validation_status = verdict]
        /\ transaction_ids' = transaction_ids
        /\ committed_candidates' = committed_candidates
    BY <1>2 DEF Validate, Unvalidated
  <2>4. /\ DOMAIN candidates' = DOMAIN candidates
        /\ candidates'[c].validation_status = verdict
        /\ \A d \in DOMAIN candidates :
             /\ candidates'[d].transaction_id = candidates[d].transaction_id
             /\ d # c => candidates'[d] = candidates[d]
    BY <1>0, <2>3 DEF TypeOK, PreparedDelta
  <2>5. c \notin committed_candidates
    BY <2>3 DEF AuditInv
  <2>6. Standing(c) = "Prepared" /\ Standing(c)' = rec.status
    BY <2>1, <2>3, <2>4, <2>5 DEF Standing
  <2>7. \A d \in DOMAIN candidates : d # c =>
          /\ candidates[d].transaction_id # rec.transaction_id
          /\ Standing(d)' = Standing(d)
    BY <1>0, <2>1, <2>3, <2>4 DEF OneCandidatePerId, Standing
  <2>8. \A d \in DOMAIN candidates' :
          \/ /\ candidates'[d].transaction_id = rec.transaction_id
             /\ Standing(d)' = rec.status
          \/ /\ d \in DOMAIN candidates
             /\ candidates'[d].transaction_id = candidates[d].transaction_id
             /\ candidates[d].transaction_id # rec.transaction_id
             /\ Standing(d)' = Standing(d)
    BY <2>1, <2>4, <2>6, <2>7
  <2>9. rec.transaction_id \in transaction_ids'
    BY <1>0, <2>1, <2>3 DEF IdsAreUsed
  <2>10. /\ \E i \in DOMAIN records : records[i].transaction_id = rec.transaction_id
         /\ \A i \in DOMAIN records :
              IsLast(i) /\ records[i].transaction_id = rec.transaction_id
                => records[i].status = "Prepared"
    BY <1>0, <2>1, <2>6, LastRecordTells
  <2>11. \A d \in committed_candidates' : candidates'[d].validation_status = "Accepted"
    BY <1>0, <2>3, <2>4, <2>5 DEF AuditInv, TypeOK
  <2> QED
    BY <1>0, <2>1, <2>2, <2>3, <2>8, <2>9, <2>10, <2>11, RecordKeepsLives
<1>3. ASSUME NEW c \in DOMAIN candidates, Commit(c)
      PROVE  AuditInv'
  <2> DEFINE rec == [transaction_id |-> candidates[c].transaction_id,
                     candidate_id |-> c, delta_id |-> next_delta_id,
                     status |-> "Committed", source_delta_id |-> None]
  <2>1. /\ rec \in TransactionRecord /\ rec.status = "Committed"
        /\ rec.transaction_id = candidates[c].transaction_id
    BY <1>0 DEF TypeOK, TransactionRecord, TransactionStatus, None, PreparedDelta
  <2>2. records' = Append(records, rec)
    BY <1>3 DEF Commit, Record
  <2> HIDE DEF rec
  <2>3. /\ candidates[c].validation_status = "Accepted"
        /\ c \notin committed_candidates
        /\ candidates' = candidates /\ transaction_ids' = transaction_ids
        /\ committed_candidates' = committed_candidates \cup {c}
    BY <1>3 DEF Commit, Committable
  <2>4. Standing(c) = "Accepted" /\ Standing(c)' = rec.status
    BY <2>1, <2>3 DEF Standing
  <2>5. \A d \in DOMAIN candidates : d # c =>
          /\ candidates[d].transaction_id # rec.transaction_id
          /\ Standing(d)' = Standing(d)
    BY <1>0, <2>1, <2>3 DEF OneCandidatePerId, Standing
  <2>6. \A d \in DOMAIN candidates' :
          \/ /\ candidates'[d].transaction_id = rec.transaction_id
             /\ Standing(d)' = rec.status
          \/ /\ d \in DOMAIN candidates
             /\ candidates'[d].transaction_id = candidates[d].transaction_id
             /\ candidates[d].transaction_id # rec.transaction_id
             /\ Standing(d)' = Standing(d)
    BY <2>1, <2>3, <2>4, <2>5
  <2>7. rec.transaction_id \in transaction_ids'
    BY <1>0, <2>1, <2>3 DEF IdsAreUsed
  <2>8. /\ \E i \in DOMAIN records : records[i].transaction_id = rec.transaction_id
        /\ \A i \in DOMAIN records :
             IsLast(i) /\ records[i].transaction_id = rec.transaction_id
               => records[i].status = "Accepted"
    BY <1>0, <2>1, <2>4, LastRecordTells
  <2>9. \A d \in committed_candidates' : candidates'[d].validation_status = "Accepted"
    BY <2>3 DEF AuditInv
  <2> QED
    BY <1>0, <2>1, <2>2, <2>3, <2>6, <2>7, <2>8, <2>9, RecordKeepsLives
<1>4. ASSUME NEW tx \in TransactionIds, NEW i \in DOMAIN deltas, Rollback(tx, i)
      PROVE  AuditInv'
  <2> DEFINE rec == [transaction_id |-> tx, candidate_id |-> None,
                     delta_id |-> next_delta_id, status |-> "RolledBack",
                     source_delta_id |-> deltas[i].delta_id]
  <2>1. /\ rec \in TransactionRecord /\ rec.status = "RolledBack"
        /\ rec.transaction_id = tx
    <3>1. i \in 1..Len(deltas) /\ deltas[i] \in StateDelta
      BY <1>0 DEF TypeOK
    <3> QED
      BY <1>0, <3>1 DEF TypeOK, TransactionRecord, TransactionStatus, None, StateDelta
  <2>2. records' = Append(records, rec)
    BY <1>4 DEF Rollback, Record
  <2> HIDE DEF rec
  <2>3. /\ tx \notin transaction_ids
        /\ transaction_ids' = transaction_ids \cup {tx}
        /\ candidates' = candidates /\ committed_candidates' = committed_candidates
    BY <1>4 DEF Rollback, FreshId
  <2>4. \A j \in DOMAIN records : records[j].transaction_id # tx
    BY <2>3 DEF AuditInv
  <2>5. \A c \in DOMAIN candidates : /\ candidates[c].transaction_id # tx
                                    /\ Standing(c)' = Standing(c)
    BY <1>0, <2>3 DEF IdsAreUsed, Standing
  <2>6. \A c \in committed_candidates' : candidates'[c].validation_status = "Accepted"
    BY <2>3 DEF AuditInv
  <2> QED
    BY <1>0, <2>1, <2>2, <2>3, <2>4, <2>5, <2>6, RecordKeepsLives
<1>5. CASE UNCHANGED vars
  BY <1>5 DEF vars, AuditInv, AuditTellsOneLife, IsFirst, IsLast, Follows,
              OfOneTransaction, Standing
<1> QED
  BY <1>1, <1>2, <1>3, <1>4, <1>5 DEF Next

\* Theorem: the audit log tells one legal life of every transaction, and its
\* last record of a candidate agrees with what commit and validate decide by,
\* however the calls of the transactions interleave.
THEOREM OneLife == Spec => []AuditTellsOneLife
<1>1. AuditInv => AuditTellsOneLife
  BY DEF AuditInv
<1> QED
  BY <1>1, InitAuditInv, NextAuditInv, InitEffectInv, NextEffectInv,
     KernelInvariant, PTL DEF Spec
-----------------------------------------------------------------------------
(***************************************************************************)
(* The transaction kernel implements the ledger of StateLedger.            *)
(***************************************************************************)

\* What the refinement mapping gives the ledger.
Offers == {OfferOf(c) : c \in {d \in DOMAIN candidates : Open(d)}}
Undone == {d + 1 : d \in rolled_back_deltas}

LEMMA OffersAre ==
  ASSUME NEW f
  PROVE  f \in Offers <=> \E c \in DOMAIN candidates : Open(c) /\ f = OfferOf(c)
  BY DEF Offers

\* The ledger's history is where each delta started and the current state.
LEMMA HistoryFacts ==
  ASSUME TypeOK, DeltaChain
  PROVE  /\ History \in Seq(Snapshot)
         /\ Len(deltas) \in Nat /\ DOMAIN deltas = 1 .. Len(deltas)
         /\ Len(History) = Len(deltas) + 1
         /\ History[Len(History)] = current_state
         /\ \A i \in 1 .. Len(deltas) : /\ History[i] = deltas[i].before_state
                                        /\ History[i + 1] = deltas[i].after_state
<1> DEFINE n == Len(deltas)
<1>1. /\ n \in Nat /\ DOMAIN deltas = 1 .. n
      /\ \A i \in 1 .. n : deltas[i] \in StateDelta
  BY DEF TypeOK
<1>2. \A i \in 1 .. n : deltas[i].after_state \in Snapshot
  BY <1>1 DEF StateDelta
<1>3. \A i \in 1 .. n + 1 : (IF i = 1 THEN InitialState ELSE deltas[i - 1].after_state) \in Snapshot
  BY <1>1, <1>2, InitialStateIsSnapshot
<1>4. History \in Seq(Snapshot) /\ Len(History) = n + 1
  BY <1>1, <1>3 DEF History
<1>5. \A i \in 1 .. n : History[i + 1] = deltas[i].after_state
  BY <1>1 DEF History
<1>6. \A i \in 1 .. n : History[i] = deltas[i].before_state
  <2> SUFFICES ASSUME NEW i \in 1 .. n PROVE History[i] = deltas[i].before_state
    OBVIOUS
  <2>1. CASE i = 1
    BY <1>1, <2>1 DEF History, DeltaChain
  <2>2. CASE i # 1
    <3>1. i \in 2 .. n
      BY <1>1, <2>2
    <3> QED
      BY <1>1, <2>2, <3>1 DEF History, DeltaChain
  <2> QED
    BY <2>1, <2>2
<1>7. History[n + 1] = current_state
  <2>1. CASE n = 0
    <3>1. deltas = <<>>
      BY <2>1 DEF TypeOK
    <3> QED
      BY <2>1, <3>1 DEF History, DeltaChain
  <2>2. CASE n # 0
    <3>1. deltas # <<>> /\ n \in 1 .. n
      BY <1>1, <2>2
    <3> QED
      BY <1>5, <3>1 DEF DeltaChain
  <2> QED
    BY <2>1, <2>2
<1> QED
  BY <1>1, <1>4, <1>5, <1>6, <1>7

\* A function is a sequence with one element appended.
LEMMA IsAppend ==
  ASSUME NEW S, NEW q \in Seq(S), NEW e \in S, NEW n \in Nat, Len(q) = n,
         NEW r, r = [i \in 1 .. n + 1 |-> r[i]],
         \A i \in 1 .. n : r[i] = q[i], r[n + 1] = e
  PROVE  r = Append(q, e)
<1> DEFINE a == Append(q, e)
<1>1. /\ a \in Seq(S) /\ Len(a) = n + 1
      /\ a[n + 1] = e /\ \A i \in 1 .. n : a[i] = q[i]
  BY AppendFacts
<1> HIDE DEF a
<1>2. \A i \in 1 .. n + 1 : i \in 1 .. n \/ i = n + 1
  OBVIOUS
<1>3. \A i \in 1 .. n + 1 : r[i] = a[i]
  BY <1>1, <1>2
<1>4. a \in [1 .. n + 1 -> S]
  BY <1>1
<1>5. a = [i \in 1 .. n + 1 |-> a[i]]
  BY <1>4
<1>6. r = a
  BY <1>3, <1>5
<1> QED
  BY <1>6 DEF a

\* A commit or a rollback appends its result.
LEMMA EmitAppends ==
  ASSUME TypeOK, TraceMatchesDeltas, DeltaChain, NEW before \in Snapshot,
         NEW after \in Snapshot, NEW tx \in TransactionIds, Emit(before, after, tx)
  PROVE  History' = Append(History, after)
<1> DEFINE n == Len(deltas)
<1>1. /\ n \in Nat /\ DOMAIN deltas = 1 .. n
      /\ \A i \in 1 .. n : deltas'[i] = deltas[i]
      /\ deltas'[n + 1].after_state = after /\ Len(deltas') = n + 1
  <2>1. /\ next_delta_id = n + 1
        /\ deltas'[next_delta_id].after_state = after
        /\ \A i \in DOMAIN deltas : deltas'[i] = deltas[i]
    BY EmitAddsDelta
  <2>2. n \in Nat /\ DOMAIN deltas = 1 .. n
    BY DEF TypeOK
  <2>3. Len(deltas') = n + 1
    <3>1. [delta_id |-> next_delta_id, before_state |-> before,
           after_state |-> after] \in StateDelta
      BY DEF TypeOK, StateDelta
    <3> QED
      BY <3>1, AppendFacts DEF Emit, TypeOK
  <2> QED
    BY <2>1, <2>2, <2>3
<1>2. History \in Seq(Snapshot) /\ Len(History) = n + 1
  BY HistoryFacts
<1>3. History' = [i \in 1 .. n + 2 |-> IF i = 1 THEN InitialState ELSE deltas'[i - 1].after_state]
  BY <1>1 DEF History
<1>4. \A i \in 1 .. n + 1 : History'[i] = History[i]
  <2> SUFFICES ASSUME NEW i \in 1 .. n + 1 PROVE History'[i] = History[i]
    OBVIOUS
  <2>1. CASE i = 1
    BY <1>1, <1>3, <2>1 DEF History
  <2>2. CASE i # 1
    <3>1. i - 1 \in 1 .. n
      BY <1>1, <2>2
    <3> QED
      BY <1>1, <1>3, <2>2, <3>1 DEF History
  <2> QED
    BY <2>1, <2>2
<1>5. History'[n + 2] = after
  BY <1>1, <1>3
<1>6. DOMAIN History' = 1 .. n + 2 /\ History' = [i \in 1 .. n + 2 |-> History'[i]]
  BY <1>3
<1>7. n + 1 \in Nat /\ (n + 1) + 1 = n + 2
  BY <1>1
<1> QED
  BY <1>2, <1>4, <1>5, <1>6, <1>7, IsAppend

\* Offers of the same owner are one: taking one away takes one candidate away.
LEMMA OfferTaken ==
  ASSUME EffectInv, NEW c \in DOMAIN candidates, Open(c),
         DOMAIN candidates' = DOMAIN candidates,
         \A d \in DOMAIN candidates : OfferOf(d)' = OfferOf(d),
         \A d \in DOMAIN candidates : Open(d)' <=> Open(d) /\ d # c
  PROVE  OfferOf(c) \in Offers /\ Offers' = Offers \ {OfferOf(c)}
<1>1. \A d \in DOMAIN candidates : OfferOf(d) = OfferOf(c) => d = c
  BY DEF EffectInv, OneCandidatePerId, OfferOf
<1>2. \A f : f \in Offers' <=> \E d \in DOMAIN candidates : Open(d) /\ d # c /\ f = OfferOf(d)
  BY DEF Offers
<1>3. \A f : f \in Offers <=> \E d \in DOMAIN candidates : Open(d) /\ f = OfferOf(d)
  BY OffersAre
<1> QED
  BY <1>1, <1>2, <1>3

\* Candidates that stay as they are leave the offers as they are.
LEMMA OffersStay ==
  ASSUME DOMAIN candidates' = DOMAIN candidates,
         \A d \in DOMAIN candidates : OfferOf(d)' = OfferOf(d) /\ (Open(d)' <=> Open(d))
  PROVE  Offers' = Offers
<1>1. \A f : f \in Offers' <=> \E d \in DOMAIN candidates : Open(d) /\ f = OfferOf(d)
  BY DEF Offers
<1> QED
  BY <1>1, OffersAre

-----------------------------------------------------------------------------
(* Each method is a step of the ledger, or leaves it as it is.               *)

LEMMA PrepareOffers ==
  ASSUME TypeOK, DeltaChain, NEW tx \in TransactionIds, NEW t \in Transition,
         NEW s \in Snapshot, Prepare(tx, t, s)
  PROVE  Ledger!Offer(tx, s)
<1> PICK n : n = next_candidate_id
  OBVIOUS
<1> DEFINE c == [transaction_id |-> tx, before_state |-> current_state,
                 proposed_state |-> s, transition |-> t,
                 validation_status |-> "Pending"]
           f == [owner |-> tx, base |-> current_state, next |-> s]
<1>1. /\ n \in Nat \ {0} /\ DOMAIN candidates = 1 .. n - 1
      /\ committed_candidates \subseteq DOMAIN candidates
      /\ candidates' = Insert(candidates, n, c)
      /\ committed_candidates' = committed_candidates
  BY DEF TypeOK, Prepare
<1>2. /\ n \notin DOMAIN candidates
      /\ DOMAIN candidates' = DOMAIN candidates \cup {n}
      /\ candidates'[n] = c /\ \A d \in DOMAIN candidates : candidates'[d] = candidates[d]
  BY <1>1 DEF Insert
<1>3. OfferOf(n)' = f /\ Open(n)'
  BY <1>1, <1>2 DEF OfferOf, Open
<1>4. \A d \in DOMAIN candidates : OfferOf(d)' = OfferOf(d) /\ (Open(d)' <=> Open(d))
  BY <1>1, <1>2 DEF OfferOf, Open
<1> HIDE DEF f
<1>5. Offers' = Offers \cup {f}
  <2>1. \A g : g \in Offers' <=> \E d \in DOMAIN candidates' : Open(d)' /\ g = OfferOf(d)'
    BY DEF Offers
  <2> QED
    BY <1>2, <1>3, <1>4, <2>1, OffersAre
<1>6. /\ tx \notin transaction_ids /\ transaction_ids' = transaction_ids \cup {tx}
      /\ deltas' = deltas /\ rolled_back_deltas' = rolled_back_deltas
  BY DEF Prepare, Preparable, FreshId, kernel
<1>7. History' = History /\ Undone' = Undone
  BY <1>6 DEF History, Undone
<1>8. History[Len(History)] = current_state
  BY HistoryFacts
<1> QED
  BY <1>5, <1>6, <1>7, <1>8 DEF Ledger!Offer, Ledger!Now, Offers, Undone, f

LEMMA ValidateWithdraws ==
  ASSUME TypeOK, EffectInv, NEW c \in DOMAIN candidates, NEW passed \in BOOLEAN,
         Validate(c, passed)
  PROVE  UNCHANGED Ledger!vars \/ (OfferOf(c) \in Offers /\ Ledger!Withdraw(OfferOf(c)))
<1>1. /\ DOMAIN candidates' = DOMAIN candidates
      /\ committed_candidates' = committed_candidates
      /\ \A d \in DOMAIN candidates : OfferOf(d)' = OfferOf(d)
      /\ \A d \in DOMAIN candidates : d # c => candidates'[d] = candidates[d]
      /\ candidates[c].validation_status = "Pending"
      /\ candidates'[c].validation_status = IF passed THEN "Accepted" ELSE "Rejected"
  BY DEF TypeOK, Validate, Unvalidated, OfferOf, PreparedDelta
<1>2. /\ transaction_ids' = transaction_ids /\ deltas' = deltas
      /\ rolled_back_deltas' = rolled_back_deltas
  BY DEF Validate, kernel
<1>3. History' = History /\ Undone' = Undone
  BY <1>2 DEF History, Undone
<1>4. CASE passed \/ ~Open(c)
  <2>1. \A d \in DOMAIN candidates : Open(d)' <=> Open(d)
    BY <1>1, <1>4 DEF Open
  <2>2. Offers' = Offers
    BY <1>1, <2>1, OffersStay
  <2> QED
    BY <1>2, <1>3, <2>2 DEF Ledger!vars, Offers, Undone
<1>5. CASE ~passed /\ Open(c)
  <2>1. \A d \in DOMAIN candidates : Open(d)' <=> Open(d) /\ d # c
    BY <1>1, <1>5 DEF Open
  <2>2. OfferOf(c) \in Offers /\ Offers' = Offers \ {OfferOf(c)}
    BY <1>1, <1>5, <2>1, OfferTaken
  <2> QED
    BY <1>2, <1>3, <2>2 DEF Ledger!Withdraw, Offers, Undone
<1> QED
  BY <1>4, <1>5

LEMMA CommitTakesUp ==
  ASSUME TypeOK, TraceMatchesDeltas, DeltaChain, EffectInv,
         NEW c \in DOMAIN candidates, Commit(c)
  PROVE  OfferOf(c) \in Offers /\ Ledger!TakeUp(OfferOf(c))
<1>1. /\ candidates' = candidates /\ committed_candidates' = committed_candidates \cup {c}
      /\ transaction_ids' = transaction_ids /\ rolled_back_deltas' = rolled_back_deltas
      /\ Committable(c)
      /\ Emit(current_state, candidates[c].proposed_state, candidates[c].transaction_id)
  BY DEF Commit
<1>2. Open(c)
  BY <1>1 DEF Open, Committable
<1>3. \A d \in DOMAIN candidates : OfferOf(d)' = OfferOf(d) /\ (Open(d)' <=> Open(d) /\ d # c)
  BY <1>1 DEF OfferOf, Open
<1>4. OfferOf(c) \in Offers /\ Offers' = Offers \ {OfferOf(c)}
  BY <1>1, <1>2, <1>3, OfferTaken
<1>5. /\ candidates[c].proposed_state \in Snapshot /\ current_state \in Snapshot
      /\ candidates[c].transaction_id \in TransactionIds
  BY DEF TypeOK, PreparedDelta
<1>6. History' = Append(History, OfferOf(c).next)
  BY <1>1, <1>5, EmitAppends DEF OfferOf
<1>7. OfferOf(c).base = History[Len(History)]
  BY <1>1, HistoryFacts DEF OfferOf, Committable
<1>8. Undone' = Undone
  BY <1>1 DEF Undone
<1> QED
  BY <1>1, <1>4, <1>6, <1>7, <1>8 DEF Ledger!TakeUp, Ledger!Now, Offers, Undone

LEMMA RollbackUndoes ==
  ASSUME TypeOK, TraceMatchesDeltas, DeltaChain, NEW tx \in TransactionIds,
         NEW i \in DOMAIN deltas, Rollback(tx, i)
  PROVE  i + 1 \in 2 .. Len(History) /\ Ledger!Undo(tx, i + 1)
<1>1. /\ Len(deltas) \in Nat /\ i \in 1 .. Len(deltas) /\ deltas[i] \in StateDelta
      /\ deltas[i].delta_id = i
  BY DEF TypeOK, TraceMatchesDeltas
<1>2. /\ tx \notin transaction_ids /\ transaction_ids' = transaction_ids \cup {tx}
      /\ i \notin rolled_back_deltas /\ rolled_back_deltas' = rolled_back_deltas \cup {i}
      /\ current_state = deltas[i].after_state
      /\ Emit(deltas[i].after_state, deltas[i].before_state, tx)
      /\ candidates' = candidates /\ committed_candidates' = committed_candidates
  BY <1>1 DEF Rollback, FreshId, Reversible
<1>3. /\ Len(History) = Len(deltas) + 1
      /\ History[Len(History)] = current_state
      /\ History[i + 1] = deltas[i].after_state /\ History[i] = deltas[i].before_state
  BY <1>1, HistoryFacts
<1>4. History' = Append(History, deltas[i].before_state)
  BY <1>1, <1>2, EmitAppends DEF StateDelta
<1>5. rolled_back_deltas \subseteq Nat
  BY DEF TypeOK
<1>6. i + 1 \notin Undone /\ Undone' = Undone \cup {i + 1}
  BY <1>1, <1>2, <1>5 DEF Undone
<1>7. Offers' = Offers
  BY <1>2, OffersStay DEF OfferOf, Open
<1>8. i + 1 \in 2 .. Len(History) /\ (i + 1) - 1 = i
  BY <1>1, <1>3
<1> QED
  BY <1>2, <1>3, <1>4, <1>6, <1>7, <1>8 DEF Ledger!Undo, Ledger!Now, Offers, Undone

LEMMA StepIsLedgerStep ==
  IInv /\ EffectInv /\ [Next]_vars => [Ledger!Next]_(Ledger!vars)
<1> SUFFICES ASSUME IInv, EffectInv, [Next]_vars
             PROVE  [Ledger!Next]_(Ledger!vars)
  OBVIOUS
<1>0. TypeOK /\ TraceMatchesDeltas /\ DeltaChain
  BY DEF IInv
<1>1. ASSUME NEW tx \in TransactionIds, NEW t \in Transition,
             NEW s \in Snapshot, Prepare(tx, t, s)
      PROVE  Ledger!Next
  BY <1>0, <1>1, PrepareOffers DEF Ledger!Next
<1>2. ASSUME NEW c \in DOMAIN candidates, NEW passed \in BOOLEAN, Validate(c, passed)
      PROVE  UNCHANGED Ledger!vars \/ Ledger!Next
  BY <1>0, <1>2, ValidateWithdraws DEF Ledger!Next, Offers
<1>3. ASSUME NEW c \in DOMAIN candidates, Commit(c)
      PROVE  Ledger!Next
  BY <1>0, <1>3, CommitTakesUp DEF Ledger!Next, Offers
<1>4. ASSUME NEW tx \in TransactionIds, NEW i \in DOMAIN deltas, Rollback(tx, i)
      PROVE  Ledger!Next
  BY <1>0, <1>4, RollbackUndoes DEF Ledger!Next
<1>5. CASE UNCHANGED vars
  BY <1>5 DEF vars, Ledger!vars, History, OfferOf, Open
<1> QED
  BY <1>1, <1>2, <1>3, <1>4, <1>5 DEF Next

LEMMA InitIsLedgerInit == Init => Ledger!Init
<1> SUFFICES ASSUME Init PROVE Ledger!Init
  OBVIOUS
<1>1. History = <<InitialState>>
  BY DEF Init, History
<1>2. Offers = {} /\ Undone = {}
  BY DEF Init, Offers, Undone
<1> QED
  BY <1>1, <1>2 DEF Init, Ledger!Init, Offers, Undone

\* Theorem: whatever calls interleave, the kernel is one append-only ledger.
\* An offer is taken up at most once and only on the very snapshot it was
\* prepared against, and each delta is undone at most once, while its result
\* is current.
THEOREM KernelIsLedger == Spec => ImplementsLedger
  BY InitIsLedgerInit, StepIsLedgerStep, KernelInvariant, InitEffectInv, NextEffectInv, PTL
     DEF Spec, ImplementsLedger, Ledger!Spec
=============================================================================
