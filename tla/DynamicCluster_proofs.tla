------------------------ MODULE DynamicCluster_proofs ------------------------
(***************************************************************************)
(* Proofs about DynamicCluster, for every number of seeds, every bundle,   *)
(* every set of limits and every scenario.                                 *)
(*                                                                         *)
(* The properties speak of the records; the run judges by other            *)
(* structures, which earlier proposals filled.  Bookkeeping ties them to   *)
(* the records: what was accepted is among the seen keys, its writes are   *)
(* among the declared ones, and no epoch has more accepted records than    *)
(* proposals gone through.                                                 *)
(***************************************************************************)
EXTENDS DynamicCluster, FiniteSetTheorems, TLAPS

Entry == [proposal : Proposals, verdict : Verdicts, unit : UnitIds \cup {NoUnit}]

AcceptedIn(e) == {i \in AcceptedAt : records[i].proposal.epoch = e}
HandledIn(e)  == {i \in DOMAIN handled : handled[i].epoch = e}

Shape ==
    /\ handled \in Seq(Proposals) /\ records \in Seq(Entry)
    /\ revisions \in Seq(UnitIds)
    /\ accepted <= Len(handled) /\ Len(handled) <= MaxProposals
    /\ IsFiniteSet(DOMAIN life) /\ IsFiniteSet(branches)

Bookkeeping ==
    /\ \A i \in AcceptedAt :
          LET p == records[i].proposal IN
          /\ Key(p) \in DOMAIN seen
          /\ \A path \in p.writes : <<p.step, path>> \in declared
          /\ p.depth <= limits.depth
    /\ \A e : /\ Cardinality(AcceptedIn(e)) <= Cardinality(HandledIn(e))
              /\ Cardinality(AcceptedIn(e)) <= limits.perEpoch

Counters ==
    /\ Cardinality(DOMAIN life) <= MaxOfTwo(NumSeeds, limits.total)
    /\ accepted <= limits.active
    /\ 1 + Cardinality(branches) <= MaxOfTwo(1, limits.branches)

IInv == TypeOK /\ Shape /\ Bookkeeping /\ Counters /\ UnitsAreIndependent

-----------------------------------------------------------------------------
(* What a step does to the fields the invariant speaks of.                   *)

\* Nothing is judged; the units may move, and in the first step are made.
Idle ==
    /\ UNCHANGED <<limits, handled, records, accepted, seen, declared, branches,
                   revisions>>
    /\ \/ DOMAIN life' = DOMAIN life
       \/ phase = "config" /\ phase' # "config" /\ DOMAIN life' = Seeds
    /\ phase' = "config" => phase = "config"
    /\ diagnostics \subseteq diagnostics'

\* p is judged, and turned down.
TurnedDown(p) ==
    /\ phase = "proposals"
    /\ handled' = Append(handled, p) /\ Len(handled) < MaxProposals
    /\ \E v \in Verdicts \ {"accepted"}, u \in UnitIds \cup {NoUnit} :
          /\ Record(p, v, u)
          /\ v = "DRU-PRP-006" => Key(p) \in DOMAIN seen /\ u = seen[Key(p)]
    /\ diagnostics \subseteq diagnostics'
    /\ UNCHANGED <<limits, phase, accepted, seen, declared, branches, revisions, life>>

LEMMA KindsOfSteps ==
  ASSUME TypeOK, [Next]_vars
  PROVE  \/ Idle
         \/ \E p \in Proposals : TurnedDown(p) \/ Accept(p) \/ Drop(p)
<1>1. CASE UNCHANGED vars
  BY <1>1 DEF vars, Idle
<1>2. CASE RefuseConfig \/ NoMoreProposals \/ Report \/ Publish \/ Validate
  BY <1>2 DEF RefuseConfig, NoMoreProposals, Report, Publish, Validate, ProceedIf, Idle
<1>3. CASE SeedUnits
  <2>1. DOMAIN life' = Seeds
    BY <1>3 DEF SeedUnits
  <2> QED
    BY <1>3, <2>1 DEF SeedUnits, ProceedIf, Idle
<1>4. ASSUME NEW s \in Scenarios, ApplyScenario(s)
      PROVE  Idle
  <2>1. DOMAIN life' = DOMAIN life
    BY <1>4 DEF ApplyScenario
  <2> QED
    BY <1>4, <2>1 DEF ApplyScenario, Idle
<1>5. CASE Schedule
  <2>1. DOMAIN life' = DOMAIN life
    BY <1>5 DEF Schedule
  <2> QED
    BY <1>5, <2>1 DEF Schedule, Idle
<1>6. ASSUME NEW p \in Proposals, Duplicate(p)
      PROVE  TurnedDown(p)
  <2>1. /\ seen[Key(p)] \in UnitIds /\ "DRU-PRP-006" \in Verdicts \ {"accepted"}
        /\ Key(p) \in DOMAIN seen
    BY <1>6 DEF Duplicate, IsDuplicate, TypeOK, Verdicts
  <2> QED
    BY <1>6, <2>1 DEF Duplicate, Take, TurnedDown
<1>7. ASSUME NEW p \in Proposals, Refuse(p)
      PROVE  TurnedDown(p)
  <2>1. Refusal(p) \in Verdicts \ {"accepted", "DRU-PRP-006", "DRU-BRN-001"}
    BY <1>7, ProposalsAreProposals DEF Refuse, Refusal, Objection, Verdicts, Flaws
  <2> QED
    BY <1>7, <2>1 DEF Refuse, Take, TurnedDown
<1> QED
  BY <1>1, <1>2, <1>3, <1>4, <1>5, <1>6, <1>7 DEF Next

\* An admitted proposal passes every check.
LEMMA AdmittedIsFit ==
  ASSUME IInv, NEW p \in Proposals, Admit(p)
  PROVE  /\ handled' = Append(handled, p) /\ Len(handled) < MaxProposals
         /\ p.depth <= limits.depth
         /\ 1 + Cardinality(HandledIn(p.epoch)) <= limits.perEpoch
         /\ Cardinality(DOMAIN life) < limits.total
         /\ accepted < limits.active
         /\ Key(p) \notin DOMAIN seen
         /\ \A path \in p.writes : <<p.step, path>> \notin declared
<1>1. Objection(p) = "none" /\ ~Conflicts(p)
  BY DEF Admit, Refusal
<1>2. ~(p.depth > limits.depth) /\ ~BudgetSpent(p)
  BY <1>1 DEF Objection
<1>3. Key(p) \notin DOMAIN seen
  BY <1>1 DEF Admit, IsDuplicate
<1>4. /\ limits.depth \in Nat /\ limits.perEpoch \in Nat /\ limits.total \in Nat
      /\ limits.active \in Nat /\ p.depth \in Nat /\ accepted \in Nat
  BY LimitsAreNatural, ProposalsAreProposals DEF IInv, TypeOK
<1>5. IsFiniteSet(DOMAIN handled)
  BY FS_Interval DEF IInv, Shape
<1>6. Cardinality(HandledIn(p.epoch)) \in Nat /\ Cardinality(DOMAIN life) \in Nat
  <2>1. IsFiniteSet(HandledIn(p.epoch))
    BY <1>5, FS_Subset DEF HandledIn
  <2> QED
    BY <2>1, FS_CardinalityType DEF IInv, Shape
<1>7. EpochCount(p) = 1 + Cardinality(HandledIn(p.epoch))
  BY DEF EpochCount, HandledIn
<1>8. handled' = Append(handled, p) /\ Len(handled) < MaxProposals
  BY DEF Admit, Take
<1>9. \A path \in p.writes : <<p.step, path>> \notin declared
  BY <1>1 DEF Conflicts
<1> QED
  BY <1>2, <1>3, <1>4, <1>6, <1>7, <1>8, <1>9 DEF BudgetSpent

-----------------------------------------------------------------------------
(* The counts of the invariant are counts of finite sets.                    *)

LEMMA Counts ==
  ASSUME IInv, NEW e
  PROVE  /\ IsFiniteSet(AcceptedIn(e)) /\ Cardinality(AcceptedIn(e)) \in Nat
         /\ IsFiniteSet(HandledIn(e)) /\ Cardinality(HandledIn(e)) \in Nat
         /\ Cardinality(DOMAIN life) \in Nat /\ Cardinality(branches) \in Nat
<1>1. IsFiniteSet(DOMAIN records) /\ IsFiniteSet(DOMAIN handled)
  BY FS_Interval DEF IInv, Shape
<1>2. IsFiniteSet(AcceptedIn(e)) /\ IsFiniteSet(HandledIn(e))
  BY <1>1, FS_Subset DEF AcceptedIn, AcceptedAt, HandledIn
<1> QED
  BY <1>2, FS_CardinalityType DEF IInv, Shape

LEMMA OneMoreHandled ==
  ASSUME IInv, NEW p \in Proposals, handled' = Append(handled, p), NEW e
  PROVE  /\ handled' \in Seq(Proposals) /\ Len(handled') = Len(handled) + 1
         /\ Cardinality(HandledIn(e)') =
              Cardinality(HandledIn(e)) + (IF p.epoch = e THEN 1 ELSE 0)
<1>1. /\ handled' \in Seq(Proposals) /\ Len(handled') = Len(handled) + 1
      /\ DOMAIN handled = 1..Len(handled) /\ DOMAIN handled' = 1..(Len(handled) + 1)
      /\ \A i \in DOMAIN handled : handled'[i] = handled[i]
      /\ handled'[Len(handled) + 1] = p /\ Len(handled) \in Nat
  BY DEF IInv, Shape
<1>2. HandledIn(e)' = IF p.epoch = e THEN HandledIn(e) \cup {Len(handled) + 1}
                      ELSE HandledIn(e)
  BY <1>1 DEF HandledIn
<1>3. Len(handled) + 1 \notin HandledIn(e)
  BY <1>1 DEF HandledIn
<1>4. Cardinality(HandledIn(e) \cup {Len(handled) + 1}) = Cardinality(HandledIn(e)) + 1
  BY <1>3, Counts, FS_AddElement
<1> QED
  BY <1>1, <1>2, <1>4, Counts

\* A record more: the accepted ones and their proposals stay, and the new one
\* is among them if it is an accepted one.
LEMMA OneMoreRecord ==
  ASSUME IInv, NEW r \in Entry, records' = Append(records, r)
  PROVE  /\ records' \in Seq(Entry)
         /\ records'[Len(records) + 1] = r /\ Len(records) + 1 \notin AcceptedAt
         /\ \A i \in AcceptedAt : records'[i] = records[i]
         /\ AcceptedAt' = IF r.verdict = "accepted"
                          THEN AcceptedAt \cup {Len(records) + 1} ELSE AcceptedAt
<1>1. /\ records' \in Seq(Entry) /\ Len(records) \in Nat
      /\ DOMAIN records = 1..Len(records) /\ DOMAIN records' = 1..(Len(records) + 1)
      /\ \A i \in DOMAIN records : records'[i] = records[i]
      /\ records'[Len(records) + 1] = r
  BY DEF IInv, Shape
<1> QED
  BY <1>1 DEF AcceptedAt

-----------------------------------------------------------------------------
LEMMA SeedsAreCounted == IsFiniteSet(Seeds) /\ Cardinality(Seeds) <= NumSeeds
<1> DEFINE f == [i \in 1..NumSeeds |-> Seed(i)]
<1>1. f \in Surjection(1..NumSeeds, Seeds)
  BY DEF Surjection, Seeds
<1>2. IsFiniteSet(1..NumSeeds) /\ Cardinality(1..NumSeeds) = NumSeeds
  BY CountsAreNatural, FS_Interval
<1> QED
  BY <1>1, <1>2, FS_Surjection

LEMMA LimitsAreNumbers ==
  ASSUME TypeOK
  PROVE  /\ limits.total \in Nat /\ limits.active \in Nat /\ limits.perEpoch \in Nat
         /\ limits.branches \in Nat /\ limits.depth \in Nat /\ accepted \in Nat
         /\ NumSeeds \in Nat /\ MaxProposals \in Nat
  BY LimitsAreNatural, CountsAreNatural DEF TypeOK

\* The unit an admitted proposal becomes.
LEMMA NewUnit ==
  ASSUME IInv, NEW p \in Proposals, Admit(p)
  PROVE  /\ UnitId(p, accepted + 1) \in UnitIds /\ accepted + 1 \in 0..MaxProposals
         /\ accepted' = accepted + 1
         /\ DOMAIN seen' = DOMAIN seen \cup {Key(p)}
         /\ \A k \in DOMAIN seen' : seen'[k] \in UnitIds
         /\ declared' = declared \cup {<<p.step, path>> : path \in p.writes}
<1>1. accepted + 1 \in 1..MaxProposals
  BY AdmittedIsFit, LimitsAreNumbers DEF IInv, Shape
<1>2. UnitId(p, accepted + 1) \in UnitIds
  BY <1>1 DEF UnitIds
<1>3. seen' = [k \in DOMAIN seen \cup {Key(p)} |->
                 IF k = Key(p) THEN UnitId(p, accepted + 1) ELSE seen[k]]
  BY DEF Admit, Inserted
<1>4. \A k \in DOMAIN seen : seen[k] \in UnitIds
  BY DEF IInv, TypeOK
<1> QED
  BY <1>1, <1>2, <1>3, <1>4 DEF Admit

-----------------------------------------------------------------------------
(* Types.                                                                    *)

LEMMA NextShape ==
  ASSUME IInv, [Next]_vars
  PROVE  Shape'
<1>1. CASE Idle
  BY <1>1, SeedsAreCounted DEF Idle, IInv, Shape
<1>2. ASSUME NEW p \in Proposals, TurnedDown(p)
      PROVE  Shape'
  <2>1. PICK r \in Entry : records' = Append(records, r)
    BY <1>2 DEF TurnedDown, Record, Entry
  <2>2. handled' \in Seq(Proposals) /\ Len(handled') = Len(handled) + 1
        /\ Len(handled) < MaxProposals /\ records' \in Seq(Entry)
    BY <1>2, <2>1, OneMoreHandled, OneMoreRecord DEF TurnedDown
  <2>3. UNCHANGED <<accepted, branches, revisions, life>>
    BY <1>2 DEF TurnedDown
  <2>4. IsFiniteSet(DOMAIN life') /\ IsFiniteSet(branches') /\ revisions' \in Seq(UnitIds)
    BY <2>3 DEF IInv, Shape
  <2> QED
    BY <2>2, <2>3, <2>4, LimitsAreNumbers DEF IInv, Shape
<1>3. ASSUME NEW p \in Proposals, Accept(p)
      PROVE  Shape'
  <2> DEFINE id == UnitId(p, accepted + 1)
             r == [proposal |-> p, verdict |-> "accepted", unit |-> id]
  <2>1. Admit(p) /\ records' = Append(records, r) /\ branches' = branches \cup {id}
        /\ revisions' = Append(revisions, id) /\ DOMAIN life' = DOMAIN life \cup {id}
    BY <1>3 DEF Accept, Record, Inserted
  <2>2. id \in UnitIds /\ accepted' = accepted + 1
    BY <2>1, NewUnit
  <2>3. r \in Entry
    BY <2>2 DEF Entry, Verdicts
  <2>4. handled' \in Seq(Proposals) /\ Len(handled') = Len(handled) + 1
        /\ Len(handled) < MaxProposals /\ records' \in Seq(Entry)
    BY <2>1, <2>3, AdmittedIsFit, OneMoreHandled, OneMoreRecord
  <2>5. IsFiniteSet(DOMAIN life \cup {id}) /\ IsFiniteSet(branches \cup {id})
    BY FS_AddElement DEF IInv, Shape
  <2>6. revisions' \in Seq(UnitIds)
    BY <2>1, <2>2 DEF IInv, Shape
  <2> QED
    BY <2>1, <2>2, <2>4, <2>5, <2>6, LimitsAreNumbers DEF IInv, Shape
<1>4. ASSUME NEW p \in Proposals, Drop(p)
      PROVE  Shape'
  <2>1. Admit(p) /\ UNCHANGED <<records, life, branches, revisions>>
    BY <1>4 DEF Drop
  <2>2. handled' \in Seq(Proposals) /\ Len(handled') = Len(handled) + 1
        /\ Len(handled) < MaxProposals /\ accepted' = accepted + 1
    BY <2>1, AdmittedIsFit, OneMoreHandled, NewUnit
  <2> QED
    BY <2>1, <2>2, LimitsAreNumbers DEF IInv, Shape
<1> QED
  BY <1>1, <1>2, <1>3, <1>4, KindsOfSteps DEF IInv

LEMMA NextTypeOK ==
  ASSUME IInv, [Next]_vars
  PROVE  TypeOK'
<1> USE DEF IInv
<1>1. CASE UNCHANGED vars
  BY <1>1 DEF vars, TypeOK
<1>2. CASE RefuseConfig
  BY <1>2 DEF RefuseConfig, TypeOK
<1>3. CASE NoMoreProposals
  BY <1>3 DEF NoMoreProposals, TypeOK
<1>4. CASE Report
  BY <1>4 DEF Report, TypeOK
<1>5. CASE Publish
  BY <1>5 DEF Publish, TypeOK
<1>6. CASE Validate
  BY <1>6 DEF Validate, ProceedIf, TypeOK
<1>7. CASE SeedUnits
  <2>1. events' \in Nat
    BY <1>7, CountsAreNatural DEF SeedUnits, Registration
  <2>2. DOMAIN life' \subseteq Seeds \cup UnitIds
    BY <1>7 DEF SeedUnits
  <2> QED
    BY <1>7, <2>1, <2>2 DEF SeedUnits, ProceedIf, TypeOK
<1>8. ASSUME NEW s \in Scenarios, ApplyScenario(s)
      PROVE  TypeOK'
  <2>1. Len(Script(s)) \in Nat
    BY DEF Script
  <2>2. DOMAIN life' = DOMAIN life /\ events' \in Nat /\ phase' \in {"schedule", "error"}
    BY <1>8, <2>1 DEF ApplyScenario, TypeOK
  <2> QED
    BY <1>8, <2>2 DEF ApplyScenario, TypeOK
<1>9. CASE Schedule
  <2>1. Cardinality(ReadyUnits) \in Nat
    BY FS_Subset, FS_CardinalityType DEF ReadyUnits, Shape
  <2>2. DOMAIN life' = DOMAIN life /\ events' \in Nat /\ phase' \in {"report", "error"}
    BY <1>9, <2>1 DEF Schedule, Execution, TypeOK
  <2> QED
    BY <1>9, <2>2 DEF Schedule, TypeOK
<1>10. ASSUME NEW p \in Proposals, Duplicate(p) \/ Refuse(p)
       PROVE  TypeOK'
  <2>1. UNCHANGED <<limits, scenario, phase, accepted, seen, life, events, branches,
                    revisions, report, artifacts>>
        /\ terminated' \in BOOLEAN
    BY <1>10 DEF Duplicate, Refuse, TypeOK
  <2>2. (\A i \in DOMAIN handled' : handled'[i] \in Proposals)
        /\ (\A i \in DOMAIN records' : records'[i] \in Entry)
    BY NextShape DEF Shape
  <2> QED
    BY <2>1, <2>2 DEF TypeOK, Entry
<1>11. ASSUME NEW p \in Proposals, Accept(p) \/ Drop(p)
       PROVE  TypeOK'
  <2>1. UNCHANGED <<limits, scenario, report, artifacts>>
    BY <1>11 DEF Accept, Drop
  <2>7. terminated' \in BOOLEAN /\ phase' \in {phase, "proposals", "error"}
    BY <1>11 DEF Accept, Drop, ProceedIf, TypeOK
  <2>8. events' \in Nat
    <3>1. Len(Registration) \in Nat
      BY DEF Registration
    <3> QED
      BY <1>11, <3>1 DEF Accept, Drop, TypeOK
  <2>2. Admit(p) /\ UnitId(p, accepted + 1) \in UnitIds
    BY <1>11, NewUnit DEF Accept, Drop
  <2>3. DOMAIN life' \subseteq DOMAIN life \cup {UnitId(p, accepted + 1)}
        /\ branches' \subseteq branches \cup {UnitId(p, accepted + 1)}
    BY <1>11 DEF Accept, Drop, Inserted
  <2>4. DOMAIN life' \subseteq Seeds \cup UnitIds /\ branches' \subseteq UnitIds
    BY <2>2, <2>3 DEF TypeOK
  <2>5. accepted' \in 0..MaxProposals /\ \A k \in DOMAIN seen' : seen'[k] \in UnitIds
    BY <2>2, NewUnit
  <2>6. (\A i \in DOMAIN handled' : handled'[i] \in Proposals)
        /\ (\A i \in DOMAIN records' : records'[i] \in Entry)
        /\ \A i \in DOMAIN revisions' : revisions'[i] \in UnitIds
    BY NextShape DEF Shape
  <2> QED
    BY <2>1, <2>4, <2>5, <2>6, <2>7, <2>8 DEF TypeOK, Entry
<1> QED
  BY <1>1, <1>2, <1>3, <1>4, <1>5, <1>6, <1>7, <1>8, <1>9, <1>10, <1>11 DEF Next

-----------------------------------------------------------------------------
(* Bookkeeping, counters and independence, one lemma per kind of step.       *)

Judged == Bookkeeping /\ Counters /\ UnitsAreIndependent

LEMMA IdleKeeps ==
  ASSUME IInv, Idle
  PROVE  Judged'
<1>1. /\ AcceptedAt' = AcceptedAt
      /\ \A e : AcceptedIn(e)' = AcceptedIn(e) /\ HandledIn(e)' = HandledIn(e)
  BY DEF Idle, AcceptedAt, AcceptedIn, HandledIn
<1>2. Bookkeeping' /\ UnitsAreIndependent'
  BY <1>1 DEF Idle, IInv, Bookkeeping, UnitsAreIndependent
<1>3. Cardinality(Seeds) \in Nat
  BY SeedsAreCounted, FS_CardinalityType
<1>4. Cardinality(DOMAIN life') <= MaxOfTwo(NumSeeds, limits.total)
  <2>1. CASE DOMAIN life' = DOMAIN life
    BY <2>1 DEF IInv, Counters
  <2>2. CASE DOMAIN life' = Seeds
    BY <2>2, <1>3, SeedsAreCounted, LimitsAreNumbers DEF MaxOfTwo, IInv
  <2> QED
    BY <2>1, <2>2 DEF Idle
<1>5. Counters'
  BY <1>4 DEF Idle, IInv, Counters
<1> QED
  BY <1>2, <1>5 DEF Judged

LEMMA TurnedDownKeeps ==
  ASSUME IInv, NEW p \in Proposals, TurnedDown(p)
  PROVE  Judged'
<1>1. PICK r \in Entry : records' = Append(records, r) /\ r.verdict # "accepted"
  BY DEF TurnedDown, Record, Entry
<1>2. AcceptedAt' = AcceptedAt /\ \A i \in AcceptedAt : records'[i] = records[i]
  BY <1>1, OneMoreRecord
<1>3. \A e : AcceptedIn(e)' = AcceptedIn(e)
  BY <1>2 DEF AcceptedIn
<1>4. \A e : Cardinality(HandledIn(e)) <= Cardinality(HandledIn(e)')
  BY OneMoreHandled, Counts DEF TurnedDown
<1>5. \A e : /\ Cardinality(AcceptedIn(e)') <= Cardinality(HandledIn(e)')
             /\ Cardinality(AcceptedIn(e)') <= limits'.perEpoch
  <2> TAKE e
  <2>1. /\ Cardinality(AcceptedIn(e)) \in Nat /\ Cardinality(HandledIn(e)) \in Nat
        /\ Cardinality(HandledIn(e)') \in Nat
    BY Counts, OneMoreHandled DEF TurnedDown
  <2>2. /\ Cardinality(AcceptedIn(e)) <= Cardinality(HandledIn(e))
        /\ Cardinality(AcceptedIn(e)) <= limits.perEpoch
    BY DEF IInv, Bookkeeping
  <2> QED
    BY <2>1, <2>2, <1>3, <1>4 DEF TurnedDown
<1>6. Bookkeeping'
  <2>1. \A i \in AcceptedAt' :
          /\ Key(records'[i].proposal) \in DOMAIN seen'
          /\ \A path \in records'[i].proposal.writes :
                <<records'[i].proposal.step, path>> \in declared'
          /\ records'[i].proposal.depth <= limits'.depth
    BY <1>2 DEF IInv, Bookkeeping, TurnedDown
  <2> QED
    BY <2>1, <1>5 DEF Bookkeeping
<1>7. UnitsAreIndependent'
  BY <1>2 DEF IInv, UnitsAreIndependent
<1>8. Counters'
  BY DEF TurnedDown, IInv, Counters
<1> QED
  BY <1>6, <1>7, <1>8 DEF Judged

\* A dropped proposal is counted, and its key and writes are remembered; the
\* records do not change, so all that can suffer is the count.
LEMMA DropKeeps ==
  ASSUME IInv, NEW p \in Proposals, Drop(p)
  PROVE  Judged'
<1>1. Admit(p) /\ UNCHANGED <<limits, records, life, branches>>
  BY DEF Drop
<1>2. AcceptedAt' = AcceptedAt /\ \A e : AcceptedIn(e)' = AcceptedIn(e)
  BY <1>1 DEF AcceptedAt, AcceptedIn
<1>3. \A e : /\ Cardinality(AcceptedIn(e)') <= Cardinality(HandledIn(e)')
             /\ Cardinality(AcceptedIn(e)') <= limits'.perEpoch
  <2> TAKE e
  <2>1. /\ Cardinality(AcceptedIn(e)) \in Nat /\ Cardinality(HandledIn(e)) \in Nat
        /\ Cardinality(HandledIn(e)) <= Cardinality(HandledIn(e)')
        /\ Cardinality(HandledIn(e)') \in Nat
    BY <1>1, Counts, AdmittedIsFit, OneMoreHandled
  <2>2. /\ Cardinality(AcceptedIn(e)) <= Cardinality(HandledIn(e))
        /\ Cardinality(AcceptedIn(e)) <= limits.perEpoch
    BY DEF IInv, Bookkeeping
  <2> QED
    BY <2>1, <2>2, <1>1, <1>2
<1>4. Bookkeeping'
  <2>1. DOMAIN seen \subseteq DOMAIN seen' /\ declared \subseteq declared'
    BY <1>1, NewUnit
  <2> QED
    BY <2>1, <1>1, <1>2, <1>3 DEF IInv, Bookkeeping
<1>5. UnitsAreIndependent'
  BY <1>1, <1>2 DEF IInv, UnitsAreIndependent
<1>6. Counters'
  <2>1. accepted' = accepted + 1 /\ accepted < limits.active
    BY <1>1, AdmittedIsFit, NewUnit
  <2>2. accepted' <= limits'.active
    BY <2>1, <1>1, LimitsAreNumbers DEF IInv
  <2> QED
    BY <2>2, <1>1 DEF IInv, Counters
<1> QED
  BY <1>4, <1>5, <1>6 DEF Judged

LEMMA AcceptKeeps ==
  ASSUME IInv, NEW p \in Proposals, Accept(p)
  PROVE  Judged'
<1> DEFINE id == UnitId(p, accepted + 1)
           r == [proposal |-> p, verdict |-> "accepted", unit |-> id]
           n == Len(records) + 1
<1>1. /\ Admit(p) /\ HasRoom /\ records' = Append(records, r) /\ UNCHANGED limits
      /\ branches' = branches \cup {id} /\ DOMAIN life' = DOMAIN life \cup {id}
  BY DEF Accept, Record, Inserted
<1>2. r \in Entry /\ accepted' = accepted + 1 /\ declared \subseteq declared'
      /\ (\A path \in p.writes : <<p.step, path>> \in declared')
      /\ DOMAIN seen' = DOMAIN seen \cup {Key(p)}
  <2>1. id \in UnitIds
    BY <1>1, NewUnit
  <2> QED
    BY <1>1, <2>1, NewUnit DEF Entry, Verdicts
<1>3. /\ AcceptedAt' = AcceptedAt \cup {n} /\ n \notin AcceptedAt
      /\ records'[n].proposal = p
      /\ \A i \in AcceptedAt : records'[i] = records[i]
  <2>1. r.verdict = "accepted" /\ r.proposal = p
    OBVIOUS
  <2>2. records'[n] = r /\ n \notin AcceptedAt /\ \A i \in AcceptedAt : records'[i] = records[i]
    BY <1>1, <1>2, OneMoreRecord
  <2>3. AcceptedAt' = IF r.verdict = "accepted" THEN AcceptedAt \cup {n} ELSE AcceptedAt
    BY <1>1, <1>2, OneMoreRecord
  <2> QED
    BY <2>1, <2>2, <2>3
<1>4. \A e : /\ Cardinality(AcceptedIn(e)') <= Cardinality(HandledIn(e)')
             /\ Cardinality(AcceptedIn(e)') <= limits'.perEpoch
  <2> TAKE e
  <2>1. /\ Cardinality(AcceptedIn(e)) \in Nat /\ Cardinality(HandledIn(e)) \in Nat
        /\ IsFiniteSet(AcceptedIn(e)) /\ limits.perEpoch \in Nat
        /\ Cardinality(AcceptedIn(e)) <= Cardinality(HandledIn(e))
        /\ Cardinality(AcceptedIn(e)) <= limits.perEpoch
    BY Counts, LimitsAreNumbers DEF IInv, Bookkeeping
  <2>2. Cardinality(HandledIn(e)') = Cardinality(HandledIn(e)) + (IF p.epoch = e THEN 1 ELSE 0)
    BY <1>1, AdmittedIsFit, OneMoreHandled
  <2>3. CASE p.epoch = e
    <3>1. AcceptedIn(e)' = AcceptedIn(e) \cup {n}
      BY <1>3, <2>3 DEF AcceptedIn
    <3>2. Cardinality(AcceptedIn(e)') = Cardinality(AcceptedIn(e)) + 1
      BY <3>1, <2>1, <1>3, FS_AddElement DEF AcceptedIn
    <3>3. 1 + Cardinality(HandledIn(e)) <= limits.perEpoch
      BY <1>1, <2>3, AdmittedIsFit
    <3> QED
      BY <3>2, <3>3, <2>1, <2>2, <2>3, <1>1
  <2>4. CASE p.epoch # e
    <3>1. AcceptedIn(e)' = AcceptedIn(e)
      BY <1>3, <2>4 DEF AcceptedIn
    <3> QED
      BY <3>1, <2>1, <2>2, <2>4, <1>1
  <2> QED
    BY <2>3, <2>4
<1>5. Bookkeeping'
  <2>1. p.depth <= limits.depth
    BY <1>1, AdmittedIsFit
  <2>2. \A i \in AcceptedAt' :
          /\ Key(records'[i].proposal) \in DOMAIN seen'
          /\ \A path \in records'[i].proposal.writes :
                <<records'[i].proposal.step, path>> \in declared'
          /\ records'[i].proposal.depth <= limits'.depth
    BY <1>1, <1>2, <1>3, <2>1 DEF IInv, Bookkeeping
  <2> QED
    BY <2>2, <1>4 DEF Bookkeeping
<1>6. UnitsAreIndependent'
  <2>1. \A i \in AcceptedAt :
          /\ Key(records[i].proposal) # Key(p)
          /\ records[i].proposal.step = p.step =>
                records[i].proposal.writes \cap p.writes = {}
    BY <1>1, AdmittedIsFit DEF IInv, Bookkeeping
  <2> QED
    BY <2>1, <1>3 DEF IInv, UnitsAreIndependent
<1>7. Counters'
  <2>1. /\ Cardinality(DOMAIN life') <= Cardinality(DOMAIN life) + 1
        /\ Cardinality(branches') <= Cardinality(branches) + 1
        /\ Cardinality(DOMAIN life') \in Nat /\ Cardinality(branches') \in Nat
    <3> DEFINE More(S) == S \cup {id}
    <3>1. ASSUME NEW S, IsFiniteSet(S), Cardinality(S) \in Nat
          PROVE  Cardinality(More(S)) <= Cardinality(S) + 1 /\ Cardinality(More(S)) \in Nat
      <4>1. Cardinality(S \cup {id}) = IF id \in S THEN Cardinality(S) ELSE Cardinality(S) + 1
        BY <3>1, FS_AddElement
      <4> HIDE DEF id
      <4> QED
        BY <3>1, <4>1
    <3>2. branches' = More(branches) /\ DOMAIN life' = More(DOMAIN life)
      BY <1>1
    <3> HIDE DEF More
    <3>3. IsFiniteSet(branches) /\ IsFiniteSet(DOMAIN life)
      BY DEF IInv, Shape
    <3> QED
      BY <3>1, <3>2, <3>3, Counts
  <2>2. /\ Cardinality(DOMAIN life) < limits.total /\ accepted < limits.active
        /\ 1 + Cardinality(branches) < limits.branches
    BY <1>1, AdmittedIsFit DEF HasRoom
  <2>3. Cardinality(DOMAIN life) \in Nat /\ Cardinality(branches) \in Nat
    BY Counts
  <2>4. Cardinality(DOMAIN life') <= limits.total /\ 1 + Cardinality(branches') <= limits.branches
        /\ accepted' <= limits.active
    BY <2>1, <2>2, <2>3, <1>2, LimitsAreNumbers DEF IInv
  <2> QED
    BY <1>1, <2>1, <2>4, LimitsAreNumbers DEF Counters, MaxOfTwo, IInv
<1> QED
  BY <1>5, <1>6, <1>7 DEF Judged

-----------------------------------------------------------------------------
(* Ids, units and drops.                                                     *)

\* The accepted records are numbered; each has its id and its revision.
Numbered ==
    /\ Len(revisions) = Cardinality(AcceptedAt)
    /\ \A i \in AcceptedAt :
          /\ AcceptedIndex(i) \in DOMAIN revisions
          /\ revisions[AcceptedIndex(i)] = records[i].unit
          /\ records[i].unit = UnitId(records[i].proposal, AcceptedIndex(i))

\* The units are those of the revisions, and no id is used up yet.
Owned ==
    /\ Registered = ToSet(revisions) /\ branches = Registered
    /\ Cardinality(Registered) = Len(revisions)
    /\ \A u \in Registered : u[3] <= accepted

\* Nothing was dropped, or there is no room and a diagnostic says so.
Dropping ==
    /\ accepted = Cardinality(AcceptedAt) \/ ~HasRoom
    /\ "DRU-BRN-001" \notin diagnostics =>
          /\ accepted = Cardinality(AcceptedAt)
          /\ Len(records) = Len(handled)
          /\ \A k \in DOMAIN seen : seen[k] \in Registered
          /\ \A i \in DOMAIN records :
                records[i].verdict = "DRU-PRP-006" => records[i].unit \in Registered

Unstarted == phase = "config" => DOMAIN life = {} /\ handled = <<>>

Grounds == Numbered /\ Owned /\ Dropping /\ Unstarted

LEMMA AcceptedCounts ==
  ASSUME IInv
  PROVE  /\ IsFiniteSet(AcceptedAt) /\ Cardinality(AcceptedAt) \in Nat
         /\ Len(records) \in Nat /\ DOMAIN records = 1..Len(records)
         /\ \A i \in AcceptedAt : i \in 1..Len(records)
         /\ Len(revisions) \in Nat /\ DOMAIN revisions = 1..Len(revisions)
         /\ \A u \in ToSet(revisions) : u \in UnitIds
<1>1. IsFiniteSet(DOMAIN records)
  BY FS_Interval DEF IInv, Shape
<1>2. IsFiniteSet(AcceptedAt)
  BY <1>1, FS_Subset DEF AcceptedAt
<1>3. Cardinality(AcceptedAt) \in Nat
  BY <1>2, FS_CardinalityType
<1>4. \A i \in AcceptedAt : i \in DOMAIN records
  BY DEF AcceptedAt
<1>5. Len(records) \in Nat /\ DOMAIN records = 1..Len(records)
      /\ Len(revisions) \in Nat /\ DOMAIN revisions = 1..Len(revisions)
  BY DEF IInv, Shape
<1>6. \A u \in ToSet(revisions) : u \in UnitIds
  BY DEF IInv, Shape, ToSet
<1> QED
  BY <1>2, <1>3, <1>4, <1>5, <1>6

\* The ids of proposals are apart from the seeds.
LEMMA UnitsAreNoSeeds ==
  ASSUME NEW p \in Proposals, NEW n
  PROVE  UnitId(p, n) \notin Seeds /\ UnitId(p, n)[3] = n
<1>1. p.content # "seed"
  BY ProposalsAreProposals
<1>2. UnitId(p, n)[1] = p.content /\ UnitId(p, n)[3] = n
  BY DEF UnitId
<1>3. \A u \in Seeds : u[1] = "seed"
  BY DEF Seeds, Seed
<1> QED
  BY <1>1, <1>2, <1>3

\* While nothing is accepted, the grounds stay.
LEMMA SameGrounds ==
  ASSUME Grounds, UNCHANGED <<limits, accepted, seen, branches, revisions>>,
         Registered' = Registered, AcceptedAt' = AcceptedAt,
         \A i \in AcceptedAt : records'[i] = records[i]
  PROVE  /\ Numbered' /\ Owned'
         /\ accepted' = Cardinality(AcceptedAt') \/ ~HasRoom'
<1>1. \A i : AcceptedIndex(i)' = AcceptedIndex(i)
  BY DEF AcceptedIndex
<1>2. Numbered'
  BY <1>1 DEF Grounds, Numbered
<1>3. Owned'
  BY DEF Grounds, Owned
<1>4. HasRoom' = HasRoom
  BY DEF HasRoom
<1> QED
  BY <1>2, <1>3, <1>4 DEF Grounds, Dropping

LEMMA IdleGrounds ==
  ASSUME IInv, Grounds, Idle
  PROVE  Grounds'
<1>1. UNCHANGED <<limits, accepted, seen, branches, revisions, records, handled>>
      /\ AcceptedAt' = AcceptedAt
  BY DEF Idle, AcceptedAt
<1>2. Registered' = Registered
  <2>1. CASE DOMAIN life' = DOMAIN life
    BY <2>1 DEF Registered
  <2>2. CASE phase = "config" /\ DOMAIN life' = Seeds
    BY <2>2 DEF Registered, Grounds, Unstarted
  <2> QED
    BY <2>1, <2>2 DEF Idle
<1>3. Numbered' /\ Owned' /\ (accepted' = Cardinality(AcceptedAt') \/ ~HasRoom')
  BY <1>1, <1>2, SameGrounds
<1>4. Dropping'
  BY <1>1, <1>2, <1>3 DEF Grounds, Dropping, Idle
<1>5. Unstarted'
  BY <1>1 DEF Idle, Grounds, Unstarted
<1> QED
  BY <1>3, <1>4, <1>5 DEF Grounds

LEMMA TurnedDownGrounds ==
  ASSUME IInv, Grounds, NEW p \in Proposals, TurnedDown(p)
  PROVE  Grounds'
<1>1. PICK r \in Entry :
        /\ records' = Append(records, r) /\ r.verdict # "accepted"
        /\ r.verdict = "DRU-PRP-006" => Key(p) \in DOMAIN seen /\ r.unit = seen[Key(p)]
  BY DEF TurnedDown, Record, Entry
<1>2. /\ UNCHANGED <<limits, phase, accepted, seen, branches, revisions, life>>
      /\ Registered' = Registered
      /\ diagnostics \subseteq diagnostics'
  BY DEF TurnedDown, Registered
<1>3. AcceptedAt' = AcceptedAt /\ \A i \in AcceptedAt : records'[i] = records[i]
  BY <1>1, OneMoreRecord
<1>4. Numbered' /\ Owned' /\ (accepted' = Cardinality(AcceptedAt') \/ ~HasRoom')
  BY <1>2, <1>3, SameGrounds
<1>5. /\ Len(records) \in Nat /\ Len(records') = Len(records) + 1
      /\ DOMAIN records = 1..Len(records) /\ DOMAIN records' = 1..(Len(records) + 1)
      /\ \A i \in DOMAIN records : records'[i] = records[i]
      /\ records'[Len(records) + 1] = r
  BY <1>1 DEF IInv, Shape
<1>6. Len(handled') = Len(handled) + 1
  BY OneMoreHandled DEF TurnedDown
<1>7. ASSUME "DRU-BRN-001" \notin diagnostics'
      PROVE  /\ accepted' = Cardinality(AcceptedAt')
             /\ Len(records') = Len(handled')
             /\ \A k \in DOMAIN seen' : seen'[k] \in Registered'
             /\ \A i \in DOMAIN records' :
                   records'[i].verdict = "DRU-PRP-006" => records'[i].unit \in Registered'
  <2>1. /\ accepted = Cardinality(AcceptedAt) /\ Len(records) = Len(handled)
        /\ \A k \in DOMAIN seen : seen[k] \in Registered
        /\ \A i \in DOMAIN records :
              records[i].verdict = "DRU-PRP-006" => records[i].unit \in Registered
    BY <1>2, <1>7 DEF Grounds, Dropping
  <2>2. \A i \in DOMAIN records' : i \in DOMAIN records \/ i = Len(records) + 1
    BY <1>5
  <2>3. r.verdict = "DRU-PRP-006" => r.unit \in Registered
    BY <1>1, <2>1
  <2> QED
    BY <1>2, <1>3, <1>5, <1>6, <2>1, <2>2, <2>3
<1>8. Dropping'
  BY <1>4, <1>7 DEF Dropping
<1>9. Unstarted'
  BY <1>2 DEF Unstarted, TurnedDown
<1> QED
  BY <1>4, <1>8, <1>9 DEF Grounds

LEMMA DropGrounds ==
  ASSUME IInv, Grounds, NEW p \in Proposals, Drop(p)
  PROVE  Grounds'
<1>1. /\ Admit(p) /\ ~HasRoom /\ "DRU-BRN-001" \in diagnostics'
      /\ UNCHANGED <<limits, phase, records, life, branches, revisions>>
      /\ AcceptedAt' = AcceptedAt /\ Registered' = Registered
  BY DEF Drop, AcceptedAt, Registered
<1>2. phase # "config" /\ accepted' = accepted + 1 /\ accepted \in Nat
  BY <1>1, NewUnit, LimitsAreNumbers DEF Admit, Take, IInv
<1>3. \A i : AcceptedIndex(i)' = AcceptedIndex(i)
  BY <1>1 DEF AcceptedIndex
<1>4. Numbered'
  BY <1>1, <1>3 DEF Grounds, Numbered
<1>5. \A u \in Registered : u[3] \in Nat
  <2>1. \A u \in UnitIds : u[3] \in Nat
    BY CountsAreNatural DEF UnitIds, UnitId
  <2> QED
    BY <2>1, AcceptedCounts DEF Grounds, Owned
<1>6. Owned'
  BY <1>1, <1>2, <1>5 DEF Grounds, Owned
<1>7. HasRoom' = HasRoom
  BY <1>1 DEF HasRoom
<1>8. Dropping' /\ Unstarted'
  BY <1>1, <1>2, <1>7 DEF Dropping, Unstarted
<1> QED
  BY <1>4, <1>6, <1>8 DEF Grounds

\* The new record is the last of the accepted ones.
LEMMA LastIndex ==
  ASSUME IInv, NEW n, n = Len(records) + 1, AcceptedAt' = AcceptedAt \cup {n}
  PROVE  /\ Cardinality(AcceptedAt') = Cardinality(AcceptedAt) + 1
         /\ AcceptedIndex(n)' = Cardinality(AcceptedAt) + 1
         /\ \A i \in AcceptedAt : AcceptedIndex(i)' = AcceptedIndex(i)
<1>1. /\ Len(records) \in Nat /\ n \notin AcceptedAt /\ n \in Nat
      /\ \A i \in AcceptedAt : i \in Nat /\ i < n
      /\ IsFiniteSet(AcceptedAt)
  BY AcceptedCounts
<1>2. Cardinality(AcceptedAt \cup {n}) = Cardinality(AcceptedAt) + 1
  BY <1>1, FS_AddElement
<1>3. {j \in AcceptedAt' : j <= n} = AcceptedAt \cup {n}
  BY <1>1
<1>4. ASSUME NEW i \in AcceptedAt
      PROVE  {j \in AcceptedAt' : j <= i} = {j \in AcceptedAt : j <= i}
  BY <1>1
<1> QED
  BY <1>2, <1>3, <1>4 DEF AcceptedIndex

LEMMA AcceptGrounds ==
  ASSUME IInv, Grounds, NEW p \in Proposals, Accept(p)
  PROVE  Grounds'
<1> DEFINE id == UnitId(p, accepted + 1)
           r == [proposal |-> p, verdict |-> "accepted", unit |-> id]
           c == Cardinality(AcceptedAt)
<1>0. PICK n : n = Len(records) + 1
  OBVIOUS
<1>1. /\ Admit(p) /\ HasRoom /\ records' = Append(records, r)
      /\ revisions' = Append(revisions, id) /\ branches' = branches \cup {id}
      /\ DOMAIN life' = DOMAIN life \cup {id} /\ UNCHANGED <<limits, diagnostics>>
  BY DEF Accept, Record, Inserted
<1>2. id \in UnitIds /\ accepted' = accepted + 1 /\ accepted \in Nat
      /\ accepted = c /\ Len(revisions) = c /\ c \in Nat
  BY <1>1, NewUnit, LimitsAreNumbers, AcceptedCounts
     DEF IInv, Grounds, Dropping, Numbered
<1>3. r \in Entry
  BY <1>2 DEF Entry, Verdicts
<1>4. /\ AcceptedAt' = AcceptedAt \cup {n} /\ records'[n] = r
      /\ \A i \in AcceptedAt : records'[i] = records[i]
  <2>1. records'[n] = r /\ \A i \in AcceptedAt : records'[i] = records[i]
    BY <1>0, <1>1, <1>3, OneMoreRecord
  <2>2. AcceptedAt' = IF r.verdict = "accepted" THEN AcceptedAt \cup {n} ELSE AcceptedAt
    BY <1>0, <1>1, <1>3, OneMoreRecord
  <2> QED
    BY <2>1, <2>2
<1>5. /\ Cardinality(AcceptedAt') = c + 1 /\ AcceptedIndex(n)' = c + 1
      /\ \A i \in AcceptedAt : AcceptedIndex(i)' = AcceptedIndex(i)
  BY <1>0, <1>4, LastIndex
<1>6. /\ Len(revisions') = c + 1 /\ DOMAIN revisions' = 1..(c + 1)
      /\ revisions'[c + 1] = id
      /\ \A j \in 1..c : revisions'[j] = revisions[j]
      /\ DOMAIN revisions = 1..c
  BY <1>1, <1>2 DEF IInv, Shape
<1>7. Numbered'
  <2>1. ASSUME NEW i \in AcceptedAt
        PROVE  /\ AcceptedIndex(i)' \in DOMAIN revisions'
               /\ revisions'[AcceptedIndex(i)'] = records'[i].unit
               /\ records'[i].unit = UnitId(records'[i].proposal, AcceptedIndex(i)')
    <3>1. AcceptedIndex(i) \in 1..c
      BY <1>6 DEF Grounds, Numbered
    <3>2. AcceptedIndex(i)' = AcceptedIndex(i) /\ records'[i] = records[i]
      BY <1>4, <1>5
    <3>3. revisions'[AcceptedIndex(i)] = revisions[AcceptedIndex(i)]
      BY <1>6, <3>1
    <3>4. AcceptedIndex(i) \in 1..(c + 1)
      BY <3>1, <1>2
    <3>5. /\ revisions[AcceptedIndex(i)] = records[i].unit
          /\ records[i].unit = UnitId(records[i].proposal, AcceptedIndex(i))
      BY DEF Grounds, Numbered
    <3> HIDE DEF c, r, id
    <3> QED
      BY <1>6, <3>2, <3>3, <3>4, <3>5
  <2>2. /\ AcceptedIndex(n)' \in DOMAIN revisions'
        /\ revisions'[AcceptedIndex(n)'] = records'[n].unit
        /\ records'[n].unit = UnitId(records'[n].proposal, AcceptedIndex(n)')
    <3>1. records'[n].unit = id /\ records'[n].proposal = p
      BY <1>4
    <3>2. id = UnitId(p, c + 1)
      BY <1>2
    <3>3. AcceptedIndex(n)' = c + 1 /\ c + 1 \in 1..(c + 1)
      BY <1>5, <1>2
    <3> HIDE DEF c, r, id
    <3> QED
      BY <1>6, <3>1, <3>2, <3>3
  <2>3. Len(revisions') = Cardinality(AcceptedAt')
    BY <1>5, <1>6
  <2> HIDE DEF c, r, id
  <2> QED
    BY <1>4, <2>1, <2>2, <2>3 DEF Numbered
<1>8. id \notin Seeds /\ id[3] = accepted + 1
  BY UnitsAreNoSeeds
<1>9. Registered' = Registered \cup {id} /\ id \notin Registered
  <2>1. Registered' = Registered \cup {id}
    BY <1>1, <1>8 DEF Registered
  <2>2. \A u \in Registered : u[3] <= accepted
    BY DEF Grounds, Owned
  <2>3. ~(accepted + 1 <= accepted)
    BY <1>2
  <2> HIDE DEF id
  <2> QED
    BY <2>1, <2>2, <2>3, <1>8
<1>10. Owned'
  <2>1. ToSet(revisions') = ToSet(revisions) \cup {id}
    BY <1>6, <1>2 DEF ToSet
  <2>2. IsFiniteSet(Registered)
    BY FS_Subset DEF IInv, Shape, Registered
  <2>3. Cardinality(Registered') = Cardinality(Registered) + 1
    BY <1>9, <2>2, FS_AddElement
  <2>4. Registered = ToSet(revisions) /\ branches = Registered
        /\ Cardinality(Registered) = c /\ \A u \in Registered : u[3] <= accepted
    BY <1>2 DEF Grounds, Owned
  <2>5. \A u \in Registered' : u[3] <= accepted'
    <3>1. \A u \in Registered : u[3] \in Nat
      <4>1. \A u \in UnitIds : u[3] \in Nat
        BY CountsAreNatural DEF UnitIds, UnitId
      <4> QED
        BY <4>1, AcceptedCounts, <2>4
    <3> HIDE DEF id
    <3> QED
      BY <3>1, <2>4, <1>2, <1>8, <1>9
  <2> HIDE DEF id
  <2> QED
    BY <2>1, <2>3, <2>4, <2>5, <1>1, <1>6, <1>9 DEF Owned
<1>11. Dropping'
  <2>1. accepted' = Cardinality(AcceptedAt')
    BY <1>2, <1>5
  <2>2. Len(records') = Len(records) + 1 /\ Len(handled') = Len(handled) + 1
        /\ DOMAIN records' = DOMAIN records \cup {n}
        /\ \A i \in DOMAIN records : records'[i] = records[i]
    <3>1. Len(handled') = Len(handled) + 1
      BY <1>1, AdmittedIsFit, OneMoreHandled
    <3> QED
      BY <3>1, <1>0, <1>1 DEF IInv, Shape
  <2>3. seen' = Inserted(seen, Key(p), id)
    BY <1>1 DEF Admit
  <2>4. \A k \in DOMAIN seen' :
          (k \in DOMAIN seen /\ seen'[k] = seen[k]) \/ seen'[k] = id
    BY <2>3 DEF Inserted
  <2>5. records'[n].verdict = "accepted"
    BY <1>4
  <2> HIDE DEF id, r, c
  <2> QED
    BY <1>1, <1>9, <2>1, <2>2, <2>4, <2>5 DEF Grounds, Dropping
<1>12. Unstarted'
  BY <1>1 DEF Accept, ProceedIf, Unstarted
<1> QED
  BY <1>7, <1>10, <1>11, <1>12 DEF Grounds

LEMMA InitGrounds == Init => Grounds
<1> SUFFICES ASSUME Init
             PROVE  Grounds
  OBVIOUS
<1>1. /\ DOMAIN life = {} /\ DOMAIN seen = {} /\ DOMAIN records = {} /\ handled = <<>>
      /\ DOMAIN revisions = {} /\ Len(revisions) = 0 /\ Len(records) = 0 /\ Len(handled) = 0
      /\ branches = {} /\ accepted = 0
  BY DEF Init
<1>2. AcceptedAt = {} /\ Registered = {} /\ ToSet(revisions) = {}
  BY <1>1 DEF AcceptedAt, Registered, ToSet
<1> QED
  BY <1>1, <1>2, FS_EmptySet DEF Grounds, Numbered, Owned, Dropping, Unstarted

LEMMA NextGrounds == IInv /\ Grounds /\ [Next]_vars => Grounds'
<1> SUFFICES ASSUME IInv, Grounds, [Next]_vars
             PROVE  Grounds'
  OBVIOUS
<1>1. ASSUME NEW p \in Proposals, TurnedDown(p)
      PROVE  Grounds'
  BY <1>1, TurnedDownGrounds DEF TurnedDown
<1> QED
  BY <1>1, KindsOfSteps, IdleGrounds, AcceptGrounds, DropGrounds DEF IInv

-----------------------------------------------------------------------------
(* The course of the run: lives, report and errors.                          *)

\* All units are at s but one, which the scenario took away.
AllBut(s) ==
    \E v \in Seeds \cup UnitIds \cup {NoUnit} : \A u \in DOMAIN life :
        \/ life[u] = s
        \/ (u = v /\ life[u] \in {"retired", "replaced"})

Lives ==
    /\ phase \in {"proposals", "scenario"} => \A u \in DOMAIN life : life[u] = "ready"
    /\ phase = "schedule" => AllBut("ready")
    /\ phase = "report" => AllBut("completed")

Underway == phase \in {"config", "proposals", "scenario", "schedule", "report"}

\* Nothing is reported on the way; a budget diagnostic ends the run by budget.
Reported ==
    /\ Underway => report.status = "none" /\ artifacts = "none"
    /\ "DRU-GEN-003" \in diagnostics \/ "DRU-BRN-001" \in diagnostics => terminated

Course == Lives /\ Reported /\ ErrorsHaveACause /\ ConvergenceIsEarned

\* A walk of allowed moves that reactivates nothing is legal.
LEMMA CalmWalksAreLegal ==
  ASSUME TypeOK, NEW from, NEW w,
         \A i \in 1..Len(w) :
            /\ <<IF i = 1 THEN from ELSE w[i - 1], w[i]>> \in Allowed
            /\ w[i] = "ready" => (IF i = 1 THEN from ELSE w[i - 1]) # "suspended"
  PROVE  Legal(from, w)
<1>1. limits.reactivations \in Nat
  BY LimitsAreNatural DEF TypeOK
<1>2. {i \in 1..Len(w) :
         /\ w[i] = "ready"
         /\ (IF i = 1 THEN from ELSE w[i - 1]) = "suspended"} = {}
  OBVIOUS
<1>3. Reactivations(from, w) = 0
  BY <1>2, FS_EmptySet DEF Reactivations
<1> QED
  BY <1>1, <1>3 DEF Legal

\* The walks every unit takes are legal.
LEMMA WalksAreLegal ==
  ASSUME TypeOK
  PROVE  Legal("absent", Registration) /\ Legal("ready", Execution)
<1>2. {<<"absent", "proposed">>, <<"proposed", "validated">>,
       <<"validated", "registered">>, <<"registered", "ready">>,
       <<"ready", "assigned">>, <<"assigned", "running">>,
       <<"running", "completed">>} \subseteq Allowed
  BY DEF Allowed
<1>3. Legal("absent", Registration)
  <2>2. ASSUME NEW w, w = <<"proposed", "validated", "registered", "ready">>
        PROVE  Legal("absent", w)
    <3>1. /\ Len(w) = 4 /\ w[1] = "proposed" /\ w[2] = "validated"
           /\ w[3] = "registered" /\ w[4] = "ready"
      BY <2>2
    <3>2. \A i \in 1..Len(w) : i = 1 \/ i = 2 \/ i = 3 \/ i = 4
      BY <3>1
    <3>3. \A i \in 1..Len(w) :
             /\ <<IF i = 1 THEN "absent" ELSE w[i - 1], w[i]>> \in Allowed
             /\ w[i] = "ready" =>
                  (IF i = 1 THEN "absent" ELSE w[i - 1]) # "suspended"
      BY <3>1, <3>2, <1>2
    <3>4. Legal("absent", w)
      BY <3>3, CalmWalksAreLegal
    <3> QED
      BY <3>1, <3>4
  <2> QED
    BY <2>2 DEF Registration
<1>4. Legal("ready", Execution)
  <2>2. ASSUME NEW w, w = <<"assigned", "running", "completed">>
        PROVE  Legal("ready", w)
    <3>1. /\ Len(w) = 3 /\ w[1] = "assigned" /\ w[2] = "running"
           /\ w[3] = "completed"
      BY <2>2
    <3>2. \A i \in 1..Len(w) : i = 1 \/ i = 2 \/ i = 3
      BY <3>1
    <3>3. \A i \in 1..Len(w) :
             /\ <<IF i = 1 THEN "ready" ELSE w[i - 1], w[i]>> \in Allowed
             /\ w[i] = "ready" =>
                  (IF i = 1 THEN "ready" ELSE w[i - 1]) # "suspended"
      BY <3>1, <3>2, <1>2
    <3>4. Legal("ready", w)
      BY <3>3, CalmWalksAreLegal
    <3> QED
      BY <3>1, <3>4
  <2> QED
    BY <2>2 DEF Execution
<1> QED
  BY <1>3, <1>4

\* So are the scripts of the scenarios, but for a reactivation where the
\* limits allow none.
LEMMA ScriptsAreLegal ==
  ASSUME TypeOK, NEW s, Script(s) # <<>>
  PROVE  /\ \/ Legal("ready", Script(s))
            \/ s = "suspension-reactivation" /\ limits.reactivations = 0
         /\ Last(Script(s)) \in {"ready", "replaced", "retired"}
<1>1. limits.reactivations \in Nat
  BY LimitsAreNatural DEF TypeOK
<1>2. {<<"ready", "suspended">>, <<"suspended", "ready">>, <<"ready", "replaced">>,
       <<"suspended", "retired">>, <<"ready", "assigned">>, <<"assigned", "running">>,
       <<"running", "failed">>, <<"failed", "ready">>} \subseteq Allowed
  BY DEF Allowed
<1>3. CASE s = "suspension-reactivation"
  <2>1. Script(s) = <<"suspended", "ready">>
    BY <1>3 DEF Script
  <2>2. ASSUME NEW w, w = <<"suspended", "ready">>
        PROVE  /\ Last(w) = "ready"
               /\ limits.reactivations # 0 => Legal("ready", w)
    <3>1. Len(w) = 2 /\ w[1] = "suspended" /\ w[2] = "ready"
      BY <2>2
    <3>2. \A i \in 1..Len(w) : i = 1 \/ i = 2
      BY <3>1
    <3>3. {i \in 1..Len(w) :
             /\ w[i] = "ready"
             /\ (IF i = 1 THEN "ready" ELSE w[i - 1]) = "suspended"} = {2}
      BY <3>1, <3>2
    <3>4. Reactivations("ready", w) = 1
      BY <3>3, FS_Singleton DEF Reactivations
    <3>5. \A i \in 1..Len(w) : <<IF i = 1 THEN "ready" ELSE w[i - 1], w[i]>> \in Allowed
      BY <3>1, <3>2, <1>2
    <3> QED
      BY <1>1, <3>1, <3>4, <3>5 DEF Legal, Last
  <2> QED
    BY <2>1, <2>2, <1>3
<1>4. CASE s = "replacement"
  <2>1. Script(s) = <<"replaced">>
    BY <1>4 DEF Script
  <2>2. ASSUME NEW w, w = <<"replaced">>
        PROVE  Last(w) = "replaced" /\ Legal("ready", w)
    <3>1. /\ Len(w) = 1 /\ w[1] = "replaced"
      BY <2>2
    <3>2. \A i \in 1..Len(w) : i = 1
      BY <3>1
    <3>3. \A i \in 1..Len(w) :
             /\ <<IF i = 1 THEN "ready" ELSE w[i - 1], w[i]>> \in Allowed
             /\ w[i] = "ready" =>
                  (IF i = 1 THEN "ready" ELSE w[i - 1]) # "suspended"
      BY <3>1, <3>2, <1>2
    <3>4. Legal("ready", w)
      BY <3>3, CalmWalksAreLegal
    <3> QED
      BY <3>1, <3>4 DEF Last
  <2> QED
    BY <2>1, <2>2
<1>5. CASE s = "branch-pruning"
  <2>1. Script(s) = <<"suspended", "retired">>
    BY <1>5 DEF Script
  <2>2. ASSUME NEW w, w = <<"suspended", "retired">>
        PROVE  Last(w) = "retired" /\ Legal("ready", w)
    <3>1. /\ Len(w) = 2 /\ w[1] = "suspended" /\ w[2] = "retired"
      BY <2>2
    <3>2. \A i \in 1..Len(w) : i = 1 \/ i = 2
      BY <3>1
    <3>3. \A i \in 1..Len(w) :
             /\ <<IF i = 1 THEN "ready" ELSE w[i - 1], w[i]>> \in Allowed
             /\ w[i] = "ready" =>
                  (IF i = 1 THEN "ready" ELSE w[i - 1]) # "suspended"
      BY <3>1, <3>2, <1>2
    <3>4. Legal("ready", w)
      BY <3>3, CalmWalksAreLegal
    <3> QED
      BY <3>1, <3>4 DEF Last
  <2> QED
    BY <2>1, <2>2
<1>6. CASE s = "worker-failure"
  <2>1. Script(s) = <<"assigned", "running", "failed", "ready">>
    BY <1>6 DEF Script
  <2>2. ASSUME NEW w, w = <<"assigned", "running", "failed", "ready">>
        PROVE  Last(w) = "ready" /\ Legal("ready", w)
    <3>1. /\ Len(w) = 4 /\ w[1] = "assigned" /\ w[2] = "running"
           /\ w[3] = "failed" /\ w[4] = "ready"
      BY <2>2
    <3>2. \A i \in 1..Len(w) : i = 1 \/ i = 2 \/ i = 3 \/ i = 4
      BY <3>1
    <3>3. \A i \in 1..Len(w) :
             /\ <<IF i = 1 THEN "ready" ELSE w[i - 1], w[i]>> \in Allowed
             /\ w[i] = "ready" =>
                  (IF i = 1 THEN "ready" ELSE w[i - 1]) # "suspended"
      BY <3>1, <3>2, <1>2
    <3>4. Legal("ready", w)
      BY <3>3, CalmWalksAreLegal
    <3> QED
      BY <3>1, <3>4 DEF Last
  <2> QED
    BY <2>1, <2>2
<1> QED
  BY <1>3, <1>4, <1>5, <1>6 DEF Script

\* What the judging of a proposal does to the course: it adds at most one
\* ready unit, and notes a spent budget.
LEMMA JudgingIsInCourse ==
  ASSUME IInv, Course, NEW p \in Proposals,
         Duplicate(p) \/ Refuse(p) \/ Accept(p) \/ Drop(p)
  PROVE  Course' /\ phase' # "error"
<1>1. phase = "proposals" /\ UNCHANGED <<report, artifacts>>
  BY DEF Duplicate, Refuse, Accept, Drop, Admit, Take
<1>2. phase' = "proposals"
  <2>1. CASE Accept(p)
    BY <2>1, WalksAreLegal DEF Accept, ProceedIf, IInv
  <2> QED
    BY <1>1, <2>1 DEF Duplicate, Refuse, Drop
<1>3. \A u \in DOMAIN life : life[u] = "ready"
  BY <1>1 DEF Course, Lives
<1>4. \A u \in DOMAIN life' : life'[u] = "ready"
  <2>1. CASE Accept(p)
    <3>1. Last(Registration) = "ready"
      BY DEF Registration, Last
    <3>2. PICK id : life' = Inserted(life, id, "ready")
      BY <2>1, <3>1 DEF Accept
    <3> QED
      BY <1>3, <3>2 DEF Inserted
  <2> QED
    BY <1>3, <2>1 DEF Duplicate, Refuse, Drop
<1>5. "DRU-GEN-003" \in diagnostics' \/ "DRU-BRN-001" \in diagnostics' => terminated'
  <2>1. CASE Refuse(p)
    <3>1. Refusal(p) # "DRU-BRN-001"
      BY ProposalsAreProposals DEF Refusal, Objection, Flaws
    <3> QED
      BY <2>1, <3>1 DEF Refuse, Course, Reported
  <2>2. CASE Drop(p)
    BY <2>2 DEF Drop
  <2>3. CASE Duplicate(p) \/ Accept(p)
    BY <2>3 DEF Duplicate, Accept, Course, Reported
  <2> QED
    BY <2>1, <2>2, <2>3
<1>6. report.status = "none" /\ artifacts = "none"
  BY <1>1 DEF Course, Reported, Underway
<1> QED
  BY <1>1, <1>2, <1>4, <1>5, <1>6
     DEF Course, Lives, Reported, ErrorsHaveACause, ConvergenceIsEarned

LEMMA ScenarioIsInCourse ==
  ASSUME IInv, Course, NEW s \in Scenarios, ApplyScenario(s)
  PROVE  Course'
<1>1. /\ phase = "scenario" /\ scenario' = s /\ phase' \in {"schedule", "error"}
      /\ UNCHANGED <<limits, report, artifacts, terminated>>
  BY DEF ApplyScenario
<1>2. \A u \in DOMAIN life : life[u] = "ready"
  BY <1>1 DEF Course, Lives
<1>3. phase' = "schedule" => AllBut("ready")'
  <2>1. CASE UNCHANGED life
    BY <1>2, <2>1 DEF AllBut
  <2>2. CASE ~UNCHANGED life
    <3>1. PICK u \in Candidates : Script(s) # <<>> /\ life' = [life EXCEPT ![u] = Last(Script(s))]
      BY <2>2 DEF ApplyScenario
    <3>2. Last(Script(s)) \in {"ready", "replaced", "retired"}
      BY <3>1, ScriptsAreLegal DEF IInv
    <3>3. u \in Seeds \cup UnitIds
      BY <3>1 DEF Candidates, Registered, IInv, TypeOK
    <3>4. \A w \in DOMAIN life' :
            life'[w] = "ready" \/ (w = u /\ life'[w] \in {"retired", "replaced"})
      BY <1>2, <3>1, <3>2
    <3> QED
      BY <3>3, <3>4 DEF AllBut
  <2> QED
    BY <2>1, <2>2
<1>4. phase' = "error" => s = "suspension-reactivation" /\ limits.reactivations = 0
  <2> SUFFICES ASSUME phase' = "error"
               PROVE  s = "suspension-reactivation" /\ limits.reactivations = 0
    OBVIOUS
  <2>1. PICK u \in Candidates : Script(s) # <<>> /\ ~Legal(life[u], Script(s))
    BY DEF ApplyScenario
  <2>2. life[u] = "ready"
    BY <1>2 DEF Candidates, Registered
  <2> QED
    BY <2>1, <2>2, ScriptsAreLegal DEF IInv
<1>5. "DRU-GEN-003" \in diagnostics' \/ "DRU-BRN-001" \in diagnostics' => terminated'
  BY <1>1 DEF ApplyScenario, Course, Reported
<1>6. report.status = "none" /\ artifacts = "none"
  BY <1>1 DEF Course, Reported, Underway
<1> QED
  BY <1>1, <1>3, <1>4, <1>5, <1>6
     DEF Course, Lives, Reported, ErrorsHaveACause, ConvergenceIsEarned

LEMMA ScheduleIsInCourse ==
  ASSUME IInv, Course, Schedule
  PROVE  Course'
<1>1. /\ phase = "schedule" /\ UNCHANGED <<report, artifacts, terminated, diagnostics>>
  BY DEF Schedule
<1>2. \A u \in ReadyUnits : Legal(life[u], Execution)
  BY WalksAreLegal DEF ReadyUnits, IInv
<1>3. /\ phase' = "report"
      /\ life' = [u \in DOMAIN life |-> IF u \in ReadyUnits THEN Last(Execution) ELSE life[u]]
  BY <1>2 DEF Schedule
<1>4. Last(Execution) = "completed"
  BY DEF Execution, Last
<1>5. AllBut("completed")'
  <2>1. PICK v \in Seeds \cup UnitIds \cup {NoUnit} : \A u \in DOMAIN life :
          life[u] = "ready" \/ (u = v /\ life[u] \in {"retired", "replaced"})
    BY <1>1 DEF Course, Lives, AllBut
  <2>2. \A u \in DOMAIN life' :
          life'[u] = "completed" \/ (u = v /\ life'[u] \in {"retired", "replaced"})
    BY <1>3, <1>4, <2>1 DEF ReadyUnits
  <2> QED
    BY <2>2 DEF AllBut
<1>6. report.status = "none" /\ artifacts = "none"
  BY <1>1 DEF Course, Reported, Underway
<1> QED
  BY <1>1, <1>3, <1>5, <1>6
     DEF Course, Lives, Reported, ErrorsHaveACause, ConvergenceIsEarned

LEMMA ReportIsInCourse ==
  ASSUME IInv, Grounds, Course, Report
  PROVE  Course'
<1> DEFINE spent == Messages > limits.messages
           ended == terminated \/ spent
<1>1. /\ phase = "report" /\ phase' = "publish" /\ terminated' = ended
      /\ diagnostics' = IF spent THEN diagnostics \cup {"DRU-GEN-003"} ELSE diagnostics
      /\ report'.status = IF ended THEN "budget_terminated" ELSE "converged"
      /\ UNCHANGED <<limits, handled, records, accepted, life, revisions>>
  BY DEF Report
<1>2. "DRU-GEN-003" \in diagnostics' \/ "DRU-BRN-001" \in diagnostics' => terminated'
  BY <1>1 DEF Course, Reported
<1>3. ASSUME report'.status = "converged"
      PROVE  ConvergenceIsEarned'
  <2>1. ~terminated /\ ~ended /\ diagnostics' = diagnostics
    BY <1>1, <1>3
  <2>2. diagnostics \cap {"DRU-GEN-003", "DRU-BRN-001"} = {}
    BY <2>1 DEF Course, Reported
  <2>3. Len(records) = Len(handled) /\ accepted = Cardinality(Registered)
    BY <2>2 DEF Grounds, Dropping, Owned, Numbered
  <2>4. PICK v \in Seeds \cup UnitIds \cup {NoUnit} : \A u \in DOMAIN life :
          life[u] = "completed" \/ (u = v /\ life[u] \in {"retired", "replaced"})
    BY <1>1 DEF Course, Lives, AllBut
  <2>5. Cardinality({u \in DOMAIN life : life[u] # "completed"}) <= 1
    <3>1. {u \in DOMAIN life : life[u] # "completed"} \subseteq {v}
      BY <2>4
    <3>2. IsFiniteSet({v}) /\ Cardinality({v}) = 1
      BY FS_Singleton
    <3> QED
      BY <3>1, <3>2, FS_Subset
  <2>6. Registered' = Registered
    BY <1>1 DEF Registered
  <2> QED
    BY <1>1, <2>1, <2>2, <2>3, <2>4, <2>5, <2>6 DEF ConvergenceIsEarned
<1>4. ConvergenceIsEarned'
  BY <1>3 DEF ConvergenceIsEarned
<1> QED
  BY <1>1, <1>2, <1>4 DEF Course, Lives, Reported, Underway, ErrorsHaveACause

\* Only documents with no record at all are turned down by their replay.
LEMMA PublishedDocumentsAreValid ==
  ASSUME Grounds, ~DocumentsValid
  PROVE  records = <<>>
  BY DEF Grounds, Numbered, DocumentsValid

LEMMA NextCourse == IInv /\ Grounds /\ Course /\ [Next]_vars => Course'
<1> SUFFICES ASSUME IInv, Grounds, Course, [Next]_vars
             PROVE  Course'
  OBVIOUS
<1>1. CASE UNCHANGED vars
  BY <1>1 DEF vars, Course, Lives, AllBut, Reported, Underway, ErrorsHaveACause,
              ConvergenceIsEarned, Registered
<1>2. CASE RefuseConfig
  BY <1>2 DEF RefuseConfig, Course, Lives, Reported, Underway, ErrorsHaveACause,
              ConvergenceIsEarned
<1>3. CASE SeedUnits
  <2>1. phase = "config" /\ phase' = "proposals"
        /\ UNCHANGED <<report, artifacts, diagnostics, terminated>>
    BY <1>3, WalksAreLegal DEF SeedUnits, ProceedIf, IInv
  <2>2. \A u \in DOMAIN life' : life'[u] = "ready"
    BY <1>3 DEF SeedUnits
  <2> QED
    BY <2>1, <2>2 DEF Course, Lives, Reported, Underway, ErrorsHaveACause,
                      ConvergenceIsEarned
<1>4. CASE NoMoreProposals
  BY <1>4 DEF NoMoreProposals, Course, Lives, Reported, Underway, ErrorsHaveACause,
              ConvergenceIsEarned
<1>5. CASE Publish \/ Validate
  <2>1. /\ phase \in {"publish", "validate"} /\ phase' \in {"validate", "ok", "error"}
        /\ UNCHANGED <<limits, scenario, handled, records, accepted, life, revisions,
                       diagnostics, terminated, report>>
    BY <1>5 DEF Publish, Validate, ProceedIf
  <2>2. ConvergenceIsEarned'
    BY <2>1 DEF Course, ConvergenceIsEarned, Registered
  <2>3. ErrorsHaveACause'
    <3>1. CASE Publish
      BY <3>1 DEF Publish, ErrorsHaveACause
    <3>2. CASE Validate
      <4> SUFFICES ASSUME phase' = "error"
                   PROVE  handled = <<>> \/ (records = <<>> /\ "DRU-BRN-001" \in diagnostics)
        BY <2>1 DEF ErrorsHaveACause
      <4>1. records = <<>>
        BY <3>2, PublishedDocumentsAreValid DEF Validate, ProceedIf
      <4>2. "DRU-BRN-001" \notin diagnostics => Len(handled) = 0
        BY <4>1 DEF Grounds, Dropping
      <4> QED
        BY <4>1, <4>2 DEF IInv, Shape
    <3> QED
      BY <1>5, <3>1, <3>2
  <2> QED
    BY <2>1, <2>2, <2>3 DEF Course, Lives, Reported, Underway
<1> QED
  BY <1>1, <1>2, <1>3, <1>4, <1>5, JudgingIsInCourse, ScenarioIsInCourse,
     ScheduleIsInCourse, ReportIsInCourse DEF Next

LEMMA InitCourse == Init => Course
  BY DEF Init, Course, Lives, Reported, Underway, ErrorsHaveACause, ConvergenceIsEarned

-----------------------------------------------------------------------------
(* Theorems.                                                                 *)

LEMMA InitIInv == Init => IInv
<1> SUFFICES ASSUME Init
             PROVE  IInv
  OBVIOUS
<1>1. DOMAIN life = {} /\ DOMAIN seen = {} /\ DOMAIN handled = {} /\ DOMAIN records = {}
      /\ DOMAIN revisions = {} /\ branches = {} /\ accepted = 0
  BY DEF Init
<1>2. TypeOK
  <2>1. accepted \in 0..MaxProposals
    BY <1>1, CountsAreNatural
  <2>2. /\ limits \in Limits /\ scenario = "none" /\ phase = "config" /\ events = 0
        /\ terminated = FALSE /\ report.status = "none" /\ report.reason = "none"
        /\ artifacts = "none"
    BY DEF Init
  <2> QED
    BY <1>1, <2>1, <2>2 DEF TypeOK
<1>3. Shape
  BY <1>1, FS_EmptySet, CountsAreNatural DEF Init, Shape
<1>4. Bookkeeping
  <2>1. AcceptedAt = {} /\ \A e : AcceptedIn(e) = {} /\ HandledIn(e) = {}
    BY <1>1 DEF AcceptedAt, AcceptedIn, HandledIn
  <2> QED
    BY <2>1, <1>2, FS_EmptySet, LimitsAreNumbers DEF Bookkeeping
<1>5. Counters
  BY <1>1, <1>2, FS_EmptySet, LimitsAreNumbers DEF Counters, MaxOfTwo
<1>6. UnitsAreIndependent
  BY <1>1 DEF UnitsAreIndependent, AcceptedAt
<1> QED
  BY <1>2, <1>3, <1>4, <1>5, <1>6 DEF IInv

LEMMA NextIInv == IInv /\ [Next]_vars => IInv'
<1> SUFFICES ASSUME IInv, [Next]_vars
             PROVE  IInv'
  OBVIOUS
<1>1. Judged'
  BY KindsOfSteps, IdleKeeps, TurnedDownKeeps, AcceptKeeps, DropKeeps DEF IInv
<1> QED
  BY <1>1, NextTypeOK, NextShape DEF IInv, Judged

\* The inductive invariant: the records, and the maps and counts by which the
\* next proposal is judged, stay in step however proposals are refused,
\* dropped or merged.
THEOREM BookkeepingHolds == Spec => []IInv
  BY InitIInv, NextIInv, PTL DEF Spec

\* Every field keeps its type, for every bundle and every limit: no unit and
\* no branch but of a proposal, and a report of the known words.
THEOREM TypesSound == Spec => []TypeOK
<1>1. IInv => TypeOK
  BY DEF IInv
<1> QED
  BY <1>1, BookkeepingHolds, PTL

\* Accepted units of one logical step never declare a write to one path, and
\* no two are the same derivation, though dropped proposals leave their keys
\* and writes behind.
THEOREM AcceptedUnitsAreIndependent == Spec => []UnitsAreIndependent
<1>1. IInv => UnitsAreIndependent
  BY DEF IInv
<1> QED
  BY <1>1, BookkeepingHolds, PTL

\* No run grows past its limits, whatever is proposed and in whatever order:
\* units, active units, branches, depth, accepted proposals of one epoch.
THEOREM RunsAreBounded == Spec => []LimitsAreKept
<1>1. IInv => LimitsAreKept
  <2> SUFFICES ASSUME IInv
               PROVE  LimitsAreKept
    OBVIOUS
  <2>1. ASSUME NEW i \in AcceptedAt
        PROVE  LET p == records[i].proposal IN
               /\ p.depth <= limits.depth
               /\ Cardinality({j \in AcceptedAt : records[j].proposal.epoch = p.epoch})
                    <= limits.perEpoch
    BY DEF IInv, Bookkeeping, AcceptedIn
  <2> QED
    BY <2>1 DEF IInv, Counters, LimitsAreKept
<1> QED
  BY <1>1, BookkeepingHolds, PTL

\* The records, the units, the branches and the plan revisions tell one story
\* with the counts of the run, until the branch limit drops a proposal.
THEOREM RunsAreGrounded == Spec => [](IInv /\ Grounds)
  BY InitIInv, NextIInv, InitGrounds, NextGrounds, PTL DEF Spec

\* A duplicate names a registered unit, every accepted proposal has its unit,
\* its branch and its plan revision, in order, until the branch limit is hit.
THEOREM RecordsAreAboutUnits == Spec => []RecordsAreGrounded
<1>1. IInv /\ Grounds => RecordsAreGrounded
  <2> SUFFICES ASSUME IInv, Grounds
               PROVE  RecordsAreGrounded
    OBVIOUS
  <2>1. "DRU-BRN-001" \notin diagnostics =>
          /\ accepted = Cardinality(Registered)
          /\ \A i \in DOMAIN records :
                records[i].verdict = "DRU-PRP-006" => records[i].unit \in Registered
    BY DEF Grounds, Dropping, Owned, Numbered
  <2> QED
    BY <2>1 DEF Grounds, Numbered, Owned, RecordsAreGrounded
<1> QED
  BY <1>1, RunsAreGrounded, PTL

\* The course of the run: who is ready, taken away or completed in which
\* phase, and what is reported when.
THEOREM RunsKeepCourse == Spec => [](IInv /\ Grounds /\ Course)
  BY InitIInv, NextIInv, InitGrounds, NextGrounds, InitCourse, NextCourse, PTL DEF Spec

\* The run's own lifecycle moves are always legal and its own documents always
\* replay: an error is an empty bundle, a branch limit that left nothing, a
\* failed write or a reactivation that the limits forbid.
THEOREM ErrorsComeFromOutside == Spec => []ErrorsHaveACause
<1>1. IInv /\ Grounds /\ Course => ErrorsHaveACause
  BY DEF Course
<1> QED
  BY <1>1, RunsKeepCourse, PTL

\* A run reported as converged dropped nothing for a budget and left no unit
\* it accepted unfinished, but for the one the scenario took away.
THEOREM ConvergedRunsAreDone == Spec => []ConvergenceIsEarned
<1>1. IInv /\ Grounds /\ Course => ConvergenceIsEarned
  BY DEF Course
<1> QED
  BY <1>1, RunsKeepCourse, PTL
=============================================================================
