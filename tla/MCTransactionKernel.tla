------------------------ MODULE MCTransactionKernel ------------------------
(* A small instance of TransactionKernel: the number of transaction ids       *)
(* bounds the candidates, the deltas and the records, since every prepare     *)
(* and every rollback uses one up.  MaxCandidates leaves the other ids to     *)
(* rollbacks, so that rollbacks of rollbacks are reached.                     *)
EXTENDS TransactionKernel, TLC

CONSTANTS s1, s2, d1, d2, MaxCandidates

MCInitialState == [state_id |-> s1, data |-> d1]

\* Two snapshots share an id and differ in their data, one has another id.
MCSnapshot == {MCInitialState, [state_id |-> s1, data |-> d2],
               [state_id |-> s2, data |-> d1]}

\* The non-blank ids are interchangeable.
TransactionSymmetry == Permutations(TransactionIds \ {BlankId})

\* The specification with at most MaxCandidates prepares.
MCNext == Next /\ next_candidate_id' <= MaxCandidates + 1

MCSpec == Init /\ [][MCNext]_vars
=============================================================================
