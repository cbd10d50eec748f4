---------------------------- MODULE StateLedger ----------------------------
(***************************************************************************)
(* What a client of the transaction kernel is promised, without the way    *)
(* the kernel keeps it: one history of states that only grows, to which a  *)
(* state is appended either because an offer made against the present      *)
(* state is taken up, or because one earlier entry is undone.              *)
(***************************************************************************)
EXTENDS Naturals, Sequences

CONSTANTS
  State,         \* the snapshots a ledger can hold
  Owner,         \* the transaction ids
  Initial        \* the snapshot the ledger starts from

VARIABLES
  history,       \* the states, oldest first; the last one is current
  offers,        \* what may still be taken up: [owner, base, next]
  spent,         \* the owners that have made their one offer or undo
  undone         \* the positions of history whose step has been undone

vars == <<history, offers, spent, undone>>

Now == history[Len(history)]

Init ==
  /\ history = <<Initial>>
  /\ offers = {}
  /\ spent = {}
  /\ undone = {}

\* An owner offers to replace the present state. Each owner acts once.
Offer(o, s) ==
  /\ o \notin spent
  /\ offers' = offers \cup {[owner |-> o, base |-> Now, next |-> s]}
  /\ spent' = spent \cup {o}
  /\ UNCHANGED <<history, undone>>

\* An offer is turned down for good.
Withdraw(f) ==
  /\ f \in offers
  /\ offers' = offers \ {f}
  /\ UNCHANGED <<history, spent, undone>>

\* An offer is taken up, and only on the state it was made against.
TakeUp(f) ==
  /\ f \in offers
  /\ f.base = Now
  /\ history' = Append(history, f.next)
  /\ offers' = offers \ {f}
  /\ UNCHANGED <<spent, undone>>

\* Step i is undone, once, and only while its result is the present state.
Undo(o, i) ==
  /\ o \notin spent
  /\ i \in 2..Len(history)
  /\ i \notin undone
  /\ history[i] = Now
  /\ history' = Append(history, history[i - 1])
  /\ spent' = spent \cup {o}
  /\ undone' = undone \cup {i}
  /\ UNCHANGED offers

Next ==
  \/ \E o \in Owner, s \in State : Offer(o, s)
  \/ \E f \in offers : Withdraw(f) \/ TakeUp(f)
  \/ \E o \in Owner, i \in 2..Len(history) : Undo(o, i)

Spec == Init /\ [][Next]_vars
=============================================================================
