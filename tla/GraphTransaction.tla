--------------------------- MODULE GraphTransaction ---------------------------
(***************************************************************************)
(* Transactions on a ReasonGraph file: the two commands that commit a      *)
(* proposal to an .rgraph file in place.                                   *)
(*                                                                         *)
(* "transact" runs in Python (persistence.py, transaction.py, format.py):  *)
(* read, compare the hash the caller passes, apply in memory, write a      *)
(* private temporary file, replace.  "native-transact" is a Python wrapper *)
(* (native_graph.py) that reads the file and predicts the outcome, runs    *)
(* the native program (reason-object-core: transact_reason_graph_file) and *)
(* compares.  The native program names its temporary file after the        *)
(* transaction, and opens it with truncate.  Python passes a candidate     *)
(* through validate_graph before it writes and refuses to read a graph     *)
(* that does not pass; the native program publishes without.               *)
(*                                                                         *)
(* Nothing locks the file, so any number of processes interleave.  Each    *)
(* may be killed at any step (the wrapper kills a native program that is   *)
(* too slow) and any transaction may be run again, with the same proposal  *)
(* and the same expected hash.                                             *)
(*                                                                         *)
(* A graph is the set of proposals applied to the first one, and a hash is *)
(* the graph it is of: no proposal leads back to an earlier graph.  A file *)
(* is an inode: a process that has it open writes to it under whatever     *)
(* name it has by then.  A write is one step; a file that is truncated and *)
(* not yet written stands for every part of it.                            *)
(***************************************************************************)
EXTENDS Integers, FiniteSets

CONSTANTS
    Procs,     \* processes
    Txs,       \* transactions: an identifier with its proposal
    Valid,     \* the graphs validate_graph has nothing against
    Inodes,    \* files, named or not
    None,      \* no inode
    MaxRuns    \* commands that are started

ASSUME NoneAssumption == None \notin Inodes
ASSUME RunsAssumption == MaxRuns \in Nat
ASSUME TxsAssumption == Txs # {}
ASSUME ValidAssumption == Valid \subseteq SUBSET Txs /\ {} \in Valid

Graphs == SUBSET Txs
Kinds == {"python", "native"}

VARIABLES
    content,   \* what was written to an inode since it was truncated
    target,    \* the inode of the graph file
    temp,      \* the native program's temporary file of a transaction
    seen,      \* the graph a proposal was computed against, once it is made
    proposed,  \* proposals made
    shared,    \* two native programs have written for one transaction at once
    unchecked, \* a native program has accepted a candidate that is not valid
    pc, kind, tx,  \* of a process: its next step, its command, its transaction
    before,    \* bytes it compares the file with after a rejection
    peek,      \* the graph the wrapper predicts from
    base,      \* the graph the transaction is applied to
    handle,    \* the inode it writes
    report,    \* what it last told its caller
    runs       \* commands started so far

disk == <<content, target, temp>>
users == <<seen, proposed, runs>>
local == <<kind, tx, before, peek, base, handle>>
vars == <<disk, users, local, shared, unchecked, pc, report>>

-----------------------------------------------------------------------------

Holds(g) == content[target] = {g}     \* the file is g, written in full
Reads(g) == g \in Valid /\ Holds(g)   \* and read_graph returns it
Unreadable == \A g \in Graphs : ~Reads(g)

Candidate(p) == base[p] \cup {tx[p]}

Writing(p) == pc[p] \in {"writing", "renaming"}
InUse == {target} \cup {temp[t] : t \in Txs} \cup {handle[p] : p \in {q \in Procs : Writing(q)}}

Goto(p, l) == pc' = [pc EXCEPT ![p] = l]
Answer(p, r) == Goto(p, "idle") /\ report' = [report EXCEPT ![p] = r]

Init ==
    /\ target \in Inodes
    /\ content = [i \in Inodes |-> IF i = target THEN {{}} ELSE {}]
    /\ temp = [t \in Txs |-> None]
    /\ seen = [t \in Txs |-> {}]
    /\ proposed = {}
    /\ shared = FALSE
    /\ unchecked = FALSE
    /\ pc = [p \in Procs |-> "idle"]
    /\ kind = [p \in Procs |-> "python"]
    /\ tx = [p \in Procs |-> CHOOSE t \in Txs : TRUE]
    /\ before = [p \in Procs |-> {}]
    /\ peek = [p \in Procs |-> {}]
    /\ base = [p \in Procs |-> {}]
    /\ handle = [p \in Procs |-> None]
    /\ report = [p \in Procs |-> "none"]
    /\ runs = 0

\* A caller reads the graph and its hash, with one of the two programs, and
\* makes a proposal for it.
Propose(t) ==
    /\ t \notin proposed
    /\ \E g \in Graphs :
         /\ Holds(g)
         /\ seen' = [seen EXCEPT ![t] = g]
    /\ proposed' = proposed \cup {t}
    /\ UNCHANGED <<disk, local, shared, unchecked, pc, report, runs>>

\* A command, for a proposal whose earlier runs may have ended any way.
Begin(p, k, t) ==
    /\ pc[p] = "idle"
    /\ t \in proposed
    /\ runs < MaxRuns
    /\ runs' = runs + 1
    /\ kind' = [kind EXCEPT ![p] = k]
    /\ tx' = [tx EXCEPT ![p] = t]
    /\ Goto(p, IF k = "native" THEN "keeping" ELSE "loading")
    /\ UNCHANGED <<disk, seen, proposed, shared, unchecked, before, peek, base, handle, report>>

\* before_bytes: the wrapper reads them first, transact_graph_file after the graph.
Keep(p) ==
    /\ pc[p] = "keeping"
    /\ before' = [before EXCEPT ![p] = content[target]]
    /\ Goto(p, IF kind[p] = "native" THEN "peeking" ELSE "deciding")
    /\ UNCHANGED <<disk, users, kind, tx, peek, base, handle, shared, unchecked, report>>

\* The wrapper's own read_graph, from which it predicts the outcome.
Peek(p) ==
    /\ pc[p] = "peeking"
    /\ \/ \E g \in Graphs :
            /\ Reads(g)
            /\ peek' = [peek EXCEPT ![p] = g]
            /\ Goto(p, "loading")
            /\ UNCHANGED report
       \/ /\ Unreadable
          /\ Answer(p, "error")
          /\ UNCHANGED peek
    /\ UNCHANGED <<disk, users, kind, tx, before, base, handle, shared, unchecked>>

\* read_graph, or load_reason_graph: the native program makes some of the checks
\* of validate_graph, so that of another graph it may take it or not.
Load(p) ==
    /\ pc[p] = "loading"
    /\ \/ \E g \in Graphs :
            /\ Holds(g) /\ (kind[p] = "python" => g \in Valid)
            /\ base' = [base EXCEPT ![p] = g]
            /\ Goto(p, IF kind[p] = "native" THEN "deciding" ELSE "keeping")
            /\ UNCHANGED report
       \/ /\ Unreadable
          /\ Answer(p, "error")
          /\ UNCHANGED base
    /\ UNCHANGED <<disk, users, kind, tx, before, peek, handle, shared, unchecked>>

SlipAcceptable(p) == TRUE      \* Slip: the expected hash is not compared.

\* expected_graph_hash, and in Python validate_graph of the candidate.  Other
\* rejections, of the identifier or of the proposal, end like a stale hash.
Acceptable(p) ==
    /\ base[p] = seen[tx[p]]
    /\ kind[p] = "python" => Candidate(p) \in Valid

Decide(p) ==
    /\ pc[p] = "deciding"
    /\ Goto(p, IF Acceptable(p) THEN "opening" ELSE "refused")
    /\ unchecked' = (unchecked \/ (Acceptable(p) /\ Candidate(p) \notin Valid))
    /\ UNCHANGED <<disk, users, local, shared, report>>

\* The wrapper predicts what the Python transaction makes of the graph it read.
Predicted(p) == peek[p] = seen[tx[p]] /\ peek[p] \cup {tx[p]} \in Valid

\* A rejection is reported once the file is seen to be what it was, by the
\* wrapper also only if it predicted one.
Refuse(p) ==
    /\ pc[p] = "refused"
    /\ Answer(p, IF before[p] # content[target] \/ (kind[p] = "native" /\ Predicted(p))
                 THEN "error" ELSE "rejected")
    /\ UNCHANGED <<disk, users, local, shared, unchecked>>

SlipName(p) == CHOOSE t \in Txs : TRUE    \* Slip: one temporary name for the file.

\* Temporary files are told apart by the transaction they are named after.
Name(p) == tx[p]

\* A new private file, or the file under the transaction's temporary name,
\* created if there is none and truncated if there is.
OpenNew(p, i) ==
    /\ i \notin InUse
    /\ kind[p] = "python" \/ temp[Name(p)] = None
    /\ content' = [content EXCEPT ![i] = {}]
    /\ temp' = IF kind[p] = "python" THEN temp ELSE [temp EXCEPT ![Name(p)] = i]
    /\ handle' = [handle EXCEPT ![p] = i]

OpenOld(p) ==
    /\ kind[p] = "native" /\ temp[Name(p)] # None
    /\ content' = [content EXCEPT ![temp[Name(p)]] = {}]
    /\ handle' = [handle EXCEPT ![p] = temp[Name(p)]]
    /\ UNCHANGED temp

Sharing(p) ==
    /\ kind[p] = "native"
    /\ \E q \in Procs : q # p /\ Writing(q) /\ kind[q] = "native" /\ tx[q] = tx[p]

Open(p) ==
    /\ pc[p] = "opening"
    /\ OpenOld(p) \/ \E i \in Inodes : OpenNew(p, i)
    /\ shared' = (shared \/ Sharing(p))
    /\ Goto(p, "writing")
    /\ UNCHANGED <<target, users, kind, tx, before, peek, base, unchecked, report>>

Write(p) ==
    /\ pc[p] = "writing"
    /\ content' = [content EXCEPT ![handle[p]] = @ \cup {Candidate(p)}]
    /\ Goto(p, "renaming")
    /\ UNCHANGED <<target, temp, users, local, shared, unchecked, report>>

SlipMoved(p) == temp    \* Slip: the file is linked, its old name stays.

Moved(p) == [temp EXCEPT ![Name(p)] = None]

\* os.replace ends the Python command; the native program goes on.
Rename(p) ==
    /\ pc[p] = "renaming"
    /\ \/ /\ kind[p] = "python"
          /\ target' = handle[p]
          /\ Answer(p, "committed")
          /\ UNCHANGED temp
       \/ /\ kind[p] = "native" /\ temp[Name(p)] # None
          /\ target' = temp[Name(p)]
          /\ temp' = Moved(p)
          /\ Goto(p, "cleaning")
          /\ UNCHANGED report
    /\ UNCHANGED <<content, users, local, shared, unchecked>>

\* The native program removes what is under the temporary name, also when the
\* rename has just taken its own file away from there.
Removed(p) == IF kind[p] = "native" THEN [temp EXCEPT ![Name(p)] = None] ELSE temp

Clean(p) ==
    /\ pc[p] = "cleaning"
    /\ temp' = Removed(p)
    /\ Goto(p, "checking")
    /\ UNCHANGED <<content, target, users, local, shared, unchecked, report>>

\* The wrapper compares the outcomes, RGO-NATIVE-TX-002 if it predicted none,
\* then reads the file again and compares the three hashes.
Check(p) ==
    /\ pc[p] = "checking"
    /\ Answer(p, IF Predicted(p) /\ Reads(Candidate(p)) THEN "committed" ELSE "error")
    /\ UNCHANGED <<disk, users, local, shared, unchecked>>

\* An I/O error, of which a rename without a temporary file is one.
Fail(p) ==
    /\ pc[p] \in {"opening", "writing", "renaming"}
    /\ temp' = Removed(p)
    /\ Answer(p, "error")
    /\ UNCHANGED <<content, target, users, local, shared, unchecked>>

\* The process is killed; its temporary file stays.
Die(p) ==
    /\ pc[p] # "idle"
    /\ Answer(p, "none")
    /\ UNCHANGED <<disk, users, local, shared, unchecked>>

Step(p) ==
    \/ Keep(p) \/ Peek(p) \/ Load(p) \/ Decide(p) \/ Refuse(p)
    \/ Open(p) \/ Write(p) \/ Rename(p) \/ Clean(p) \/ Check(p)
    \/ Fail(p) \/ Die(p)

Done == runs = MaxRuns /\ (\A p \in Procs : pc[p] = "idle") /\ UNCHANGED vars

Next ==
    \/ \E t \in Txs : Propose(t)
    \/ \E p \in Procs, k \in Kinds, t \in Txs : Begin(p, k, t)
    \/ \E p \in Procs : Step(p)
    \/ Done

Spec == Init /\ [][Next]_vars

-----------------------------------------------------------------------------

Labels == {"idle", "keeping", "peeking", "loading", "deciding", "refused",
           "opening", "writing", "renaming", "cleaning", "checking"}

\* Types; a file has one name, and a process that writes has one open.
TypeOK ==
    /\ content \in [Inodes -> SUBSET Graphs]
    /\ target \in Inodes
    /\ temp \in [Txs -> Inodes \cup {None}]
    /\ seen \in [Txs -> Graphs]
    /\ proposed \in SUBSET Txs
    /\ shared \in BOOLEAN /\ unchecked \in BOOLEAN
    /\ pc \in [Procs -> Labels]
    /\ kind \in [Procs -> Kinds]
    /\ tx \in [Procs -> Txs]
    /\ before \in [Procs -> SUBSET Graphs]
    /\ peek \in [Procs -> Graphs]
    /\ base \in [Procs -> Graphs]
    /\ handle \in [Procs -> Inodes \cup {None}]
    /\ report \in [Procs -> {"none", "committed", "rejected", "error"}]
    /\ runs \in 0 .. MaxRuns
    /\ \A p \in Procs : Writing(p) => handle[p] \in Inodes
    /\ \A t \in Txs : temp[t] # target
    /\ \A t, u \in Txs : temp[t] = temp[u] => t = u \/ temp[t] = None

\* Whoever is killed or fails wherever, the file is one graph written in full at
\* every moment: "publication without partial writes".  The exception is exact:
\* two native programs for one transaction at once, where the first renames what
\* the second has just opened, or the second truncates what the first renames.
\* Python can read the file too, whatever Python commands do to it, as long as no
\* native program has accepted a candidate that validate_graph objects to: that
\* is published before the wrapper compares the outcomes.
WholeUnlessShared ==
    /\ shared \/ \E g \in Graphs : Holds(g)
    /\ shared \/ unchecked \/ ~Unreadable

\* A whole file is the first graph or a graph somebody proposed: the graph the
\* proposal was computed against with its changes, applied to nothing older or
\* newer and never on top of itself, however often the transaction is run again
\* after an answer that was lost.
ProposalsApplyToWhatTheySaw ==
    \A g \in Graphs :
        Holds(g) => \/ g = {}
                    \/ \E t \in proposed : t \notin seen[t] /\ g = seen[t] \cup {t}
=============================================================================
