----------------------- MODULE GraphTransaction_proofs -----------------------
(***************************************************************************)
(* Proofs about GraphTransaction, for every number of processes, of        *)
(* transactions, of files and of commands.                                 *)
(*                                                                         *)
(* None of the three invariants is inductive.  PrivateFiles adds that the  *)
(* file a Python command writes has no name another step can reach;        *)
(* OwnFiles adds the same of a native program, as long as no two of them   *)
(* have written for one transaction; Checked that, as long as no native    *)
(* program has accepted an invalid candidate, no file holds an invalid     *)
(* graph and nobody is about to write one; Provenance follows the hash     *)
(* from the proposal through the decision to the bytes written.            *)
(***************************************************************************)
EXTENDS GraphTransaction, TLAPS

PrivateFiles ==
    \A p \in Procs : (Writing(p) /\ kind[p] = "python") =>
        /\ handle[p] # target
        /\ \A t \in Txs : handle[p] # temp[t]
        /\ \A q \in Procs : q # p /\ Writing(q) => handle[q] # handle[p]

NativeWriting(p) == Writing(p) /\ kind[p] = "native"

OwnFiles ==
    /\ \E g \in Graphs : Holds(g)
    /\ \A p \in Procs : NativeWriting(p) =>
         /\ handle[p] # target
         /\ temp[tx[p]] \in {handle[p], None}
         /\ \A t \in Txs : temp[t] = handle[p] => t = tx[p]
    /\ \A p, q \in Procs : (p # q /\ NativeWriting(p) /\ NativeWriting(q)) =>
         tx[p] # tx[q] /\ handle[p] # handle[q]
    /\ \A p \in Procs : pc[p] = "writing" => content[handle[p]] = {}
    /\ \A p \in Procs : pc[p] = "renaming" => content[handle[p]] = {Candidate(p)}

\* The processes whose candidate was accepted.
Accepted(p) == pc[p] \in {"opening", "writing", "renaming"}

Checked ==
    ~unchecked =>
      /\ \A i \in Inodes : content[i] \subseteq Valid
      /\ \A p \in Procs : Accepted(p) => Candidate(p) \in Valid

FileInvariant == TypeOK /\ PrivateFiles /\ (~shared => OwnFiles)

Legitimate(g) ==
    g = {} \/ \E t \in proposed : t \notin seen[t] /\ g = seen[t] \cup {t}

Provenance ==
    /\ \A i \in Inodes : \A g \in content[i] : Legitimate(g)
    /\ \A t \in proposed : seen[t] \subseteq proposed \ {t}
    /\ \A p \in Procs : pc[p] # "idle" => tx[p] \in proposed
    /\ \A p \in Procs : pc[p] \in {"opening", "writing", "renaming"} => base[p] = seen[tx[p]]

-----------------------------------------------------------------------------
(* Type correctness.                                                         *)

LEMMA InitTypeOK == Init => TypeOK
<1> SUFFICES ASSUME Init PROVE TypeOK
  OBVIOUS
<1>1. content \in [Inodes -> SUBSET Graphs] /\ seen \in [Txs -> Graphs]
  BY DEF Init, Graphs
<1>2. (CHOOSE t \in Txs : TRUE) \in Txs
  BY TxsAssumption
<1>3. tx \in [Procs -> Txs] /\ kind \in [Procs -> Kinds] /\ pc \in [Procs -> Labels]
  BY <1>2 DEF Init, Kinds, Labels
<1>4. /\ before \in [Procs -> SUBSET Graphs] /\ peek \in [Procs -> Graphs]
      /\ base \in [Procs -> Graphs]
  BY DEF Init, Graphs
<1>5. \A t \in Txs : temp[t] # target /\ temp[t] = None
  BY NoneAssumption DEF Init
<1>6. \A p \in Procs : ~Writing(p)
  BY DEF Init, Writing
<1>7. /\ target \in Inodes /\ temp \in [Txs -> Inodes \cup {None}]
      /\ proposed \in SUBSET Txs /\ shared \in BOOLEAN /\ unchecked \in BOOLEAN
  BY DEF Init
<1>8. /\ handle \in [Procs -> Inodes \cup {None}]
      /\ report \in [Procs -> {"none", "committed", "rejected", "error"}]
      /\ runs \in 0 .. MaxRuns
  BY RunsAssumption DEF Init
<1> QED
  BY <1>1, <1>3, <1>4, <1>5, <1>6, <1>7, <1>8 DEF TypeOK

\* A step that names, renames and opens nothing keeps the names apart: at most
\* it takes names away, and it starts no writing.
LEMMA KeepsNames ==
  ASSUME TypeOK, UNCHANGED <<target, handle>>,
         temp' \in [Txs -> Inodes \cup {None}],
         \A t \in Txs : temp'[t] \in {temp[t], None},
         \A p \in Procs : Writing(p)' => Writing(p)
  PROVE  /\ handle' \in [Procs -> Inodes \cup {None}]
         /\ \A p \in Procs : Writing(p)' => handle'[p] \in Inodes
         /\ \A t \in Txs : temp'[t] # target'
         /\ \A t, u \in Txs : temp'[t] = temp'[u] => t = u \/ temp'[t] = None
  BY NoneAssumption DEF TypeOK

LEMMA CandidateIsGraph ==
  ASSUME TypeOK, NEW p \in Procs
  PROVE  Candidate(p) \in Graphs
  BY DEF TypeOK, Candidate, Graphs


\* The label and the answer a step leaves behind are of their types.
LEMMA GotoTypes ==
  ASSUME TypeOK, NEW p \in Procs, NEW l \in Labels, Goto(p, l)
  PROVE  pc' \in [Procs -> Labels]
  BY DEF TypeOK, Goto

LEMMA AnswerTypes ==
  ASSUME TypeOK, NEW p \in Procs,
         NEW r \in {"none", "committed", "rejected", "error"}, Answer(p, r)
  PROVE  /\ pc' \in [Procs -> Labels]
         /\ report' \in [Procs -> {"none", "committed", "rejected", "error"}]
  BY DEF TypeOK, Answer, Goto, Labels

LEMMA ProposeTypeOK ==
  ASSUME TypeOK, NEW t \in Txs, Propose(t)
  PROVE  TypeOK'
<1>1. seen' \in [Txs -> Graphs] /\ proposed' \in SUBSET Txs
  BY DEF TypeOK, Propose
<1>2. UNCHANGED <<disk, local, shared, unchecked, pc, report, runs>>
  BY DEF Propose
<1>3. \A p \in Procs : Writing(p)' => Writing(p)
  BY <1>2 DEF Writing
<1> QED
  BY <1>1, <1>2, <1>3, KeepsNames DEF TypeOK, disk, local

LEMMA BeginTypeOK ==
  ASSUME TypeOK, NEW p \in Procs, NEW k \in Kinds, NEW t \in Txs, Begin(p, k, t)
  PROVE  TypeOK'
<1>1. kind' \in [Procs -> Kinds] /\ tx' \in [Procs -> Txs] /\ runs' \in 0 .. MaxRuns
  BY RunsAssumption DEF TypeOK, Begin
<1>2. pc' \in [Procs -> Labels]
  BY GotoTypes DEF Begin, Labels
<1>3. UNCHANGED <<disk, seen, proposed, shared, unchecked, before, peek, base, handle, report>>
  BY DEF Begin
<1>4. \A q \in Procs : Writing(q)' => Writing(q)
  BY DEF TypeOK, Begin, Goto, Writing
<1> QED
  BY <1>1, <1>2, <1>3, <1>4, KeepsNames DEF TypeOK, disk

LEMMA KeepTypeOK ==
  ASSUME TypeOK, NEW p \in Procs, Keep(p)
  PROVE  TypeOK'
<1>1. before' \in [Procs -> SUBSET Graphs]
  BY DEF TypeOK, Keep
<1>2. pc' \in [Procs -> Labels]
  BY GotoTypes DEF Keep, Labels
<1>3. UNCHANGED <<disk, users, kind, tx, peek, base, handle, shared, unchecked, report>>
  BY DEF Keep
<1>4. \A q \in Procs : Writing(q)' => Writing(q)
  BY DEF TypeOK, Keep, Goto, Writing
<1> QED
  BY <1>1, <1>2, <1>3, <1>4, KeepsNames DEF TypeOK, disk, users

LEMMA PeekTypeOK ==
  ASSUME TypeOK, NEW p \in Procs, Peek(p)
  PROVE  TypeOK'
<1>1. peek' \in [Procs -> Graphs]
  BY DEF TypeOK, Peek
<1>2. /\ pc' \in [Procs -> Labels]
      /\ report' \in [Procs -> {"none", "committed", "rejected", "error"}]
  BY GotoTypes, AnswerTypes DEF Peek, Labels, TypeOK
<1>3. UNCHANGED <<disk, users, kind, tx, before, base, handle, shared, unchecked>>
  BY DEF Peek
<1>4. \A q \in Procs : Writing(q)' => Writing(q)
  BY DEF TypeOK, Peek, Answer, Goto, Writing
<1> QED
  BY <1>1, <1>2, <1>3, <1>4, KeepsNames DEF TypeOK, disk, users

LEMMA LoadTypeOK ==
  ASSUME TypeOK, NEW p \in Procs, Load(p)
  PROVE  TypeOK'
<1>1. base' \in [Procs -> Graphs]
  BY DEF TypeOK, Load
<1>2. /\ pc' \in [Procs -> Labels]
      /\ report' \in [Procs -> {"none", "committed", "rejected", "error"}]
  BY GotoTypes, AnswerTypes DEF Load, Labels, TypeOK
<1>3. UNCHANGED <<disk, users, kind, tx, before, peek, handle, shared, unchecked>>
  BY DEF Load
<1>4. \A q \in Procs : Writing(q)' => Writing(q)
  BY DEF TypeOK, Load, Answer, Goto, Writing
<1> QED
  BY <1>1, <1>2, <1>3, <1>4, KeepsNames DEF TypeOK, disk, users

LEMMA DecideTypeOK ==
  ASSUME TypeOK, NEW p \in Procs, Decide(p)
  PROVE  TypeOK'
<1>1. pc' \in [Procs -> Labels]
  BY GotoTypes DEF Decide, Labels
<1>2. UNCHANGED <<disk, users, local, shared, report>> /\ unchecked' \in BOOLEAN
  BY DEF Decide, TypeOK
<1>3. \A q \in Procs : Writing(q)' => Writing(q)
  BY DEF TypeOK, Decide, Goto, Writing
<1> QED
  BY <1>1, <1>2, <1>3, KeepsNames DEF TypeOK, disk, users, local

LEMMA RefuseTypeOK ==
  ASSUME TypeOK, NEW p \in Procs, Refuse(p)
  PROVE  TypeOK'
<1>1. /\ pc' \in [Procs -> Labels]
      /\ report' \in [Procs -> {"none", "committed", "rejected", "error"}]
  BY AnswerTypes DEF Refuse
<1>2. UNCHANGED <<disk, users, local, shared, unchecked>>
  BY DEF Refuse
<1>3. \A q \in Procs : Writing(q)' => Writing(q)
  BY DEF TypeOK, Refuse, Answer, Goto, Writing
<1> QED
  BY <1>1, <1>2, <1>3, KeepsNames DEF TypeOK, disk, users, local

LEMMA CheckTypeOK ==
  ASSUME TypeOK, NEW p \in Procs, Check(p)
  PROVE  TypeOK'
<1>1. /\ pc' \in [Procs -> Labels]
      /\ report' \in [Procs -> {"none", "committed", "rejected", "error"}]
  BY AnswerTypes DEF Check
<1>2. UNCHANGED <<disk, users, local, shared, unchecked>>
  BY DEF Check
<1>3. \A q \in Procs : Writing(q)' => Writing(q)
  BY DEF TypeOK, Check, Answer, Goto, Writing
<1> QED
  BY <1>1, <1>2, <1>3, KeepsNames DEF TypeOK, disk, users, local

LEMMA DieTypeOK ==
  ASSUME TypeOK, NEW p \in Procs, Die(p)
  PROVE  TypeOK'
<1>1. /\ pc' \in [Procs -> Labels]
      /\ report' \in [Procs -> {"none", "committed", "rejected", "error"}]
  BY AnswerTypes DEF Die
<1>2. UNCHANGED <<disk, users, local, shared, unchecked>>
  BY DEF Die
<1>3. \A q \in Procs : Writing(q)' => Writing(q)
  BY DEF TypeOK, Die, Answer, Goto, Writing
<1> QED
  BY <1>1, <1>2, <1>3, KeepsNames DEF TypeOK, disk, users, local

\* What is removed under the temporary name was a name of the transaction's.
LEMMA RemovedTakesAway ==
  ASSUME TypeOK, NEW p \in Procs, temp' = Removed(p)
  PROVE  /\ temp' \in [Txs -> Inodes \cup {None}]
         /\ \A t \in Txs : temp'[t] \in {temp[t], None}
  BY DEF TypeOK, Removed, Name

LEMMA CleanTypeOK ==
  ASSUME TypeOK, NEW p \in Procs, Clean(p)
  PROVE  TypeOK'
<1>1. /\ pc' \in [Procs -> Labels]
      /\ report' \in [Procs -> {"none", "committed", "rejected", "error"}]
  BY GotoTypes, AnswerTypes DEF Clean, Labels, TypeOK
<1>2. UNCHANGED <<content, target, users, local, shared, unchecked>> /\ temp' = Removed(p)
  BY DEF Clean
<1>3. \A q \in Procs : Writing(q)' => Writing(q)
  BY DEF TypeOK, Clean, Answer, Goto, Writing
<1> QED
  BY <1>1, <1>2, <1>3, KeepsNames, RemovedTakesAway DEF TypeOK, users, local

LEMMA FailTypeOK ==
  ASSUME TypeOK, NEW p \in Procs, Fail(p)
  PROVE  TypeOK'
<1>1. /\ pc' \in [Procs -> Labels]
      /\ report' \in [Procs -> {"none", "committed", "rejected", "error"}]
  BY GotoTypes, AnswerTypes DEF Fail, Labels, TypeOK
<1>2. UNCHANGED <<content, target, users, local, shared, unchecked>> /\ temp' = Removed(p)
  BY DEF Fail
<1>3. \A q \in Procs : Writing(q)' => Writing(q)
  BY DEF TypeOK, Fail, Answer, Goto, Writing
<1> QED
  BY <1>1, <1>2, <1>3, KeepsNames, RemovedTakesAway DEF TypeOK, users, local

\* A new file is none that has a name or is being written.
LEMMA NewFileIsUnused ==
  ASSUME NEW i \in Inodes \ InUse
  PROVE  /\ i # target
         /\ \A t \in Txs : i # temp[t]
         /\ \A q \in Procs : Writing(q) => i # handle[q]
  BY DEF InUse

LEMMA OpenTypeOK ==
  ASSUME TypeOK, NEW p \in Procs, Open(p)
  PROVE  TypeOK'
<1>1. pc' \in [Procs -> Labels] /\ \A q \in Procs : q # p => pc'[q] = pc[q]
  BY DEF TypeOK, Open, Goto, Labels
<1>2. UNCHANGED <<target, users, kind, tx, before, peek, base, unchecked, report>>
  BY DEF Open
<1>3. shared' \in BOOLEAN
  BY DEF Open, TypeOK, Sharing
<1>4. CASE OpenOld(p)
  <2>1. temp[Name(p)] \in Inodes
    BY <1>4 DEF TypeOK, OpenOld, Name
  <2>2. content' \in [Inodes -> SUBSET Graphs]
    BY <1>4, <2>1 DEF TypeOK, OpenOld
  <2>3. handle' \in [Procs -> Inodes \cup {None}] /\ handle'[p] \in Inodes
        /\ \A q \in Procs : q # p => handle'[q] = handle[q]
    BY <1>4, <2>1 DEF TypeOK, OpenOld
  <2>4. temp' = temp
    BY <1>4 DEF OpenOld
  <2> QED
    BY <1>1, <1>2, <1>3, <2>2, <2>3, <2>4 DEF TypeOK, users, Writing
<1>5. CASE \E i \in Inodes : OpenNew(p, i)
  <2>1. PICK i \in Inodes : OpenNew(p, i)
    BY <1>5
  <2>2. content' \in [Inodes -> SUBSET Graphs]
    BY <2>1 DEF TypeOK, OpenNew
  <2>3. handle' \in [Procs -> Inodes \cup {None}] /\ handle'[p] \in Inodes
        /\ \A q \in Procs : q # p => handle'[q] = handle[q]
    BY <2>1 DEF TypeOK, OpenNew
  <2>4. i # target /\ \A t \in Txs : i # temp[t]
    BY <2>1, NewFileIsUnused DEF OpenNew
  <2>5. temp' \in [Txs -> Inodes \cup {None}]
    BY <2>1 DEF TypeOK, OpenNew, Name
  <2>6. \A t \in Txs : temp'[t] # target'
    BY <1>2, <2>1, <2>4 DEF TypeOK, OpenNew, Name
  <2>7. \A t, u \in Txs : temp'[t] = temp'[u] => t = u \/ temp'[t] = None
    BY <2>1, <2>4 DEF TypeOK, OpenNew, Name
  <2> QED
    BY <1>1, <1>2, <1>3, <2>2, <2>3, <2>5, <2>6, <2>7 DEF TypeOK, users, Writing
<1> QED
  BY <1>4, <1>5 DEF Open

LEMMA WriteTypeOK ==
  ASSUME TypeOK, NEW p \in Procs, Write(p)
  PROVE  TypeOK'
<1>1. pc' \in [Procs -> Labels]
  BY GotoTypes DEF Write, Labels
<1>2. UNCHANGED <<target, temp, users, local, shared, unchecked, report>>
  BY DEF Write
<1>3. \A q \in Procs : Writing(q)' => Writing(q)
  BY DEF TypeOK, Write, Goto, Writing
<1>4. content' \in [Inodes -> SUBSET Graphs]
  <2>1. handle[p] \in Inodes
    BY DEF TypeOK, Write, Writing
  <2>2. content[handle[p]] \cup {Candidate(p)} \in SUBSET Graphs
    BY <2>1, CandidateIsGraph DEF TypeOK
  <2> QED
    BY <2>1, <2>2 DEF TypeOK, Write
<1> QED
  BY <1>1, <1>2, <1>3, <1>4, KeepsNames DEF TypeOK, users, local

LEMMA RenameTypeOK ==
  ASSUME TypeOK, PrivateFiles, NEW p \in Procs, Rename(p)
  PROVE  TypeOK'
<1>1. /\ pc' \in [Procs -> Labels]
      /\ report' \in [Procs -> {"none", "committed", "rejected", "error"}]
  BY GotoTypes, AnswerTypes DEF Rename, Labels, TypeOK
<1>2. UNCHANGED <<content, users, local, shared, unchecked>>
  BY DEF Rename
<1>3. \A q \in Procs : Writing(q)' => Writing(q)
  BY DEF TypeOK, Rename, Answer, Goto, Writing
<1>4. /\ target' \in Inodes
      /\ temp' \in [Txs -> Inodes \cup {None}]
      /\ \A t \in Txs : temp'[t] # target'
      /\ \A t, u \in Txs : temp'[t] = temp'[u] => t = u \/ temp'[t] = None
  <2>1. CASE kind[p] = "python"
    <3>1. Writing(p)
      BY DEF Rename, Writing
    <3>2. handle[p] \in Inodes /\ \A t \in Txs : temp[t] # handle[p]
      BY <2>1, <3>1 DEF TypeOK, PrivateFiles
    <3> QED
      BY <2>1, <3>2 DEF TypeOK, Rename
  <2>2. CASE kind[p] = "native"
    <3>1. /\ temp[tx[p]] # None /\ target' = temp[tx[p]]
          /\ temp' = [temp EXCEPT ![tx[p]] = None]
      BY <2>2 DEF Rename, Moved, Name
    <3> QED
      BY <3>1, NoneAssumption DEF TypeOK
  <2> QED
    BY <2>1, <2>2 DEF TypeOK, Kinds
<1> QED
  BY <1>1, <1>2, <1>3, <1>4 DEF TypeOK, users, local

-----------------------------------------------------------------------------
(* The files that are being written.                                         *)

\* The files stay as private as they were through a step that opens, writes and
\* renames nothing, whatever names it takes away and whoever stops writing.
LEMMA QuietFiles ==
  ASSUME FileInvariant, UNCHANGED <<content, target, handle, shared>>,
         temp' \in [Txs -> Inodes \cup {None}],
         \A t \in Txs : temp'[t] \in {temp[t], None},
         \A q \in Procs : Writing(q)' =>
            /\ pc'[q] = pc[q] /\ kind'[q] = kind[q]
            /\ tx'[q] = tx[q] /\ base'[q] = base[q]
  PROVE  PrivateFiles' /\ (~shared' => OwnFiles')
<1>0. \A q \in Procs : Writing(q)' => Writing(q)
  BY DEF Writing
<1>1. \A q \in Procs : Writing(q) => handle[q] \in Inodes
  BY DEF FileInvariant, TypeOK
<1>2. PrivateFiles'
  BY <1>0, <1>1, NoneAssumption DEF FileInvariant, PrivateFiles
<1>3. ASSUME ~shared' PROVE OwnFiles'
  <2>1. OwnFiles
    BY <1>3 DEF FileInvariant
  <2>2. \E g \in Graphs : Holds(g)'
    BY <2>1 DEF OwnFiles, Holds
  <2>3. \A q \in Procs : NativeWriting(q)' =>
          /\ NativeWriting(q) /\ tx'[q] = tx[q] /\ handle'[q] = handle[q]
          /\ handle[q] \in Inodes /\ tx[q] \in Txs
    BY <1>0, <1>1 DEF NativeWriting, FileInvariant, TypeOK
  <2>4. ASSUME NEW q \in Procs, NativeWriting(q)'
        PROVE  /\ handle'[q] # target'
               /\ temp'[tx'[q]] \in {handle'[q], None}
               /\ \A t \in Txs : temp'[t] = handle'[q] => t = tx'[q]
    BY <2>1, <2>3, <2>4, NoneAssumption DEF OwnFiles
  <2>5. \A p, q \in Procs : (p # q /\ NativeWriting(p)' /\ NativeWriting(q)') =>
          tx'[p] # tx'[q] /\ handle'[p] # handle'[q]
    BY <2>1, <2>3 DEF OwnFiles
  <2>6. \A q \in Procs :
          /\ pc'[q] = "writing" => content'[handle'[q]] = {}
          /\ pc'[q] = "renaming" => content'[handle'[q]] = {Candidate(q)'}
    BY <2>1 DEF OwnFiles, Writing, Candidate
  <2> QED
    BY <2>2, <2>4, <2>5, <2>6 DEF OwnFiles
<1> QED
  BY <1>2, <1>3

LEMMA ProposeFiles ==
  ASSUME FileInvariant, NEW t \in Txs, Propose(t)
  PROVE  FileInvariant'
<1>1. UNCHANGED <<disk, local, shared, pc>>
  BY DEF Propose
<1>2. TypeOK'
  BY ProposeTypeOK DEF FileInvariant
<1>3. PrivateFiles' /\ (~shared' => OwnFiles')
  BY <1>1, QuietFiles DEF FileInvariant, TypeOK, disk, local, Writing
<1> QED
  BY <1>2, <1>3 DEF FileInvariant

LEMMA BeginFiles ==
  ASSUME FileInvariant, NEW p \in Procs, NEW k \in Kinds, NEW t \in Txs, Begin(p, k, t)
  PROVE  FileInvariant'
<1>1. /\ UNCHANGED <<disk, shared, base, handle>>
  BY DEF Begin
<1>2. TypeOK'
  BY BeginTypeOK DEF FileInvariant
<1>3. /\ ~Writing(p)'
      /\ \A q \in Procs : q # p => pc'[q] = pc[q] /\ tx'[q] = tx[q] /\ kind'[q] = kind[q] /\ base'[q] = base[q]
  BY <1>1 DEF FileInvariant, TypeOK, Begin, Goto, Writing, local
<1>4. PrivateFiles' /\ (~shared' => OwnFiles')
  BY <1>1, <1>3, QuietFiles DEF FileInvariant, TypeOK, disk, local, Writing
<1> QED
  BY <1>2, <1>4 DEF FileInvariant

LEMMA KeepFiles ==
  ASSUME FileInvariant, NEW p \in Procs, Keep(p)
  PROVE  FileInvariant'
<1>1. /\ UNCHANGED <<disk, kind, tx, base, handle, shared>>
  BY DEF Keep
<1>2. TypeOK'
  BY KeepTypeOK DEF FileInvariant
<1>3. /\ ~Writing(p)'
      /\ \A q \in Procs : q # p => pc'[q] = pc[q] /\ tx'[q] = tx[q] /\ kind'[q] = kind[q] /\ base'[q] = base[q]
  BY <1>1 DEF FileInvariant, TypeOK, Keep, Goto, Writing, local
<1>4. PrivateFiles' /\ (~shared' => OwnFiles')
  BY <1>1, <1>3, QuietFiles DEF FileInvariant, TypeOK, disk, local, Writing
<1> QED
  BY <1>2, <1>4 DEF FileInvariant

LEMMA PeekFiles ==
  ASSUME FileInvariant, NEW p \in Procs, Peek(p)
  PROVE  FileInvariant'
<1>1. /\ UNCHANGED <<disk, kind, tx, base, handle, shared>>
  BY DEF Peek
<1>2. TypeOK'
  BY PeekTypeOK DEF FileInvariant
<1>3. /\ ~Writing(p)'
      /\ \A q \in Procs : q # p => pc'[q] = pc[q] /\ tx'[q] = tx[q] /\ kind'[q] = kind[q] /\ base'[q] = base[q]
  BY <1>1 DEF FileInvariant, TypeOK, Peek, Answer, Goto, Writing, local
<1>4. PrivateFiles' /\ (~shared' => OwnFiles')
  BY <1>1, <1>3, QuietFiles DEF FileInvariant, TypeOK, disk, local, Writing
<1> QED
  BY <1>2, <1>4 DEF FileInvariant

LEMMA LoadFiles ==
  ASSUME FileInvariant, NEW p \in Procs, Load(p)
  PROVE  FileInvariant'
<1>1. /\ UNCHANGED <<disk, kind, tx, handle, shared>>
  BY DEF Load
<1>2. TypeOK'
  BY LoadTypeOK DEF FileInvariant
<1>3. /\ ~Writing(p)'
      /\ \A q \in Procs : q # p => pc'[q] = pc[q] /\ tx'[q] = tx[q] /\ kind'[q] = kind[q] /\ base'[q] = base[q]
  BY <1>1 DEF FileInvariant, TypeOK, Load, Answer, Goto, Writing, local
<1>4. PrivateFiles' /\ (~shared' => OwnFiles')
  BY <1>1, <1>3, QuietFiles DEF FileInvariant, TypeOK, disk, local, Writing
<1> QED
  BY <1>2, <1>4 DEF FileInvariant

LEMMA DecideFiles ==
  ASSUME FileInvariant, NEW p \in Procs, Decide(p)
  PROVE  FileInvariant'
<1>1. /\ UNCHANGED <<disk, local, shared>>
  BY DEF Decide
<1>2. TypeOK'
  BY DecideTypeOK DEF FileInvariant
<1>3. /\ ~Writing(p)'
      /\ \A q \in Procs : q # p => pc'[q] = pc[q] /\ tx'[q] = tx[q] /\ kind'[q] = kind[q] /\ base'[q] = base[q]
  BY <1>1 DEF FileInvariant, TypeOK, Decide, Goto, Writing, local
<1>4. PrivateFiles' /\ (~shared' => OwnFiles')
  BY <1>1, <1>3, QuietFiles DEF FileInvariant, TypeOK, disk, local, Writing
<1> QED
  BY <1>2, <1>4 DEF FileInvariant

LEMMA RefuseFiles ==
  ASSUME FileInvariant, NEW p \in Procs, Refuse(p)
  PROVE  FileInvariant'
<1>1. /\ UNCHANGED <<disk, local, shared>>
  BY DEF Refuse
<1>2. TypeOK'
  BY RefuseTypeOK DEF FileInvariant
<1>3. /\ ~Writing(p)'
      /\ \A q \in Procs : q # p => pc'[q] = pc[q] /\ tx'[q] = tx[q] /\ kind'[q] = kind[q] /\ base'[q] = base[q]
  BY <1>1 DEF FileInvariant, TypeOK, Refuse, Answer, Goto, Writing, local
<1>4. PrivateFiles' /\ (~shared' => OwnFiles')
  BY <1>1, <1>3, QuietFiles DEF FileInvariant, TypeOK, disk, local, Writing
<1> QED
  BY <1>2, <1>4 DEF FileInvariant

LEMMA CheckFiles ==
  ASSUME FileInvariant, NEW p \in Procs, Check(p)
  PROVE  FileInvariant'
<1>1. /\ UNCHANGED <<disk, local, shared>>
  BY DEF Check
<1>2. TypeOK'
  BY CheckTypeOK DEF FileInvariant
<1>3. /\ ~Writing(p)'
      /\ \A q \in Procs : q # p => pc'[q] = pc[q] /\ tx'[q] = tx[q] /\ kind'[q] = kind[q] /\ base'[q] = base[q]
  BY <1>1 DEF FileInvariant, TypeOK, Check, Answer, Goto, Writing, local
<1>4. PrivateFiles' /\ (~shared' => OwnFiles')
  BY <1>1, <1>3, QuietFiles DEF FileInvariant, TypeOK, disk, local, Writing
<1> QED
  BY <1>2, <1>4 DEF FileInvariant

LEMMA DieFiles ==
  ASSUME FileInvariant, NEW p \in Procs, Die(p)
  PROVE  FileInvariant'
<1>1. /\ UNCHANGED <<disk, local, shared>>
  BY DEF Die
<1>2. TypeOK'
  BY DieTypeOK DEF FileInvariant
<1>3. /\ ~Writing(p)'
      /\ \A q \in Procs : q # p => pc'[q] = pc[q] /\ tx'[q] = tx[q] /\ kind'[q] = kind[q] /\ base'[q] = base[q]
  BY <1>1 DEF FileInvariant, TypeOK, Die, Answer, Goto, Writing, local
<1>4. PrivateFiles' /\ (~shared' => OwnFiles')
  BY <1>1, <1>3, QuietFiles DEF FileInvariant, TypeOK, disk, local, Writing
<1> QED
  BY <1>2, <1>4 DEF FileInvariant

LEMMA CleanFiles ==
  ASSUME FileInvariant, NEW p \in Procs, Clean(p)
  PROVE  FileInvariant'
<1>1. /\ UNCHANGED <<content, target, local, shared>>
      /\ temp' = Removed(p)
  BY DEF Clean
<1>2. TypeOK'
  BY CleanTypeOK DEF FileInvariant
<1>3. /\ ~Writing(p)'
      /\ \A q \in Procs : q # p => pc'[q] = pc[q] /\ tx'[q] = tx[q] /\ kind'[q] = kind[q] /\ base'[q] = base[q]
  BY <1>1 DEF FileInvariant, TypeOK, Clean, Goto, Writing, local
<1>4. PrivateFiles' /\ (~shared' => OwnFiles')
  BY <1>1, <1>3, QuietFiles, RemovedTakesAway DEF FileInvariant, TypeOK, disk, local, Writing
<1> QED
  BY <1>2, <1>4 DEF FileInvariant

LEMMA FailFiles ==
  ASSUME FileInvariant, NEW p \in Procs, Fail(p)
  PROVE  FileInvariant'
<1>1. /\ UNCHANGED <<content, target, local, shared>>
      /\ temp' = Removed(p)
  BY DEF Fail
<1>2. TypeOK'
  BY FailTypeOK DEF FileInvariant
<1>3. /\ ~Writing(p)'
      /\ \A q \in Procs : q # p => pc'[q] = pc[q] /\ tx'[q] = tx[q] /\ kind'[q] = kind[q] /\ base'[q] = base[q]
  BY <1>1 DEF FileInvariant, TypeOK, Fail, Answer, Goto, Writing, local
<1>4. PrivateFiles' /\ (~shared' => OwnFiles')
  BY <1>1, <1>3, QuietFiles, RemovedTakesAway DEF FileInvariant, TypeOK, disk, local, Writing
<1> QED
  BY <1>2, <1>4 DEF FileInvariant

\* Opening gives the process a file no other writer has, unless it is shared.
LEMMA OpenFiles ==
  ASSUME FileInvariant, NEW p \in Procs, Open(p)
  PROVE  FileInvariant'
<1> DEFINE h == handle'[p]
<1>1. /\ UNCHANGED <<target, kind, tx, base>>
      /\ pc'[p] = "writing" /\ \A q \in Procs : q # p => pc'[q] = pc[q]
      /\ ~Writing(p)
  BY DEF FileInvariant, TypeOK, Open, Goto, Writing
<1>2. TypeOK'
  BY OpenTypeOK DEF FileInvariant
<1>3. /\ h \in Inodes /\ h # target
      /\ \A q \in Procs : q # p => handle'[q] = handle[q]
      /\ content' = [content EXCEPT ![h] = {}]
      /\ \A t \in Txs : temp'[t] = temp[t] \/ (t = tx[p] /\ kind[p] = "native" /\ temp'[t] = h)
      /\ kind[p] = "native" => temp'[tx[p]] = h
      /\ \A q \in Procs : q # p /\ Writing(q) /\ kind[q] = "python" => h # handle[q]
      /\ kind[p] = "python" => \A t \in Txs : h # temp[t]
      /\ \/ h = temp[tx[p]] /\ kind[p] = "native"
         \/ \A q \in Procs : Writing(q) => h # handle[q]
  <2>1. CASE OpenOld(p)
    <3>1. h = temp[tx[p]] /\ h \in Inodes /\ kind[p] = "native" /\ temp' = temp
      BY <2>1 DEF FileInvariant, TypeOK, OpenOld, Name
    <3> QED
      BY <2>1, <3>1 DEF FileInvariant, TypeOK, PrivateFiles, OpenOld, Name
  <2>2. CASE \E i \in Inodes : OpenNew(p, i)
    <3>1. PICK i \in Inodes : OpenNew(p, i)
      BY <2>2
    <3>2. h = i /\ i \notin InUse
      BY <3>1 DEF FileInvariant, TypeOK, OpenNew
    <3> QED
      BY <3>1, <3>2, NewFileIsUnused DEF FileInvariant, TypeOK, Kinds, OpenNew, Name
  <2> QED
    BY <2>1, <2>2 DEF Open
<1>4. PrivateFiles'
  <2> SUFFICES ASSUME NEW q \in Procs, Writing(q)', kind[q] = "python"
               PROVE  /\ handle'[q] # target
                      /\ \A t \in Txs : handle'[q] # temp'[t]
                      /\ \A r \in Procs : r # q /\ Writing(r)' => handle'[r] # handle'[q]
    BY <1>1 DEF PrivateFiles
  <2>1. CASE q = p
    BY <1>1, <1>3, <2>1 DEF Writing
  <2>2. CASE q # p
    <3>1. Writing(q)
      BY <1>1, <2>2 DEF Writing
    <3> QED
      BY <1>1, <1>3, <2>2, <3>1 DEF FileInvariant, PrivateFiles, Writing
  <2> QED
    BY <2>1, <2>2
<1>5. ASSUME ~shared' PROVE OwnFiles'
  <2>1. OwnFiles /\ ~Sharing(p)
    BY <1>5 DEF FileInvariant, Open
  <2>2. ASSUME NEW q \in Procs, q # p, NativeWriting(q)
        PROVE  h # handle[q] /\ (kind[p] = "native" => tx[q] # tx[p])
    <3>1. kind[p] = "native" => tx[q] # tx[p]
      BY <2>1, <2>2 DEF Sharing, NativeWriting
    <3>2. tx[p] \in Txs
      BY DEF FileInvariant, TypeOK
    <3> QED
      BY <1>3, <2>1, <2>2, <3>1, <3>2 DEF OwnFiles, NativeWriting
  <2>3. \A q \in Procs : q # p /\ Writing(q) => h # handle[q] /\ handle[q] \in Inodes
    BY <1>3, <2>2 DEF NativeWriting, FileInvariant, TypeOK, Kinds
  <2>4. \E g \in Graphs : Holds(g)'
    BY <1>1, <1>3, <2>1 DEF OwnFiles, Holds, FileInvariant, TypeOK
  <2>5. ASSUME NEW q \in Procs, NativeWriting(q)'
        PROVE  /\ handle'[q] # target'
               /\ temp'[tx'[q]] \in {handle'[q], None}
               /\ \A t \in Txs : temp'[t] = handle'[q] => t = tx'[q]
    <3>1. CASE q = p
      BY <1>1, <1>2, <1>3, <2>5, <3>1, NoneAssumption DEF NativeWriting, TypeOK
    <3>2. CASE q # p
      <4>1. NativeWriting(q)
        BY <1>1, <2>5, <3>2 DEF NativeWriting, Writing
      <4>2. handle'[q] = handle[q] /\ handle[q] # h /\ tx[q] \in Txs
        BY <1>3, <2>2, <3>2, <4>1 DEF FileInvariant, TypeOK
      <4>3. temp'[tx[q]] = temp[tx[q]]
        BY <1>3, <2>2, <3>2, <4>1, <4>2
      <4> QED
        BY <1>1, <1>3, <2>1, <4>1, <4>2, <4>3 DEF OwnFiles
    <3> QED
      BY <3>1, <3>2
  <2>6. ASSUME NEW q \in Procs, NEW r \in Procs, q # r, NativeWriting(q)', NativeWriting(r)'
        PROVE  tx'[q] # tx'[r] /\ handle'[q] # handle'[r]
    BY <1>1, <1>3, <2>1, <2>2, <2>6 DEF OwnFiles, NativeWriting, Writing
  <2>7. ASSUME NEW q \in Procs
        PROVE  /\ pc'[q] = "writing" => content'[handle'[q]] = {}
               /\ pc'[q] = "renaming" => content'[handle'[q]] = {Candidate(q)'}
    <3>1. CASE q = p
      BY <1>1, <1>3, <3>1 DEF FileInvariant, TypeOK
    <3>2. CASE q # p
      BY <1>1, <1>3, <2>1, <2>3, <3>2 DEF OwnFiles, Writing, Candidate, FileInvariant, TypeOK
    <3> QED
      BY <3>1, <3>2
  <2> QED
    BY <2>4, <2>5, <2>6, <2>7 DEF OwnFiles
<1> QED
  BY <1>2, <1>4, <1>5 DEF FileInvariant

\* Under OwnFiles no two writers have one file, whichever command they run.
LEMMA WritersApart ==
  ASSUME FileInvariant, OwnFiles, NEW p \in Procs, NEW q \in Procs, p # q,
         Writing(p), Writing(q)
  PROVE  handle[p] # handle[q] /\ handle[p] # target /\ handle[p] \in Inodes
  BY DEF FileInvariant, PrivateFiles, OwnFiles, NativeWriting, TypeOK, Kinds

LEMMA WriteFiles ==
  ASSUME FileInvariant, NEW p \in Procs, Write(p)
  PROVE  FileInvariant'
<1>1. /\ UNCHANGED <<target, temp, kind, tx, base, handle, shared>>
      /\ pc[p] = "writing" /\ pc'[p] = "renaming"
      /\ \A q \in Procs : q # p => pc'[q] = pc[q]
      /\ content' = [content EXCEPT ![handle[p]] = @ \cup {Candidate(p)}]
  BY DEF FileInvariant, TypeOK, Write, Goto, users, local
<1>2. TypeOK'
  BY WriteTypeOK DEF FileInvariant
<1>3. \A q \in Procs : Writing(q)' <=> Writing(q)
  BY <1>1 DEF Writing
<1>4. PrivateFiles'
  BY <1>1, <1>3 DEF FileInvariant, PrivateFiles
<1>5. ASSUME ~shared' PROVE OwnFiles'
  <2>1. OwnFiles /\ Writing(p)
    BY <1>1, <1>5 DEF FileInvariant, Writing
  <2>2. handle[p] # target /\ handle[p] \in Inodes
    BY <2>1 DEF FileInvariant, PrivateFiles, OwnFiles, NativeWriting, TypeOK, Kinds
  <2>3. \E g \in Graphs : Holds(g)'
    BY <1>1, <2>1, <2>2 DEF OwnFiles, Holds, FileInvariant, TypeOK
  <2>4. \A q \in Procs : NativeWriting(q)' <=> NativeWriting(q)
    BY <1>1, <1>3 DEF NativeWriting
  <2>5. ASSUME NEW q \in Procs
        PROVE  /\ pc'[q] = "writing" => content'[handle'[q]] = {}
               /\ pc'[q] = "renaming" => content'[handle'[q]] = {Candidate(q)'}
    <3>1. CASE q = p
      BY <1>1, <2>1, <2>2, <3>1 DEF OwnFiles, Candidate, FileInvariant, TypeOK
    <3>2. CASE q # p
      <4>1. Writing(q) => handle[q] # handle[p] /\ handle[q] \in Inodes
        BY <2>1, <3>2, WritersApart
      <4> QED
        BY <1>1, <2>1, <3>2, <4>1 DEF OwnFiles, Writing, Candidate, FileInvariant, TypeOK
    <3> QED
      BY <3>1, <3>2
  <2> QED
    BY <1>1, <2>1, <2>3, <2>4, <2>5 DEF OwnFiles
<1> QED
  BY <1>2, <1>4, <1>5 DEF FileInvariant

\* What is renamed is the renamer's own file, written in full.
LEMMA RenameFiles ==
  ASSUME FileInvariant, NEW p \in Procs, Rename(p)
  PROVE  FileInvariant'
<1>1. /\ UNCHANGED <<content, kind, tx, base, handle, shared>>
      /\ pc[p] = "renaming" /\ Writing(p) /\ ~Writing(p)'
      /\ \A q \in Procs : q # p => pc'[q] = pc[q]
  BY DEF FileInvariant, TypeOK, Rename, Answer, Goto, users, local, Writing
<1>2. TypeOK'
  BY RenameTypeOK DEF FileInvariant
<1>3. \A q \in Procs : Writing(q)' => q # p /\ Writing(q) /\ handle[q] \in Inodes
  BY <1>1 DEF Writing, FileInvariant, TypeOK
<1>4. /\ \A t \in Txs : temp'[t] \in {temp[t], None}
      /\ \/ target' = handle[p] /\ kind[p] = "python"
         \/ target' = temp[tx[p]] /\ temp[tx[p]] # None /\ kind[p] = "native"
  BY DEF Rename, Moved, Name, FileInvariant, TypeOK
<1>5. tx[p] \in Txs
  BY DEF FileInvariant, TypeOK
<1>6. PrivateFiles'
  <2> SUFFICES ASSUME NEW q \in Procs, Writing(q)', kind[q] = "python"
               PROVE  /\ handle[q] # target'
                      /\ \A t \in Txs : handle[q] # temp'[t]
                      /\ \A r \in Procs : r # q /\ Writing(r)' => handle[r] # handle[q]
    BY <1>1 DEF PrivateFiles
  <2> QED
    BY <1>1, <1>3, <1>4, <1>5, NoneAssumption DEF FileInvariant, PrivateFiles
<1>7. ASSUME ~shared' PROVE OwnFiles'
  <2>1. OwnFiles
    BY <1>1, <1>7 DEF FileInvariant
  <2>2. target' = handle[p]
    BY <1>1, <1>4, <2>1 DEF OwnFiles, NativeWriting
  <2>3. \E g \in Graphs : Holds(g)'
    BY <1>1, <2>1, <2>2, CandidateIsGraph DEF OwnFiles, Holds, FileInvariant
  <2>4. \A q \in Procs : NativeWriting(q)' =>
          q # p /\ NativeWriting(q) /\ handle[q] # handle[p] /\ tx[q] \in Txs
    BY <1>1, <1>3, <2>1, WritersApart DEF NativeWriting, FileInvariant, TypeOK
  <2>5. ASSUME NEW q \in Procs, NativeWriting(q)'
        PROVE  /\ handle'[q] # target'
               /\ temp'[tx'[q]] \in {handle'[q], None}
               /\ \A t \in Txs : temp'[t] = handle'[q] => t = tx'[q]
    BY <1>1, <1>3, <1>4, <2>1, <2>2, <2>4, <2>5, NoneAssumption DEF OwnFiles, NativeWriting
  <2> QED
    BY <1>1, <1>3, <2>1, <2>3, <2>4, <2>5 DEF OwnFiles, Writing, Candidate
<1> QED
  BY <1>2, <1>6, <1>7 DEF FileInvariant

LEMMA InitFiles == Init => FileInvariant
<1> SUFFICES ASSUME Init PROVE FileInvariant
  OBVIOUS
<1>1. \A p \in Procs : ~Writing(p) /\ pc[p] = "idle"
  BY DEF Init, Writing
<1>2. Holds({}) /\ {} \in Graphs
  BY DEF Init, Holds, Graphs
<1>3. PrivateFiles /\ OwnFiles
  BY <1>1, <1>2 DEF PrivateFiles, OwnFiles, NativeWriting
<1> QED
  BY <1>3, InitTypeOK DEF FileInvariant

LEMMA StutterFiles == FileInvariant /\ UNCHANGED vars => FileInvariant'
  BY DEF FileInvariant, TypeOK, PrivateFiles, OwnFiles, NativeWriting, Writing,
         Holds, Candidate, vars, disk, users, local

LEMMA NextFiles == FileInvariant /\ [Next]_vars => FileInvariant'
<1> SUFFICES ASSUME FileInvariant, [Next]_vars PROVE FileInvariant'
  OBVIOUS
<1>1. ASSUME NEW t \in Txs, Propose(t) PROVE FileInvariant'
  BY <1>1, ProposeFiles
<1>2. ASSUME NEW p \in Procs, NEW k \in Kinds, NEW t \in Txs, Begin(p, k, t)
      PROVE  FileInvariant'
  BY <1>2, BeginFiles
<1>3. ASSUME NEW p \in Procs, Step(p) PROVE FileInvariant'
  BY <1>3, KeepFiles, PeekFiles, LoadFiles, DecideFiles, RefuseFiles, OpenFiles,
     WriteFiles, RenameFiles, CleanFiles, CheckFiles, FailFiles, DieFiles DEF Step
<1>4. CASE Done
  BY <1>4, StutterFiles DEF Done
<1>5. CASE UNCHANGED vars
  BY <1>5, StutterFiles
<1> QED
  BY <1>1, <1>2, <1>3, <1>4, <1>5 DEF Next

\* FileInvariant holds in every reachable state, whatever processes are killed,
\* fail or are run again.
THEOREM FilesSound == Spec => []FileInvariant
<1> QED
  BY InitFiles, NextFiles, PTL DEF Spec

\* Every variable keeps its type, and no file ever has two names.
THEOREM TypesSound == Spec => []TypeOK
<1>1. FileInvariant => TypeOK
  BY DEF FileInvariant
<1> QED
  BY <1>1, FilesSound, PTL

-----------------------------------------------------------------------------
(* What is written without native programs that accept invalid candidates.   *)

LEMMA InitChecked == Init => Checked
<1> SUFFICES ASSUME Init PROVE Checked
  OBVIOUS
<1>1. /\ \A i \in Inodes : content[i] \subseteq {{}}
      /\ \A p \in Procs : pc[p] = "idle"
  BY DEF Init
<1> QED
  BY <1>1, ValidAssumption DEF Checked, Accepted

\* A step that neither decides nor writes adds no graph to a file and no
\* process to those that have accepted a candidate.
LEMMA KeepsChecked ==
  ASSUME Checked, unchecked' = unchecked,
         \A i \in Inodes : content'[i] \subseteq content[i],
         \A q \in Procs : Accepted(q)' =>
            Accepted(q) /\ base'[q] = base[q] /\ tx'[q] = tx[q]
  PROVE  Checked'
  BY DEF Checked, Candidate

LEMMA DecideChecked ==
  ASSUME TypeOK, Checked, NEW p \in Procs, Decide(p)
  PROVE  Checked'
<1>1. /\ UNCHANGED <<content, base, tx>>
      /\ unchecked' = (unchecked \/ (Acceptable(p) /\ Candidate(p) \notin Valid))
      /\ \A q \in Procs : q # p => pc'[q] = pc[q]
      /\ Accepted(p)' => Acceptable(p)
  BY DEF Decide, Goto, Accepted, TypeOK, disk, local
<1>2. ASSUME ~unchecked', NEW q \in Procs, Accepted(q)'
      PROVE  Candidate(q) \in Valid
  BY <1>1, <1>2 DEF Checked, Accepted
<1>3. \A q \in Procs : Candidate(q)' = Candidate(q)
  BY <1>1 DEF Candidate
<1> QED
  BY <1>1, <1>2, <1>3 DEF Checked

LEMMA WriteChecked ==
  ASSUME TypeOK, Checked, NEW p \in Procs, Write(p)
  PROVE  Checked'
<1>1. /\ UNCHANGED <<base, tx, unchecked>>
      /\ \A q \in Procs : Accepted(q)' => Accepted(q)
      /\ Accepted(p)
  BY DEF Write, Goto, Accepted, TypeOK, users, local
<1>2. \A i \in Inodes : content'[i] \subseteq content[i] \cup {Candidate(p)}
  BY DEF Write, TypeOK
<1>3. \A q \in Procs : Candidate(q)' = Candidate(q)
  BY <1>1 DEF Candidate
<1> QED
  BY <1>1, <1>2, <1>3 DEF Checked

LEMMA StepChecked ==
  ASSUME TypeOK, Checked, NEW p \in Procs, Step(p), ~Decide(p), ~Write(p)
  PROVE  Checked'
<1>1. UNCHANGED <<tx, unchecked>>
  BY DEF Step, Keep, Peek, Load, Refuse, Open, Rename, Clean, Check, Fail, Die,
         users, local
<1>2. \A i \in Inodes : content'[i] \subseteq content[i]
  <2>1. CASE Open(p)
    BY <2>1 DEF Open, OpenOld, OpenNew, TypeOK
  <2>2. CASE ~Open(p)
    BY <2>2 DEF Step, Keep, Peek, Load, Refuse, Rename, Clean, Check, Fail, Die, disk
  <2> QED
    BY <2>1, <2>2
<1>3. \A q \in Procs : Accepted(q)' => Accepted(q) /\ base'[q] = base[q]
  <2>1. CASE Open(p)
    BY <2>1 DEF Open, Goto, TypeOK, Accepted
  <2>2. CASE Keep(p) \/ Peek(p) \/ Load(p) \/ Refuse(p)
    BY <2>2 DEF Keep, Peek, Load, Refuse, Answer, Goto, TypeOK, local, Accepted
  <2>3. CASE Rename(p) \/ Clean(p) \/ Check(p) \/ Fail(p) \/ Die(p)
    BY <2>3 DEF Rename, Clean, Check, Fail, Die, Answer, Goto, TypeOK, local, Accepted
  <2> QED
    BY <2>1, <2>2, <2>3 DEF Step
<1> QED
  BY <1>1, <1>2, <1>3, KeepsChecked

LEMMA NextChecked == TypeOK /\ Checked /\ [Next]_vars => Checked'
<1> SUFFICES ASSUME TypeOK, Checked, [Next]_vars PROVE Checked'
  OBVIOUS
<1>1. ASSUME NEW t \in Txs, Propose(t) PROVE Checked'
  <2>1. UNCHANGED <<content, base, tx, pc, unchecked>>
    BY <1>1 DEF Propose, disk, local
  <2> QED
    BY <2>1, KeepsChecked DEF Accepted
<1>2. ASSUME NEW p \in Procs, NEW k \in Kinds, NEW t \in Txs, Begin(p, k, t)
      PROVE  Checked'
  <2>1. /\ UNCHANGED <<content, base, unchecked>> /\ ~Accepted(p)'
        /\ \A q \in Procs : q # p => pc'[q] = pc[q] /\ tx'[q] = tx[q]
    BY <1>2 DEF Begin, Goto, TypeOK, disk, Accepted
  <2> QED
    BY <2>1, KeepsChecked DEF Accepted
<1>3. ASSUME NEW p \in Procs, Step(p) PROVE Checked'
  BY <1>3, DecideChecked, WriteChecked, StepChecked
<1>4. CASE UNCHANGED vars
  BY <1>4, KeepsChecked DEF vars, disk, users, local, Accepted
<1> QED
  BY <1>1, <1>2, <1>3, <1>4 DEF Next, Done

\* A graph written in full that passes validate_graph is one read_graph returns.
LEMMA CheckedFileIsRead ==
  ASSUME TypeOK, Checked, ~unchecked, NEW g \in Graphs, Holds(g)
  PROVE  ~Unreadable
<1>1. g \in content[target] /\ target \in Inodes
  BY DEF Holds, TypeOK
<1>2. g \in Valid
  BY <1>1 DEF Checked
<1> QED
  BY <1>2 DEF Unreadable, Reads

\* However many processes commit, die and retry, the graph file is one graph
\* written in full, unless two native programs have written for one transaction
\* at once; and read_graph returns it, unless moreover a native program has
\* accepted a candidate that validate_graph would have refused.
THEOREM WholeFile == Spec => []WholeUnlessShared
<1>1. FileInvariant /\ Checked => WholeUnlessShared
  BY CheckedFileIsRead DEF FileInvariant, OwnFiles, WholeUnlessShared
<1>2. Spec => []Checked
  BY InitChecked, NextChecked, TypesSound, PTL DEF Spec
<1> QED
  BY <1>1, <1>2, FilesSound, PTL

-----------------------------------------------------------------------------
(* Where the graphs in the files come from.                                  *)

LEMMA InitProvenance == Init => Provenance
  BY DEF Init, Provenance, Legitimate

\* A step that makes no proposal and writes nothing new keeps the provenance,
\* if it names a proposal that was made and accepts only what that one saw.
LEMMA KeepsProvenance ==
  ASSUME Provenance, UNCHANGED <<seen, proposed>>,
         \A i \in Inodes : content'[i] \subseteq content[i],
         NEW p \in Procs, tx'[p] \in proposed \/ pc'[p] = "idle",
         pc'[p] \in {"opening", "writing", "renaming"} => base'[p] = seen[tx'[p]],
         \A q \in Procs : q # p =>
            pc'[q] = pc[q] /\ tx'[q] = tx[q] /\ base'[q] = base[q]
  PROVE  Provenance'
<1>1. \A g : Legitimate(g)' <=> Legitimate(g)
  BY DEF Legitimate
<1> QED
  BY <1>1 DEF Provenance

LEMMA HoldsProvenance ==
  ASSUME TypeOK, Provenance, NEW g, Holds(g)
  PROVE  Legitimate(g)
<1>1. g \in content[target] /\ target \in Inodes
  BY DEF Holds, TypeOK
<1> QED
  BY <1>1 DEF Provenance

\* A proposal is made against a graph in which it is not: what it stood for
\* before it was made is in no file.
LEMMA ProposeProvenance ==
  ASSUME TypeOK, Provenance, NEW t \in Txs, Propose(t)
  PROVE  Provenance'
<1>1. PICK g \in Graphs : Holds(g) /\ seen' = [seen EXCEPT ![t] = g]
  BY DEF Propose
<1>2. t \notin proposed /\ proposed' = proposed \cup {t}
      /\ UNCHANGED <<content, pc, tx, base>>
  BY DEF Propose, disk, local
<1>3. g \subseteq proposed
  <2>1. Legitimate(g)
    BY <1>1, HoldsProvenance
  <2> QED
    BY <2>1 DEF Provenance, Legitimate
<1>4. \A u \in proposed : seen'[u] = seen[u] /\ u # t
  BY <1>1, <1>2 DEF TypeOK
<1>5. seen'[t] = g
  BY <1>1 DEF TypeOK
<1>6. \A i \in Inodes : \A h \in content'[i] : Legitimate(h)'
  BY <1>2, <1>4 DEF Provenance, Legitimate
<1>7. \A u \in proposed' : seen'[u] \subseteq proposed' \ {u}
  BY <1>2, <1>3, <1>4, <1>5 DEF Provenance
<1>8. \A p \in Procs : pc[p] # "idle" => tx[p] \in proposed
  BY DEF Provenance
<1> QED
  BY <1>2, <1>4, <1>6, <1>7, <1>8 DEF Provenance

LEMMA StepProvenance ==
  ASSUME TypeOK, Provenance, NEW p \in Procs, Step(p), ~Write(p)
  PROVE  Provenance'
<1>1. UNCHANGED <<seen, proposed>> /\ tx' = tx
  BY DEF Step, Keep, Peek, Load, Decide, Refuse, Open, Rename, Clean, Check, Fail,
         Die, users, local
<1>2. \A i \in Inodes : content'[i] \subseteq content[i]
  <2>1. CASE Open(p)
    BY <2>1 DEF Open, OpenOld, OpenNew, TypeOK
  <2>2. CASE ~Open(p)
    BY <2>2 DEF Step, Keep, Peek, Load, Decide, Refuse, Rename, Clean, Check, Fail,
                Die, disk
  <2> QED
    BY <2>1, <2>2
<1>3. pc[p] # "idle"
  BY DEF Step, Keep, Peek, Load, Decide, Refuse, Open, Rename, Clean, Check, Fail, Die
<1>4. /\ \A q \in Procs : q # p => pc'[q] = pc[q] /\ base'[q] = base[q]
      /\ pc'[p] \in {"opening", "writing", "renaming"} => base'[p] = seen[tx[p]]
  <2>1. CASE Decide(p)
    BY <2>1 DEF Decide, Acceptable, Goto, TypeOK, local
  <2>2. CASE Open(p)
    BY <2>2 DEF Open, Goto, TypeOK, Provenance
  <2>3. CASE Keep(p) \/ Peek(p) \/ Load(p) \/ Refuse(p)
    BY <2>3 DEF Keep, Peek, Load, Refuse, Answer, Goto, TypeOK, local
  <2>4. CASE Rename(p) \/ Clean(p) \/ Check(p) \/ Fail(p) \/ Die(p)
    BY <2>4 DEF Rename, Clean, Check, Fail, Die, Answer, Goto, TypeOK, local
  <2> QED
    BY <2>1, <2>2, <2>3, <2>4 DEF Step
<1> QED
  BY <1>1, <1>2, <1>3, <1>4, KeepsProvenance DEF Provenance

LEMMA WriteProvenance ==
  ASSUME TypeOK, Provenance, NEW p \in Procs, Write(p)
  PROVE  Provenance'
<1>1. /\ UNCHANGED <<seen, proposed, tx, base>>
      /\ pc[p] = "writing" /\ pc'[p] = "renaming"
      /\ \A q \in Procs : q # p => pc'[q] = pc[q]
  BY DEF TypeOK, Write, Goto, users, local
<1>2. Candidate(p) = seen[tx[p]] \cup {tx[p]} /\ tx[p] \in proposed
      /\ base[p] = seen[tx[p]]
  BY <1>1 DEF Provenance, Candidate
<1>3. Legitimate(Candidate(p))
  BY <1>2 DEF Legitimate, Provenance
<1>4. \A i \in Inodes : content'[i] \subseteq content[i] \cup {Candidate(p)}
  BY DEF Write, TypeOK
<1>5. \A g : Legitimate(g)' <=> Legitimate(g)
  BY <1>1 DEF Legitimate
<1> QED
  BY <1>1, <1>2, <1>3, <1>4, <1>5 DEF Provenance

LEMMA NextProvenance == TypeOK /\ Provenance /\ [Next]_vars => Provenance'
<1> SUFFICES ASSUME TypeOK, Provenance, [Next]_vars PROVE Provenance'
  OBVIOUS
<1>1. ASSUME NEW t \in Txs, Propose(t) PROVE Provenance'
  BY <1>1, ProposeProvenance
<1>2. ASSUME NEW p \in Procs, NEW k \in Kinds, NEW t \in Txs, Begin(p, k, t)
      PROVE  Provenance'
  <2>1. /\ UNCHANGED <<content, seen, proposed, base>> /\ tx'[p] \in proposed
        /\ pc'[p] \in {"keeping", "loading"}
        /\ \A q \in Procs : q # p => pc'[q] = pc[q] /\ tx'[q] = tx[q]
    BY <1>2 DEF Begin, Goto, TypeOK, disk
  <2> QED
    BY <2>1, KeepsProvenance
<1>3. ASSUME NEW p \in Procs, Step(p) PROVE Provenance'
  BY <1>3, StepProvenance, WriteProvenance
<1>4. CASE UNCHANGED vars
  BY <1>4 DEF Provenance, Legitimate, vars, disk, users, local
<1> QED
  BY <1>1, <1>2, <1>3, <1>4 DEF Next, Done

\* Whatever happens, shared temporary files included, a graph that can be read
\* from the file is the first one or the graph some proposal was computed
\* against with exactly that proposal applied, once.
THEOREM ProposalsSound == Spec => []ProposalsApplyToWhatTheySaw
<1>1. TypeOK /\ Provenance => ProposalsApplyToWhatTheySaw
  BY HoldsProvenance DEF Legitimate, ProposalsApplyToWhatTheySaw
<1>2. Spec => []Provenance
  BY InitProvenance, NextProvenance, TypesSound, PTL DEF Spec
<1> QED
  BY <1>1, <1>2, TypesSound, PTL
=============================================================================
