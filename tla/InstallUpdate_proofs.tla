------------------------- MODULE InstallUpdate_proofs -------------------------
(***************************************************************************)
(* Proofs about InstallUpdate, for any versions, any number of operations, *)
(* I/O errors and crashes.                                                 *)
(*                                                                         *)
(* The invariant says, phase by phase, what the engine has established so  *)
(* far; what must survive an interruption is in Disk, which holds in every *)
(* phase.  Most steps that interrupt an operation are alike (Quits), and   *)
(* so are those that turn an update into a recovery (Recovers).            *)
(***************************************************************************)
EXTENDS InstallUpdate, TLAPS

Preparing == {"staging", "copying", "checking", "placing"}
Activating == {"switching", "clearing", "unlinking", "linking", "unasiding",
               "undo_pointer", "undo_link", "validating"}
Completing == {"backing_up", "writing"}
Restoring == {"recording", "restoring"}

\* current.json names the goal; the link does, too.
Switched == {"clearing", "unlinking", "linking", "unasiding", "validating"}
              \cup Completing \cup Restoring
Linked == {"unasiding", "validating"} \cup Completing \cup Restoring

Phases == {"idle", "discovering", "migrating"} \cup Preparing \cup Activating
            \cup Completing \cup Restoring

Reports == {"none", "running", "failed", "raised", "crashed", "completed",
            "already_up_to_date", "downgrade_rejected", "rolled_back", "rollback_failed"}

DocumentName == {"state", "inventory", "manifest"}

\* The files a phase may have left.
ToMigrate == {<<"state", "current", "inventory", "history">>,
              <<"current", "inventory", "history">>, <<"inventory", "history">>,
              <<"history">>}
ToCopy == {<<"state", "inventory", "manifest">>, <<"inventory", "manifest">>, <<"manifest">>}
ToWrite == {<<"state", "inventory", "history", "manifest">>,
            <<"inventory", "history", "manifest">>, <<"history", "manifest">>, <<"manifest">>}

Types ==
  /\ current \in [active : Version \cup {Absent}, previous : Version \cup {Absent}]
  /\ link \in Version \cup {Absent}
  /\ docs \in Documents
  /\ history = Absent \/ history \in Seq(HistoryEntry)
  /\ versions \in [Version -> Directory]
  /\ staging \in [Version -> Directory]
  /\ backup \in [Version -> Documents]
  /\ op \in Operation
  /\ pc \in Phases
  /\ aside \in Version \cup {Absent}
  /\ report \in Reports
  /\ pc = "migrating" => todo \in ToMigrate
  /\ pc = "backing_up" => todo \in ToCopy
  /\ pc = "writing" => todo \in ToWrite
  /\ pc = "restoring" => todo \in ToCopy \cup {<<>>}
  /\ pc \notin {"migrating", "backing_up", "writing", "restoring"} => todo = <<>>

\* A version whose backup was torn halfway is one the documents name and the
\* pointer has left: discover refuses the installation from then on.
Stuck ==
  /\ pc \in {"idle", "discovering"}
  /\ docs.state # current.active /\ docs.state # Absent

\* What every interruption leaves: the version of install_state.json is whole,
\* that of current.json is there, a v1.0 installation is untouched until its
\* migration, and a backup is of the version it is filed under.
Disk ==
  /\ docs.state \in Version => versions[docs.state] = "whole"
  /\ current.active \in Version => versions[current.active] # "absent"
  /\ docs.state = Absent => pc \in {"idle", "discovering", "migrating"}
  /\ docs.state = Absent \/ pc = "migrating" =>
       docs.manifest \in Version /\ versions[docs.manifest] = "whole"
  /\ \A v \in Version :
       /\ backup[v].state \in {Absent, Torn, v}
       /\ backup[v].state = Torn => Stuck

\* What an operation is about.
Goals ==
  /\ op.kind = "update" => op.goal \in Version
  /\ pc \in Preparing \cup Completing => op.kind = "update"
  /\ pc \in Restoring => op.kind \in {"recovery", "rollback"}
  /\ pc \in Activating \cup Completing \cup Restoring =>
       /\ op.kind # "none" /\ op.goal \in Version /\ op.other \in Version
       /\ history \in Seq(HistoryEntry)

\* An update leaves the version it came from as it was, until its documents
\* are written.
Updating ==
  op.kind = "update" =>
    /\ pc \in Preparing \cup Activating \cup Completing =>
         /\ op.other \in Version /\ op.goal # op.other
         /\ versions[op.other] = "whole" /\ history \in Seq(HistoryEntry)
    /\ pc \in Preparing \cup Activating \cup {"backing_up"} =>
         docs.state = op.other /\ docs.inventory = op.other
    /\ pc \in Preparing \cup {"switching"} => current.active = op.other
    /\ pc = "placing" => staging[op.goal] = "whole"
    /\ pc \in Activating \cup Completing => versions[op.goal] = "whole"

\* Where the pointer and the link are once they were switched.
Pointer ==
  /\ pc \in Switched => current = [active |-> op.goal, previous |-> op.other]
  /\ pc = "clearing" => link = aside
  /\ pc \in Linked => link = op.goal
  /\ pc \in Restoring => versions[op.goal] = "whole"

\* The last entry of the history tells of this update, or of this rollback.
Succeeded == history[Len(history)] = [from |-> op.other, to |-> op.goal, status |-> "success"]
RolledBack ==
  history[Len(history)] = [from |-> op.goal, to |-> op.other, status |-> "rolled_back"]

\* How far the documents of a completed update, or of a rollback, have come.
Progress ==
  /\ pc = "backing_up" =>
       /\ Len(todo) < 3 => backup[op.other].state = op.other
       /\ Len(todo) < 2 => backup[op.other].inventory = op.other
  /\ pc = "writing" =>
       /\ backup[op.other].state = op.other /\ backup[op.other].inventory = op.other
       /\ Len(todo) = 4 => docs.state = op.other
       /\ Len(todo) < 4 => docs.state = op.goal
       /\ Len(todo) < 3 => docs.inventory = op.goal
       /\ Len(todo) < 2 => Succeeded
  /\ pc = "restoring" =>
       /\ RolledBack
       /\ todo # <<>> => op.kind = "rollback" /\ backup[op.goal].state = op.goal
       /\ todo # <<>> /\ Len(todo) < 3 => docs.state = op.goal

Outcome == CompletedCanBeUndone /\ RolledBackAgrees

\* An error past the pointer and before the handler ends the operation.
Exposure == exposed \in BOOLEAN /\ (exposed => pc = "idle")

IInv == Types /\ Disk /\ Goals /\ Updating /\ Pointer /\ Progress /\ Outcome

-----------------------------------------------------------------------------
(* Lists of files, and documents.                                            *)

LEMMA ListFacts ==
  /\ \A l \in ToMigrate : l # <<>> /\ (Tail(l) = <<>> \/ Tail(l) \in ToMigrate)
  /\ \A l \in ToCopy :
       /\ l # <<>> /\ Len(l) \in 1 .. 3 /\ Head(l) \in DocumentName
       /\ Len(l) > 1 => Tail(l) \in ToCopy /\ Len(Tail(l)) = Len(l) - 1
       /\ Len(l) = 3 <=> Head(l) = "state"
       /\ Len(l) = 2 <=> Head(l) = "inventory"
  /\ \A l \in ToWrite :
       /\ l # <<>> /\ Len(l) \in 1 .. 4 /\ Head(l) \in DocumentName \cup {"history"}
       /\ Len(l) > 1 => Tail(l) \in ToWrite /\ Len(Tail(l)) = Len(l) - 1
       /\ Len(l) = 4 <=> Head(l) = "state"
       /\ Len(l) = 3 <=> Head(l) = "inventory"
       /\ Len(l) = 2 <=> Head(l) = "history"
       /\ Len(l) = 1 <=> Head(l) = "manifest"
  BY DEF ToMigrate, ToCopy, ToWrite, DocumentName

LEMMA MigrateFacts ==
  ASSUME NEW l \in ToMigrate
  PROVE  l # <<>> /\ (Tail(l) = <<>> \/ Tail(l) \in ToMigrate)
  BY ListFacts

LEMMA CopyFacts ==
  ASSUME NEW l \in ToCopy
  PROVE  /\ l # <<>> /\ Len(l) \in 1 .. 3 /\ Head(l) \in DocumentName
         /\ Len(l) > 1 => Tail(l) \in ToCopy /\ Len(Tail(l)) = Len(l) - 1
         /\ Len(l) = 3 <=> Head(l) = "state"
         /\ Len(l) = 2 <=> Head(l) = "inventory"
  BY ListFacts

LEMMA WriteFacts ==
  ASSUME NEW l \in ToWrite
  PROVE  /\ l # <<>> /\ Len(l) \in 1 .. 4 /\ Head(l) \in DocumentName \cup {"history"}
         /\ Len(l) > 1 => Tail(l) \in ToWrite /\ Len(Tail(l)) = Len(l) - 1
         /\ Len(l) = 4 <=> Head(l) = "state"
         /\ Len(l) = 3 <=> Head(l) = "inventory"
         /\ Len(l) = 2 <=> Head(l) = "history"
         /\ Len(l) = 1 <=> Head(l) = "manifest"
  BY ListFacts

LEMMA WholeLists ==
  /\ DocumentsToBackUp \in ToCopy /\ Len(DocumentsToBackUp) = 3
  /\ DocumentsToRestore \in ToCopy /\ Len(DocumentsToRestore) = 3
  /\ DocumentsToWrite \in ToWrite /\ Len(DocumentsToWrite) = 4
  BY DEF DocumentsToBackUp, DocumentsToRestore, DocumentsToWrite, ToCopy, ToWrite

LEMMA DocumentFacts ==
  /\ Absent \in Document /\ Torn \in Document /\ Version \subseteq Document
  /\ Absent \notin Version /\ Torn \notin Version /\ Absent # Torn
  /\ \A d \in Documents : \A n \in DocumentName : d[n] \in Document
  /\ \A d \in Documents :
       d.state \in Document /\ d.inventory \in Document /\ d.manifest \in Document
  BY MarksAreNotVersions DEF Document, Documents, DocumentName

\* One document changes.
LEMMA Replaced ==
  ASSUME NEW d \in Documents, NEW n \in DocumentName, NEW x \in Document,
         NEW c, c = [d EXCEPT ![n] = x]
  PROVE  /\ c \in Documents
         /\ IF n = "state" THEN c.state = x /\ d[n] = d.state ELSE c.state = d.state
         /\ IF n = "inventory" THEN c.inventory = x /\ d[n] = d.inventory
                               ELSE c.inventory = d.inventory
         /\ IF n = "manifest" THEN c.manifest = x /\ d[n] = d.manifest
                              ELSE c.manifest = d.manifest
  BY DEF Documents, DocumentName

\* One document of one backup changes.
LEMMA BackupFacts ==
  ASSUME NEW b \in [Version -> Documents], NEW v \in Version, NEW n \in DocumentName,
         NEW x \in Document, NEW c, c = [b EXCEPT ![v][n] = x]
  PROVE  /\ c \in [Version -> Documents]
         /\ \A w \in Version : w # v => c[w] = b[w]
         /\ c[v] = [b[v] EXCEPT ![n] = x]
<1>1. [b[v] EXCEPT ![n] = x] \in Documents
  BY Replaced
<1> QED
  BY <1>1

-----------------------------------------------------------------------------
(* Interruptions.                                                            *)

\* The operation has read and staged at most.
Pristine ==
  \/ pc \in {"discovering"} \cup Preparing
  \/ pc = "switching" /\ op.kind = "update"

\* An operation ends without success: it is refused, or an error or a crash
\* interrupts it, possibly in the middle of a copy.
Quits ==
  /\ pc # "idle" /\ pc' = "idle" /\ todo' = <<>>
  /\ report' \in Reports \ {"completed", "rolled_back"}
  /\ UNCHANGED <<current, history, versions, op, aside>>
  /\ link' \in Version \cup {Absent}
  /\ staging' \in [Version -> Directory]
  /\ \/ docs' = docs
     \/ /\ pc = "restoring" /\ todo # <<>>
        /\ docs' = [docs EXCEPT ![Head(todo)] = Torn]
  /\ \/ backup' = backup
     \/ /\ pc = "backing_up"
        /\ backup' = [backup EXCEPT ![op.other][Head(todo)] = Torn]
  /\ before' = before /\ faults' \in {faults, faults + 1}
  /\ exposed' => exposed \/ pc = "clearing"
  /\ report' = "failed" /\ op.kind = "update" =>
       \/ Pristine /\ docs' = docs /\ link' = link
       \/ pc = "clearing" /\ docs' = docs /\ link' = link /\ exposed'
       \/ pc = "undo_link" /\ docs' = docs /\ link' = IF aside = Absent THEN link ELSE aside
       \/ pc \in {"undo_pointer", "undo_link"} /\ faults' = faults + 1

LEMMA QuitsKeepsDisk ==
  ASSUME IInv, Quits
  PROVE  Types' /\ Disk'
<1>1. Types /\ Disk /\ Goals /\ Updating
  BY DEF IInv
<1>2. pc = "restoring" /\ todo # <<>> => Head(todo) \in DocumentName
  BY <1>1, CopyFacts DEF Types
<1>3. pc = "backing_up" => Head(todo) \in DocumentName /\ op.other \in Version
                             /\ op.kind = "update"
  BY <1>1, CopyFacts DEF Types, Goals, Completing
<1>4. docs' \in Documents /\ docs'.state \in {docs.state, Torn}
      /\ (docs' # docs => pc = "restoring")
  <2>1. docs \in Documents
    BY <1>1 DEF Types
  <2>2. CASE docs' = docs
    BY <2>1, <2>2
  <2>3. CASE pc = "restoring" /\ todo # <<>> /\ docs' = [docs EXCEPT ![Head(todo)] = Torn]
    <3> DEFINE n == Head(todo)
    <3>1. n \in DocumentName /\ docs' = [docs EXCEPT ![n] = Torn]
      BY <1>2, <2>3
    <3> HIDE DEF n
    <3>2. Torn \in Document
      BY DocumentFacts
    <3>3. /\ docs' \in Documents
          /\ IF n = "state" THEN docs'.state = Torn ELSE docs'.state = docs.state
      BY <2>1, <3>1, <3>2 DEF Documents, DocumentName
    <3> QED
      BY <2>3, <3>3
  <2> QED
    BY <2>2, <2>3 DEF Quits
<1>5. /\ backup' \in [Version -> Documents]
      /\ \A v \in Version : backup'[v].state \in {backup[v].state, Torn}
      /\ backup' # backup => pc = "backing_up"
  <2>1. CASE backup' = backup
    BY <1>1, <2>1 DEF Types
  <2>2. CASE pc = "backing_up" /\ backup' = [backup EXCEPT ![op.other][Head(todo)] = Torn]
    <3>1. /\ backup' \in [Version -> Documents]
          /\ \A w \in Version : w # op.other => backup'[w] = backup[w]
          /\ backup'[op.other] = [backup[op.other] EXCEPT ![Head(todo)] = Torn]
      BY <1>1, <1>3, <2>2, DocumentFacts, BackupFacts DEF Types
    <3>2. backup[op.other] \in Documents
      BY <1>1, <1>3, <2>2 DEF Types
    <3> QED
      BY <1>3, <2>2, <3>1, <3>2, DocumentFacts, Replaced
  <2> QED
    BY <2>1, <2>2 DEF Quits
<1>6. Types'
  BY <1>1, <1>4, <1>5 DEF Quits, Types, Phases
<1>7. /\ docs'.state \in Version => versions'[docs'.state] = "whole"
      /\ current'.active \in Version => versions'[current'.active] # "absent"
      /\ docs'.state = Absent =>
           docs'.manifest \in Version /\ versions'[docs'.manifest] = "whole"
  BY <1>1, <1>4, DocumentFacts DEF Quits, Disk
<1>8. ASSUME NEW v \in Version
      PROVE  /\ backup'[v].state \in {Absent, Torn, v}
             /\ backup'[v].state = Torn => Stuck'
  <2>1. CASE backup' = backup
    <3>1. docs'.state = docs.state \/ ~Stuck
      BY <1>4 DEF Stuck
    <3> QED
      BY <1>1, <2>1, <3>1 DEF Disk, Stuck, Quits
  <2>2. CASE pc = "backing_up"
    <3>1. docs' = docs /\ docs.state = op.other /\ current.active = op.goal
          /\ op.goal # op.other /\ op.other \in Version
      BY <1>1, <1>3, <1>4, <2>2 DEF IInv, Updating, Pointer, Preparing, Activating,
         Completing, Switched
    <3>2. Stuck'
      BY <3>1, DocumentFacts DEF Stuck, Quits
    <3> QED
      BY <1>1, <1>5, <3>2 DEF Disk
  <2> QED
    BY <1>5, <2>1, <2>2
<1>9. Disk'
  BY <1>7, <1>8 DEF Disk, Quits
<1> QED
  BY <1>6, <1>9

LEMMA QuitsKeeps ==
  ASSUME IInv, Quits
  PROVE  IInv'
<1>1. Types' /\ Disk'
  BY QuitsKeepsDisk
<1>2. pc' = "idle" /\ op' = op /\ report' \notin {"completed", "rolled_back"}
  BY DEF Quits
<1>3. Goals' /\ Updating' /\ Pointer' /\ Progress'
  BY <1>2 DEF IInv, Goals, Updating, Pointer, Progress, Preparing, Activating, Completing,
     Restoring, Switched, Linked
<1>4. Outcome'
  BY <1>2 DEF Outcome, CompletedCanBeUndone, RolledBackAgrees, Finished
<1> QED
  BY <1>1, <1>3, <1>4 DEF IInv

\* An update turns to its recovery, before or after it has written documents.
Recovers ==
  /\ op.kind = "update" /\ pc \in {"validating"} \cup Completing
  /\ BeginRecovery
  /\ UNCHANGED <<current, link, docs, history, versions, backup>>
  /\ pc = "writing" => Head(todo) = "manifest"
  /\ before' = before
  /\ \/ faults' = faults + 1
     \/ faults' = faults /\ (pc = "validating" \/ docs.manifest \notin Version)

LEMMA RecoversKeeps ==
  ASSUME IInv, Recovers
  PROVE  IInv'
<1>1. Types /\ Disk /\ Goals
  BY DEF IInv
<1>2. /\ op.goal \in Version /\ op.other \in Version /\ history \in Seq(HistoryEntry)
      /\ pc \notin {"idle", "discovering"} /\ docs.state # Absent
  BY <1>1 DEF Recovers, Goals, Activating, Completing, Disk
<1>3. /\ pc' = "switching" /\ todo' = <<>>
      /\ op' = [kind |-> "recovery", goal |-> op.other, other |-> op.goal]
      /\ UNCHANGED <<disk, aside, report>>
  BY DEF Recovers, BeginRecovery, disk
<1>4. Types'
  BY <1>1, <1>2, <1>3 DEF Types, Operation, Phases, Activating, disk
<1>5. Disk'
  BY <1>1, <1>2, <1>3 DEF Disk, Stuck, disk
<1>6. Goals' /\ Updating' /\ Pointer' /\ Progress'
  BY <1>2, <1>3 DEF Goals, Updating, Pointer, Progress, Preparing, Activating, Completing,
     Restoring, Switched, Linked, disk
<1>7. Outcome'
  BY <1>3 DEF Outcome, CompletedCanBeUndone, RolledBackAgrees, Finished
<1> QED
  BY <1>4, <1>5, <1>6, <1>7 DEF IInv

\* The handler of a failed link switch takes over.
Undoes ==
  /\ pc \in {"unlinking", "linking", "unasiding"} /\ pc' = "undo_pointer"
  /\ UNCHANGED <<disk, op, todo, aside, report>>
  /\ before' = before /\ faults' = faults + 1

LEMMA UndoesKeeps ==
  ASSUME IInv, Undoes
  PROVE  IInv'
<1>1. Types /\ Disk /\ Goals /\ Updating
  BY DEF IInv
<1>2. Types' /\ Disk'
  BY <1>1 DEF Undoes, Types, Phases, Activating, Disk, Stuck, disk
<1>3. Goals' /\ Updating'
  BY <1>1 DEF Undoes, Goals, Updating, Preparing, Activating, Completing, Restoring, disk
<1>4. Pointer' /\ Progress' /\ Outcome'
  BY DEF Undoes, Pointer, Progress, Switched, Linked, Completing, Restoring, Outcome,
     CompletedCanBeUndone, RolledBackAgrees, Finished
<1> QED
  BY <1>2, <1>3, <1>4 DEF IInv

\* Finish leaves staging as it was or empties it.
LEMMA FinishGives ==
  ASSUME Types, Goals, NEW outcome, Finish(outcome)
  PROVE  /\ pc' = "idle" /\ report' = outcome /\ todo' = <<>>
         /\ staging' \in [Version -> Directory]
  BY DEF Finish, Types, Goals, Directory

LEMMA FaultGives ==
  ASSUME IInv, Fault
  PROVE  Quits \/ Recovers \/ Undoes
<1>1. Types /\ Goals
  BY DEF IInv
<1>2. pc \in Phases \ {"idle"} /\ link \in Version \cup {Absent}
      /\ UNCHANGED <<history, aside, before>> /\ faults' = faults + 1
      /\ exposed' = (exposed \/ pc = "clearing")
  BY <1>1 DEF Fault, Types
<1>3. /\ {"failed", "raised", "rollback_failed"} \subseteq Reports \ {"completed", "rolled_back"}
      /\ pc \in {"backing_up", "writing"} => op.kind = "update"
  BY <1>1 DEF Reports, Goals, Completing
<1>4. CASE /\ \/ /\ Finish("failed")
                 /\ op.kind = "update" =>
                      Pristine \/ pc \in {"clearing", "undo_pointer", "undo_link"}
              \/ Finish("raised")
              \/ Finish("rollback_failed")
           /\ UNCHANGED <<current, link, versions, op>>
           /\ \/ docs' = docs
              \/ /\ pc = "restoring" /\ todo # <<>>
                 /\ docs' = [docs EXCEPT ![Head(todo)] = Torn]
           /\ \/ backup' = backup
              \/ /\ pc = "backing_up"
                 /\ backup' = [backup EXCEPT ![op.other][Head(todo)] = Torn]
  <2>1. /\ pc' = "idle" /\ todo' = <<>> /\ staging' \in [Version -> Directory]
        /\ report' \in {"failed", "raised", "rollback_failed"}
        /\ report' = "failed" /\ op.kind = "update" =>
             Pristine \/ pc \in {"clearing", "undo_pointer", "undo_link"}
    BY <1>1, <1>4, FinishGives
  <2>2. Pristine \/ pc = "clearing" => docs' = docs
    BY <1>4 DEF Pristine, Preparing
  <2> QED
    BY <1>2, <1>3, <1>4, <2>1, <2>2 DEF Quits
<1>5. CASE /\ pc = "backing_up" \/ (pc = "writing" /\ Head(todo) = "manifest")
           /\ BeginRecovery
           /\ UNCHANGED <<current, link, docs, versions, backup>>
  BY <1>2, <1>3, <1>5 DEF Recovers, Completing
<1>6. CASE /\ pc \in {"unlinking", "linking", "unasiding"} /\ pc' = "undo_pointer"
           /\ UNCHANGED <<disk, op, todo, report>>
  BY <1>2, <1>6 DEF Undoes
<1> QED
  <2>1. pc \in {"discovering", "switching"} /\ op.kind = "update" => Pristine
    BY DEF Pristine
  <2>2. CASE pc \in {"discovering", "switching", "clearing", "undo_pointer", "undo_link"}
    <3>1. /\ UNCHANGED <<current, link, docs, versions, backup, op>>
          /\ Finish("failed") \/ Finish("rollback_failed")
      BY <2>2 DEF Fault, ActivationFailed
    <3> QED
      BY <1>4, <2>1, <2>2, <3>1
  <2>3. CASE pc \in {"unlinking", "linking", "unasiding"}
    BY <1>6, <2>3 DEF Fault
  <2>4. CASE pc \notin {"discovering", "switching", "clearing", "undo_pointer", "undo_link",
                      "unlinking", "linking", "unasiding"}
    BY <1>4, <1>5, <2>4 DEF Fault
  <2> QED
    BY <2>2, <2>3, <2>4

\* The steps that end an operation without success.
LEMMA QuittingSteps ==
  ASSUME IInv,
         RefuseInstall \/ PlanRefused \/ RefuseStaging \/ UndoLink \/ Crash
           \/ (PlanRollback /\ ~HasPrevious) \/ (ValidationFails /\ op.kind # "update")
  PROVE  Quits
<1>1. Types /\ Goals
  BY DEF IInv
<1>2. link \in Version \cup {Absent} /\ aside \in Version \cup {Absent}
      /\ staging \in [Version -> Directory]
  BY <1>1 DEF Types
<1>3. {"failed", "raised", "crashed", "rollback_failed", "already_up_to_date",
       "downgrade_rejected"} \subseteq Reports \ {"completed", "rolled_back"}
  BY DEF Reports
<1>4. CASE RefuseInstall
  BY <1>1, <1>2, <1>3, <1>4, FinishGives DEF RefuseInstall, Quits, Pristine, env
<1>5. CASE PlanRefused
  BY <1>1, <1>2, <1>3, <1>5, FinishGives DEF PlanRefused, Quits, Pristine, env
<1>6. CASE RefuseStaging
  BY <1>1, <1>2, <1>3, <1>6, FinishGives DEF RefuseStaging, Quits, Pristine, Preparing, env
<1>7. CASE UndoLink
  <2>1. link' \in Version \cup {Absent}
    BY <1>2, <1>7 DEF UndoLink
  <2> QED
    BY <1>1, <1>3, <1>7, <2>1, FinishGives DEF UndoLink, ActivationFailed, Quits, env
<1>8. CASE Crash
  BY <1>2, <1>3, <1>8 DEF Crash, Quits
<1>9. CASE PlanRollback /\ ~HasPrevious
  BY <1>1, <1>2, <1>3, <1>9, FinishGives DEF PlanRollback, Quits, env
<1>10. CASE ValidationFails /\ op.kind # "update"
  BY <1>1, <1>2, <1>3, <1>10, FinishGives DEF ValidationFails, Quits, env
<1> QED
  BY <1>4, <1>5, <1>6, <1>7, <1>8, <1>9, <1>10

\* The steps that turn an update to its recovery.
LEMMA RecoveringSteps ==
  ASSUME IInv, ManifestUnreadable \/ (ValidationFails /\ op.kind = "update")
  PROVE  Recovers
  BY DEF IInv, Goals, ManifestUnreadable, ValidationFails, Recovers, Completing, env

-----------------------------------------------------------------------------
(* Starting, migrating and planning.                                         *)

LEMMA InitIInv == Init => IInv
<1> USE DEF Preparing, Activating, Completing, Restoring, Switched, Linked
<1> SUFFICES ASSUME Init
             PROVE  IInv
  OBVIOUS
<1>1. PICK v \in Version, named \in Version \cup {Absent} :
        /\ named \in {v, Absent}
        /\ current = [active |-> named, previous |-> Absent]
        /\ link = v
        /\ docs = [state |-> named, inventory |-> named, manifest |-> v]
        /\ history = Absent \/ history = <<>>
        /\ versions = [w \in Version |-> IF w = v THEN "whole" ELSE "absent"]
        /\ staging = [w \in Version |-> "absent"]
        /\ backup = [w \in Version |-> NoDocuments]
        /\ pc = "idle" /\ todo = <<>> /\ aside = Absent /\ report = "none"
        /\ op = [kind |-> "none", goal |-> Absent, other |-> Absent]
  BY DEF Init
<1>2. NoDocuments \in Documents /\ docs \in Documents /\ NoDocuments.state = Absent
  BY <1>1, DocumentFacts DEF NoDocuments, Documents
<1>3. Types
  <2>1. /\ current \in [active : Version \cup {Absent}, previous : Version \cup {Absent}]
        /\ op \in Operation /\ <<>> \in Seq(HistoryEntry)
    BY <1>1 DEF Operation
  <2>2. /\ versions \in [Version -> Directory] /\ staging \in [Version -> Directory]
        /\ backup \in [Version -> Documents]
    BY <1>1, <1>2 DEF Directory
  <2> QED
    BY <1>1, <1>2, <2>1, <2>2 DEF Types, Phases, Reports
<1>4. Disk
  BY <1>1, <1>2, DocumentFacts DEF Disk, Stuck
<1>5. Goals /\ Updating /\ Pointer /\ Progress
  BY <1>1 DEF Goals, Updating, Pointer, Progress
<1>6. Outcome
  BY <1>1 DEF Outcome, CompletedCanBeUndone, RolledBackAgrees, Finished
<1> QED
  BY <1>3, <1>4, <1>5, <1>6 DEF IInv

LEMMA StartKeeps ==
  ASSUME IInv, StartUpdate \/ StartRollback
  PROVE  IInv'
<1> USE DEF Preparing, Activating, Completing, Restoring, Switched, Linked
<1>1. Types /\ Disk
  BY DEF IInv
<1>2. /\ pc = "idle" /\ pc' = "discovering" /\ report' = "running"
      /\ UNCHANGED <<current, link, docs, history, versions, staging, backup, todo, aside>>
      /\ op' \in Operation /\ (op'.kind = "update" => op'.goal \in Version)
  BY DEF StartUpdate, StartRollback, Start, disk, Operation
<1>3. Types'
  BY <1>1, <1>2 DEF Types, Phases, Reports
<1>4. Disk'
  BY <1>1, <1>2 DEF Disk, Stuck
<1>5. Goals' /\ Updating' /\ Pointer' /\ Progress'
  BY <1>2 DEF Goals, Updating, Pointer, Progress
<1>6. Outcome'
  BY <1>2 DEF Outcome, CompletedCanBeUndone, RolledBackAgrees, Finished
<1> QED
  BY <1>3, <1>4, <1>5, <1>6 DEF IInv

LEMMA MigrationKeeps ==
  ASSUME IInv, BeginMigration \/ Migrate
  PROVE  IInv'
<1> USE DEF Preparing, Activating, Completing, Restoring, Switched, Linked
<1>1. Types /\ Disk /\ Goals
  BY DEF IInv
<1>2. UNCHANGED <<link, versions, staging, backup, op, aside, report>>
  BY DEF BeginMigration, Migrate, disk
<1>3. pc' # "idle" /\ pc' \in {"discovering", "migrating"}
  BY DEF BeginMigration, Migrate, Step
<1>4. IF pc' = "migrating" THEN todo' \in ToMigrate ELSE todo' = <<>>
  BY <1>1, MigrateFacts DEF BeginMigration, Migrate, Step, Types, ToMigrate
<1>5. docs.manifest \in Version /\ versions[docs.manifest] = "whole"
      /\ docs'.manifest = docs.manifest
  <2>1. CASE BeginMigration
    BY <1>1, <2>1 DEF BeginMigration, Disk, disk
  <2>2. CASE Migrate
    BY <1>1, <2>2 DEF Migrate, Disk, Types, Documents
  <2> QED
    BY <2>1, <2>2
<1>6. docs' \in Documents /\ docs'.state \in {docs.state, docs.manifest}
  <2>1. CASE docs' = docs
    BY <1>1, <2>1 DEF Types
  <2>2. ASSUME NEW n \in {"state", "inventory"}, docs' = [docs EXCEPT ![n] = docs.manifest]
        PROVE  docs' \in Documents /\ docs'.state \in {docs.state, docs.manifest}
    BY <1>1, <2>2 DEF Types, Documents
  <2> QED
    BY <2>1, <2>2 DEF BeginMigration, Migrate, disk
<1>7. current' = current \/ current' = [active |-> docs.manifest, previous |-> Absent]
  BY DEF BeginMigration, Migrate, disk
<1>8. history' = history \/ history' = <<>>
  BY DEF BeginMigration, Migrate, disk
<1>9. Types'
  <2>1. current' \in [active : Version \cup {Absent}, previous : Version \cup {Absent}]
    BY <1>1, <1>5, <1>7 DEF Types
  <2>2. history' = Absent \/ history' \in Seq(HistoryEntry)
    <3>1. <<>> \in Seq(HistoryEntry)
      OBVIOUS
    <3> QED
      BY <1>1, <1>8, <3>1 DEF Types
  <2> QED
    BY <1>1, <1>2, <1>3, <1>4, <1>6, <2>1, <2>2 DEF Types, Phases
<1>10. \A v \in Version : backup[v].state # Torn
  BY <1>1 DEF Disk, Stuck, BeginMigration, Migrate, Step
<1>11. Disk'
  BY <1>1, <1>2, <1>3, <1>5, <1>6, <1>7, <1>10, DocumentFacts DEF Disk
<1>12. Goals' /\ Updating' /\ Pointer' /\ Progress'
  BY <1>1, <1>2, <1>3 DEF Goals, Updating, Pointer, Progress
<1>13. Outcome'
  BY <1>3 DEF Outcome, CompletedCanBeUndone, RolledBackAgrees, Finished
<1> QED
  BY <1>9, <1>11, <1>12, <1>13 DEF IInv

LEMMA PlanKeeps ==
  ASSUME IInv, PlanUpdate \/ (PlanRollback /\ HasPrevious)
  PROVE  IInv'
<1> USE DEF Preparing, Activating, Completing, Restoring, Switched, Linked
<1>1. Types /\ Disk /\ Goals
  BY DEF IInv
<1>2. Discoverable /\ pc = "discovering"
  BY DEF PlanUpdate, PlanRollback, Step
<1>3. /\ current.active \in Version /\ docs.state = current.active
      /\ docs.inventory = current.active /\ history \in Seq(HistoryEntry)
      /\ versions[docs.state] = "whole"
  BY <1>1, <1>2 DEF Discoverable, Types, Disk
<1>4. UNCHANGED <<current, link, docs, history, versions, staging, backup, todo, aside,
                  report>>
  BY DEF PlanUpdate, PlanRollback, HasPrevious, disk
<1>5. \/ /\ pc' = "staging" /\ op'.kind = "update" /\ op'.goal = op.goal
         /\ op'.other = docs.state /\ op.goal \in Version /\ op.goal # docs.state
         /\ op' \in Operation
      \/ /\ pc' = "switching" /\ op'.kind = "rollback" /\ op'.goal \in Version
         /\ op'.other \in Version /\ op' \in Operation
  <2>1. CASE PlanUpdate
    <3>1. op.goal \in Version /\ op.goal # docs.state
      BY <1>1, <1>3, <2>1, VersionsAreOrdered DEF PlanUpdate, Goals, OlderOrSame
    <3> QED
      BY <1>1, <1>3, <2>1, <3>1 DEF PlanUpdate, Step, Types, Operation
  <2>2. CASE PlanRollback /\ HasPrevious
    BY <1>1, <1>3, <2>2 DEF PlanRollback, HasPrevious, Types, Operation
  <2> QED
    BY <2>1, <2>2
<1>6. Types'
  BY <1>1, <1>2, <1>4, <1>5 DEF Types, Phases
<1>7. Disk'
  BY <1>1, <1>2, <1>3, <1>4, <1>5, DocumentFacts DEF Disk, Stuck
<1>8. Goals' /\ Updating'
  BY <1>3, <1>4, <1>5 DEF Goals, Updating
<1>9. Pointer' /\ Progress' /\ Outcome'
  BY <1>5 DEF Pointer, Progress, Outcome, CompletedCanBeUndone, RolledBackAgrees, Finished
<1> QED
  BY <1>6, <1>7, <1>8, <1>9 DEF IInv

-----------------------------------------------------------------------------
(* Preparing the new version.                                                *)

\* A step of the preparation changes nothing but staging and the directory of
\* the version it prepares.
Prepares ==
  /\ pc \in Preparing /\ pc' \in Preparing \cup {"switching"}
  /\ UNCHANGED <<current, link, docs, history, backup, op, todo, aside, report,
                 before, faults>>
  /\ versions' \in [Version -> Directory] /\ staging' \in [Version -> Directory]
  /\ \A v \in Version : v # op.goal => versions'[v] = versions[v]
  /\ pc' = "placing" => staging'[op.goal] = "whole"
  /\ pc' = "switching" => versions'[op.goal] = "whole"

LEMMA PreparingSteps ==
  ASSUME IInv, PrepareStaging \/ CopyPayload \/ AcceptStaging \/ ClearFinal \/ PlaceFinal
  PROVE  Prepares
<1>1. Types /\ Goals /\ Updating
  BY DEF IInv
<1>2. versions \in [Version -> Directory] /\ staging \in [Version -> Directory]
  BY <1>1 DEF Types
<1>3. ASSUME pc \in Preparing
      PROVE  op.kind = "update" /\ op.goal \in Version
  BY <1>1, <1>3 DEF Goals
<1>4. CASE PrepareStaging
  BY <1>2, <1>4 DEF PrepareStaging, Step, Prepares, Preparing, Directory, env
<1>5. CASE CopyPayload
  BY <1>2, <1>5 DEF CopyPayload, Step, Prepares, Preparing, Directory, env
<1>6. CASE AcceptStaging
  BY <1>2, <1>6 DEF AcceptStaging, StagingSound, Step, Prepares, Preparing, disk, env
<1>7. CASE ClearFinal
  <2>1. pc = "placing" /\ pc' = pc /\ op.goal \in Version /\ staging' = staging
        /\ staging[op.goal] = "whole"
    BY <1>1, <1>3, <1>7 DEF ClearFinal, engine, Updating, Preparing
  <2>2. versions' \in [Version -> Directory]
        /\ \A v \in Version : v # op.goal => versions'[v] = versions[v]
    BY <1>2, <1>7, <2>1 DEF ClearFinal, Directory
  <2> QED
    BY <1>2, <1>7, <2>1, <2>2 DEF ClearFinal, engine, env, Prepares, Preparing
<1>8. CASE PlaceFinal
  <2>1. pc = "placing" /\ pc' = "switching" /\ op.goal \in Version
        /\ staging[op.goal] = "whole"
    BY <1>1, <1>3, <1>8 DEF PlaceFinal, Step, Updating, Preparing
  <2>2. /\ versions' = [versions EXCEPT ![op.goal] = "whole"]
        /\ staging' = [staging EXCEPT ![op.goal] = "absent"]
    BY <1>8, <2>1 DEF PlaceFinal
  <2> QED
    BY <1>2, <1>8, <2>1, <2>2 DEF PlaceFinal, Prepares, Preparing, Directory, env
<1> QED
  BY <1>4, <1>5, <1>6, <1>7, <1>8

LEMMA PreparesKeeps ==
  ASSUME IInv, Prepares
  PROVE  IInv'
<1> USE DEF Preparing, Activating, Completing, Restoring, Switched, Linked
<1>1. Types /\ Disk /\ Goals /\ Updating
  BY DEF IInv
<1>2. /\ op.kind = "update" /\ op.goal \in Version /\ op.other \in Version
      /\ op.goal # op.other /\ docs.state = op.other /\ docs.inventory = op.other
      /\ current.active = op.other /\ history \in Seq(HistoryEntry)
      /\ versions[op.other] = "whole"
  BY <1>1 DEF Prepares, Goals, Updating
<1>3. versions'[op.other] = "whole"
  BY <1>2 DEF Prepares
<1>4. Types'
  BY <1>1 DEF Prepares, Types, Phases
<1>5. Disk'
  <2>1. \A v \in Version : backup[v].state # Torn
    BY <1>1 DEF Disk, Stuck, Prepares
  <2> QED
    BY <1>1, <1>2, <1>3, <2>1, DocumentFacts DEF Disk, Prepares
<1>6. Goals' /\ Updating'
  BY <1>2, <1>3 DEF Prepares, Goals, Updating
<1>7. Pointer' /\ Progress' /\ Outcome'
  BY DEF Prepares, Pointer, Progress, Outcome, CompletedCanBeUndone, RolledBackAgrees,
     Finished
<1> QED
  BY <1>4, <1>5, <1>6, <1>7 DEF IInv

-----------------------------------------------------------------------------
(* Activating a version.                                                     *)

\* A step of the activation moves the pointer or the link.
Activates ==
  /\ pc \in Activating
  /\ UNCHANGED <<docs, history, versions, staging, backup, op, report, before, faults>>
  /\ aside' \in Version \cup {Absent}
  /\ aside' = IF pc = "switching" THEN link ELSE aside
  /\ \/ /\ pc = "switching" /\ pc' = "clearing"
        /\ current' = [active |-> op.goal, previous |-> op.other]
        /\ versions[op.goal] # "absent" /\ link' = link /\ todo' = todo
     \/ /\ pc = "clearing" /\ pc' = "unlinking"
        /\ current' = current /\ link' = link /\ todo' = todo
     \/ /\ pc = "unlinking" /\ pc' = "linking"
        /\ current' = current /\ link' = Absent /\ todo' = todo
     \/ /\ pc = "linking" /\ pc' = "unasiding"
        /\ current' = current /\ link' = op.goal /\ todo' = todo
     \/ /\ pc = "unasiding" /\ pc' = "validating"
        /\ current' = current /\ link' = link /\ todo' = todo
     \/ /\ pc = "undo_pointer" /\ pc' = "undo_link" /\ current' = PointerAfterUndo
        /\ link' = link /\ todo' = todo
     \/ /\ pc = "validating" /\ versions[op.goal] = "whole"
        /\ current' = current /\ link' = link
        /\ IF op.kind = "update"
           THEN pc' = "backing_up" /\ todo' = DocumentsToBackUp
           ELSE pc' = "recording" /\ todo' = todo

LEMMA ActivatingSteps ==
  ASSUME IInv, SwitchPointer \/ ClearTemporaries \/ SetLinkAside \/ SwitchLink
                 \/ DropOldLink \/ UndoPointer \/ ValidationPasses
  PROVE  Activates
<1>1. link \in Version \cup {Absent} /\ aside \in Version \cup {Absent}
  BY DEF IInv, Types
<1> QED
  BY <1>1 DEF SwitchPointer, ClearTemporaries, SetLinkAside, SwitchLink, DropOldLink,
     UndoPointer, ValidationPasses, Step, Activates, Activating, disk, env

LEMMA ActivatesKeeps ==
  ASSUME IInv, Activates
  PROVE  IInv'
<1> USE DEF Preparing, Activating, Completing, Restoring, Switched, Linked
<1>1. Types /\ Disk /\ Goals /\ Updating /\ Pointer
  BY DEF IInv
<1>2. /\ op.goal \in Version /\ op.other \in Version /\ history \in Seq(HistoryEntry)
      /\ \A v \in Version : backup[v].state # Torn
      /\ docs.state # Absent
      /\ op.kind = "update" =>
           /\ op.goal # op.other /\ docs.state = op.other /\ docs.inventory = op.other
           /\ versions[op.goal] = "whole" /\ versions[op.other] = "whole"
  BY <1>1 DEF Activates, Goals, Updating, Disk, Stuck
<1>3. /\ current'.active \in Version => versions[current'.active] # "absent"
      /\ current' \in [active : Version \cup {Absent}, previous : Version \cup {Absent}]
  BY <1>1, <1>2 DEF Activates, PointerAfterUndo, Disk, Types
<1>4. op.kind \in {"none", "update", "recovery", "rollback"}
  BY <1>1 DEF Types, Operation
<1>5. pc' \in Phases \ {"idle", "discovering", "migrating"}
  BY DEF Activates, Phases
<1>6. Types'
  BY <1>1, <1>2, <1>3, <1>5, WholeLists DEF Activates, Types
<1>7. Disk'
  BY <1>1, <1>2, <1>3, <1>5 DEF Activates, Disk
<1>8. Goals'
  BY <1>1, <1>2, <1>4 DEF Activates, Goals
<1>9. Updating'
  BY <1>2 DEF Activates, Updating
<1>10. Pointer'
  BY <1>1 DEF Activates, Pointer
<1>11. Progress'
  <2>1. pc' = "backing_up" => Len(todo') = 3
    BY WholeLists DEF Activates
  <2>2. pc' \notin {"writing", "restoring"}
    BY DEF Activates
  <2> QED
    BY <2>1, <2>2 DEF Progress
<1>12. Outcome'
  BY <1>5 DEF Outcome, CompletedCanBeUndone, RolledBackAgrees, Finished
<1> QED
  BY <1>6, <1>7, <1>8, <1>9, <1>10, <1>11, <1>12 DEF IInv

-----------------------------------------------------------------------------
(* Completing an update.                                                     *)

\* What holds of an update that completes, or of a rollback that restores.
LEMMA LatePhases ==
  ASSUME IInv, pc \in Completing \cup Restoring
  PROVE  /\ op.goal \in Version /\ op.other \in Version /\ history \in Seq(HistoryEntry)
         /\ docs \in Documents /\ backup \in [Version -> Documents]
         /\ current = [active |-> op.goal, previous |-> op.other] /\ link = op.goal
         /\ versions[op.goal] = "whole" /\ docs.state # Absent
         /\ \A v \in Version : backup[v].state \in {Absent, v}
         /\ pc \in Completing =>
              op.kind = "update" /\ op.goal # op.other /\ versions[op.other] = "whole"
  BY DEF IInv, Types, Disk, Stuck, Goals, Updating, Pointer, Activating, Completing,
     Restoring, Switched, Linked

LEMMA BackUpKeeps ==
  ASSUME IInv, BackUp
  PROVE  IInv'
<1> USE DEF Preparing, Activating, Completing, Restoring, Switched, Linked
<1>1. Types /\ Disk /\ Goals /\ Updating /\ Pointer /\ Progress
  BY DEF IInv
<1>2. pc = "backing_up" /\ todo \in ToCopy
  BY <1>1 DEF BackUp, Types
<1>3. PICK n \in DocumentName : n = Head(todo)
  BY <1>2, CopyFacts
<1>4. /\ op.goal \in Version /\ op.other \in Version /\ history \in Seq(HistoryEntry)
      /\ docs \in Documents /\ backup \in [Version -> Documents]
      /\ \A v \in Version : backup[v].state \in {Absent, v}
      /\ docs.state = op.other /\ docs.inventory = op.other
      /\ op.kind = "update"
  BY <1>1, <1>2, LatePhases DEF Updating
<1>5. UNCHANGED <<current, link, docs, history, versions, staging, op, aside, report>>
  BY DEF BackUp
<1>6. /\ backup' \in [Version -> Documents]
      /\ \A v \in Version : v # op.other => backup'[v] = backup[v]
      /\ backup'[op.other] = [backup[op.other] EXCEPT ![n] = docs[n]]
  <2>1. backup' = [backup EXCEPT ![op.other][n] = docs[n]]
    BY <1>3 DEF BackUp, BackupSource
  <2>2. docs[n] \in Document
    BY <1>4, DocumentFacts
  <2> QED
    BY <1>4, <2>1, <2>2, BackupFacts
<1>7. /\ IF n = "state" THEN backup'[op.other].state = op.other
                        ELSE backup'[op.other].state = backup[op.other].state
      /\ IF n = "inventory" THEN backup'[op.other].inventory = op.other
                            ELSE backup'[op.other].inventory = backup[op.other].inventory
  <2>1. backup[op.other] \in Documents
    BY <1>4
  <2> QED
    BY <1>4, <1>6, <2>1 DEF Documents, DocumentName
<1>8. PICK k \in 1 .. 3 : k = Len(todo) /\ (k = 3 <=> n = "state")
                            /\ (k = 2 <=> n = "inventory")
  BY <1>2, <1>3, CopyFacts
<1>9. \/ k > 1 /\ pc' = "backing_up" /\ todo' \in ToCopy /\ Len(todo') = k - 1
      \/ k = 1 /\ pc' = "writing" /\ todo' \in ToWrite /\ Len(todo') = 4
  <2>1. CASE k > 1
    <3>1. pc' = pc /\ todo' = Tail(todo)
      BY <1>8, <2>1 DEF BackUp
    <3>2. Tail(todo) \in ToCopy /\ Len(Tail(todo)) = k - 1
      BY <1>2, <1>8, <2>1, CopyFacts
    <3> QED
      BY <1>2, <2>1, <3>1, <3>2
  <2>2. CASE k = 1
    <3>1. pc' = "writing" /\ todo' = DocumentsToWrite
      BY <1>8, <2>2 DEF BackUp
    <3> QED
      BY <2>2, <3>1, WholeLists
  <2> QED
    BY <2>1, <2>2
<1>10. Types'
  BY <1>1, <1>5, <1>6, <1>9 DEF Types, Phases
<1>11. Disk'
  <2>1. \A v \in Version : backup'[v].state \in {Absent, v}
    BY <1>4, <1>6, <1>7
  <2> QED
    BY <1>1, <1>2, <1>5, <1>9, <2>1, DocumentFacts DEF Disk
<1>12. Goals' /\ Updating' /\ Pointer'
  BY <1>1, <1>2, <1>5, <1>9 DEF Goals, Updating, Pointer
<1>13. Progress'
  <2>1. /\ k < 3 => backup[op.other].state = op.other
        /\ k < 2 => backup[op.other].inventory = op.other
    BY <1>1, <1>2, <1>8 DEF Progress
  <2>2. /\ backup'[op.other].state = op.other
        /\ k < 3 => backup'[op.other].inventory = op.other
    BY <1>7, <1>8, <2>1
  <2>3. CASE pc' = "backing_up"
    <3>1. k > 1 /\ Len(todo') = k - 1
      BY <1>9, <2>3
    <3>2. Len(todo') < 2 => k < 3
      BY <3>1
    <3> QED
      BY <1>5, <2>2, <2>3, <3>2 DEF Progress
  <2>4. CASE pc' = "writing"
    <3>1. k = 1 /\ Len(todo') = 4
      BY <1>9, <2>4
    <3>2. ~(Len(todo') < 4) /\ ~(Len(todo') < 3) /\ ~(Len(todo') < 2) /\ k < 3
      BY <3>1
    <3> QED
      BY <1>4, <1>5, <2>2, <2>4, <3>2 DEF Progress
  <2> QED
    BY <1>9, <2>3, <2>4
<1>14. Outcome'
  BY <1>9 DEF Outcome, CompletedCanBeUndone, RolledBackAgrees, Finished
<1> QED
  BY <1>10, <1>11, <1>12, <1>13, <1>14 DEF IInv

\* An entry at the end of the history.
LEMMA LogFacts ==
  ASSUME NEW from \in Version, NEW to \in Version, NEW s \in {"success", "rolled_back"},
         history \in Seq(HistoryEntry), Log(from, to, s)
  PROVE  /\ history' \in Seq(HistoryEntry)
         /\ history'[Len(history')] = [from |-> from, to |-> to, status |-> s]
<1>1. [from |-> from, to |-> to, status |-> s] \in HistoryEntry
  BY DEF HistoryEntry
<1> QED
  BY <1>1 DEF Log

LEMMA WriteKeeps ==
  ASSUME IInv, Write
  PROVE  IInv'
<1> USE DEF Preparing, Activating, Completing, Restoring, Switched, Linked
<1>1. Types /\ Disk /\ Goals /\ Updating /\ Pointer /\ Progress
  BY DEF IInv
<1>2. pc = "writing" /\ todo \in ToWrite
  BY <1>1 DEF Write, Types
<1>3. /\ op.goal \in Version /\ op.other \in Version /\ history \in Seq(HistoryEntry)
      /\ docs \in Documents
      /\ current = [active |-> op.goal, previous |-> op.other] /\ link = op.goal
      /\ versions[op.goal] = "whole" /\ versions[op.other] = "whole"
      /\ \A v \in Version : backup[v].state \in {Absent, v}
      /\ op.kind = "update" /\ op.goal # op.other
      /\ backup[op.other].state = op.other /\ backup[op.other].inventory = op.other
  BY <1>1, <1>2, LatePhases DEF Progress
<1>4. UNCHANGED <<current, link, versions, backup, op, aside>>
  BY DEF Write
<1>5. CASE Head(todo) = "history"
  <2>1. docs' = docs /\ Log(op.other, op.goal, "success")
    BY <1>5 DEF Write
  <2>2. history' \in Seq(HistoryEntry) /\ Succeeded'
    BY <1>3, <1>4, <2>1, LogFacts DEF Succeeded
  <2>3. /\ Len(todo) = 2 /\ pc' = pc /\ todo' \in ToWrite /\ Len(todo') = 1
        /\ staging' = staging /\ report' = report
    <3>1. Len(todo) = 2
      BY <1>2, <1>5, WriteFacts
    <3>2. pc' = pc /\ todo' = Tail(todo) /\ staging' = staging /\ report' = report
      BY <3>1 DEF Write
    <3>3. Tail(todo) \in ToWrite /\ Len(Tail(todo)) = 1
      BY <1>2, <3>1, WriteFacts
    <3> QED
      BY <3>1, <3>2, <3>3
  <2>4. Types'
    BY <1>1, <1>2, <1>4, <2>1, <2>2, <2>3 DEF Types
  <2>5. Disk' /\ Goals' /\ Updating' /\ Pointer'
    BY <1>1, <1>2, <1>3, <1>4, <2>1, <2>2, <2>3, DocumentFacts DEF Disk, Stuck, Goals, Updating,
       Pointer
  <2>6. Progress'
    BY <1>1, <1>2, <1>4, <2>1, <2>2, <2>3 DEF Progress
  <2>7. Outcome'
    BY <1>2, <2>3 DEF Outcome, CompletedCanBeUndone, RolledBackAgrees, Finished
  <2> QED
    BY <2>4, <2>5, <2>6, <2>7 DEF IInv
<1>6. CASE Head(todo) # "history"
  <2>1. PICK n \in DocumentName : n = Head(todo)
    BY <1>2, <1>6, WriteFacts
  <2>2. docs' = [docs EXCEPT ![n] = op.goal] /\ history' = history
    BY <1>6, <2>1 DEF Write
  <2>3. /\ docs' \in Documents
        /\ IF n = "state" THEN docs'.state = op.goal ELSE docs'.state = docs.state
        /\ IF n = "inventory" THEN docs'.inventory = op.goal
                              ELSE docs'.inventory = docs.inventory
        /\ IF n = "manifest" THEN docs'.manifest = op.goal
                             ELSE docs'.manifest = docs.manifest
    BY <1>3, <2>1, <2>2, DocumentFacts DEF Documents, DocumentName
  <2>4. PICK k \in 1 .. 4 :
          /\ k = Len(todo) /\ k # 2 /\ (k = 4 <=> n = "state")
          /\ (k = 3 <=> n = "inventory") /\ (k = 1 <=> n = "manifest")
    BY <1>2, <1>6, <2>1, WriteFacts
  <2>5. docs'.state = op.goal
    <3>1. CASE k = 4
      BY <2>3, <2>4, <3>1
    <3>2. CASE k < 4
      <4>1. docs.state = op.goal
        BY <1>1, <1>2, <2>4, <3>2 DEF Progress
      <4> QED
        BY <2>3, <2>4, <3>2, <4>1
    <3> QED
      BY <3>1, <3>2
  <2>6. staging' \in [Version -> Directory]
    BY <1>1, FinishGives DEF Write, Types
  <2>7. Disk'
    BY <1>3, <1>4, <2>5, DocumentFacts DEF Disk, Write, Finish
  <2>8. CASE k > 1
    <3>1. pc' = pc /\ todo' \in ToWrite /\ Len(todo') = k - 1 /\ report' = report
      <4>1. \/ pc' = pc /\ todo' = Tail(todo) /\ report' = report
            \/ Len(todo) = 1
        BY DEF Write
      <4>2. Len(todo) # 1
        BY <2>4, <2>8
      <4> QED
        BY <1>2, <2>4, <2>8, <4>1, <4>2, WriteFacts
    <3>2. Types'
      BY <1>1, <1>2, <1>4, <2>2, <2>3, <2>6, <3>1 DEF Types
    <3>3. Goals' /\ Updating' /\ Pointer'
      BY <1>1, <1>2, <1>4, <2>2, <3>1 DEF Goals, Updating, Pointer
    <3>4. Progress'
      <4>1. ~(Len(todo') = 4) /\ ~(Len(todo') < 2) /\ (Len(todo') < 3 => k = 3)
        <5>1. k = 3 \/ k = 4
          BY <2>4, <2>8
        <5>2. CASE k = 3
          BY <3>1, <5>2
        <5>3. CASE k = 4
          BY <3>1, <5>3
        <5> QED
          BY <5>1, <5>2, <5>3
      <4>2. k = 3 => docs'.inventory = op.goal
        BY <2>3, <2>4
      <4> QED
        BY <1>2, <1>3, <1>4, <2>5, <3>1, <4>1, <4>2 DEF Progress
    <3>5. Outcome'
      BY <1>2, <3>1 DEF Outcome, CompletedCanBeUndone, RolledBackAgrees, Finished
    <3> QED
      BY <2>7, <3>2, <3>3, <3>4, <3>5 DEF IInv
  <2>9. CASE k = 1
    <3>1. pc' = "idle" /\ todo' = <<>> /\ report' = "completed"
      BY <2>4, <2>9 DEF Write, Finish
    <3>2. Types'
      BY <1>1, <1>4, <2>2, <2>3, <2>6, <3>1 DEF Types, Phases, Reports
    <3>3. Goals' /\ Updating' /\ Pointer' /\ Progress'
      BY <1>1, <1>4, <3>1 DEF Goals, Updating, Pointer, Progress
    <3>4. docs.inventory = op.goal /\ Succeeded
      BY <1>1, <1>2, <2>4, <2>9 DEF Progress
    <3>5. docs'.inventory = op.goal /\ docs'.manifest = op.goal
      BY <2>3, <2>4, <2>9, <3>4
    <3>6. history # Absent
      BY <1>3, AbsentIsNoHistory
    <3>7. Outcome'
      BY <1>3, <1>4, <2>2, <2>5, <3>1, <3>4, <3>5, <3>6 DEF Outcome, CompletedCanBeUndone,
         RolledBackAgrees, Finished, Discoverable, Succeeded
    <3> QED
      BY <2>7, <3>2, <3>3, <3>7 DEF IInv
  <2> QED
    BY <2>4, <2>8, <2>9
<1> QED
  BY <1>5, <1>6

-----------------------------------------------------------------------------
(* Rolling back.                                                             *)

LEMMA RecordKeeps ==
  ASSUME IInv, RecordRollback
  PROVE  IInv'
<1> USE DEF Preparing, Activating, Completing, Restoring, Switched, Linked
<1>1. Types /\ Disk /\ Goals /\ Updating /\ Pointer
  BY DEF IInv
<1>2. pc = "recording" /\ pc' = "restoring"
  BY DEF RecordRollback, Step
<1>3. /\ op.goal \in Version /\ op.other \in Version /\ history \in Seq(HistoryEntry)
      /\ \A v \in Version : backup[v].state \in {Absent, v}
      /\ op.kind \in {"recovery", "rollback"}
  BY <1>1, <1>2, LatePhases DEF Goals
<1>4. UNCHANGED <<current, link, docs, versions, staging, backup, op, aside, report>>
  BY DEF RecordRollback
<1>5. history' \in Seq(HistoryEntry) /\ RolledBack'
  <2>1. Log(op.goal, op.other, "rolled_back")
    BY DEF RecordRollback
  <2> QED
    BY <1>3, <1>4, <2>1, LogFacts DEF RolledBack
<1>6. \/ todo' = <<>>
      \/ todo' \in ToCopy /\ Len(todo') = 3 /\ op.kind = "rollback"
           /\ backup[op.goal].state = op.goal
  <2>1. CASE op.kind = "rollback" /\ backup[op.goal].state # Absent
    BY <1>3, <2>1, WholeLists DEF RecordRollback
  <2>2. CASE ~(op.kind = "rollback" /\ backup[op.goal].state # Absent)
    BY <2>2 DEF RecordRollback
  <2> QED
    BY <2>1, <2>2
<1>7. Types'
  BY <1>1, <1>2, <1>4, <1>5, <1>6 DEF Types, Phases
<1>8. Disk' /\ Goals' /\ Updating' /\ Pointer'
  BY <1>1, <1>2, <1>3, <1>4, <1>5, DocumentFacts DEF Disk, Stuck, Goals, Updating, Pointer
<1>9. Progress'
  <2>1. todo' # <<>> => op.kind = "rollback" /\ backup[op.goal].state = op.goal
                         /\ ~(Len(todo') < 3)
    <3>1. Len(todo') = 3 => ~(Len(todo') < 3)
      OBVIOUS
    <3> QED
      BY <1>6, <3>1
  <2> QED
    BY <1>2, <1>4, <1>5, <2>1 DEF Progress
<1>10. Outcome'
  BY <1>2 DEF Outcome, CompletedCanBeUndone, RolledBackAgrees, Finished
<1> QED
  BY <1>7, <1>8, <1>9, <1>10 DEF IInv

\* A rollback that has restored what it restores.
LEMMA RollbackEnds ==
  ASSUME IInv, pc = "restoring", pc' = "idle", todo' = <<>>, report' = "rolled_back",
         UNCHANGED <<current, link, history, versions, backup, op, aside>>,
         docs' \in Documents, docs'.state = op.goal, staging' \in [Version -> Directory]
  PROVE  IInv'
<1> USE DEF Preparing, Activating, Completing, Restoring, Switched, Linked
<1>1. Types /\ Disk /\ Goals /\ Updating /\ Pointer /\ Progress
  BY DEF IInv
<1>2. /\ op.goal \in Version /\ versions[op.goal] = "whole" /\ link = op.goal
      /\ current = [active |-> op.goal, previous |-> op.other] /\ RolledBack
      /\ \A v \in Version : backup[v].state \in {Absent, v}
      /\ op.kind \in {"recovery", "rollback"}
  BY <1>1, LatePhases DEF Progress, Goals
<1>3. Types'
  BY <1>1 DEF Types, Phases, Reports
<1>4. Disk'
  BY <1>2, DocumentFacts DEF Disk
<1>5. Goals' /\ Updating' /\ Pointer' /\ Progress'
  BY <1>1, <1>2 DEF Goals, Updating, Pointer, Progress
<1>6. Outcome'
  BY <1>2 DEF Outcome, CompletedCanBeUndone, RolledBackAgrees, Finished, RolledBack
<1> QED
  BY <1>3, <1>4, <1>5, <1>6 DEF IInv

LEMMA RestoreKeeps ==
  ASSUME IInv, RestoreFromBackup \/ RestoreStateOnly
  PROVE  IInv'
<1> USE DEF Preparing, Activating, Completing, Restoring, Switched, Linked
<1>1. Types /\ Disk /\ Goals /\ Updating /\ Pointer /\ Progress
  BY DEF IInv
<1>2. pc = "restoring" /\ UNCHANGED <<current, link, history, versions, backup, op, aside>>
  BY DEF RestoreFromBackup, RestoreStateOnly
<1>3. /\ op.goal \in Version /\ docs \in Documents /\ backup \in [Version -> Documents]
      /\ versions[op.goal] = "whole" /\ docs.state # Absent
      /\ \A v \in Version : backup[v].state \in {Absent, v}
      /\ op.kind \in {"recovery", "rollback"}
  BY <1>1, <1>2, LatePhases DEF Goals
<1>4. CASE RestoreStateOnly
  <2>1. pc' = "idle" /\ todo' = <<>> /\ report' = "rolled_back"
        /\ staging' \in [Version -> Directory]
    BY <1>1, <1>4, FinishGives DEF RestoreStateOnly
  <2>2. docs' = [docs EXCEPT !.state = op.goal]
    BY <1>4 DEF RestoreStateOnly, StateAfterRecovery
  <2>3. docs' \in Documents /\ docs'.state = op.goal
    BY <1>3, <2>2, DocumentFacts DEF Documents
  <2> QED
    BY <1>2, <2>1, <2>3, RollbackEnds
<1>5. CASE RestoreFromBackup
  <2>1. todo \in ToCopy /\ todo # <<>>
    BY <1>1, <1>2, <1>5 DEF RestoreFromBackup, Types
  <2>2. PICK n \in DocumentName : n = Head(todo)
    BY <2>1, CopyFacts
  <2>3. PICK k \in 1 .. 3 : k = Len(todo) /\ (k = 3 <=> n = "state")
    BY <2>1, <2>2, CopyFacts
  <2>4. backup[op.goal].state = op.goal /\ op.kind = "rollback"
        /\ (k < 3 => docs.state = op.goal)
    BY <1>1, <1>2, <2>1, <2>3 DEF Progress
  <2>5. docs' = docs \/ docs' = [docs EXCEPT ![n] = backup[op.goal][n]]
    BY <1>5, <2>2 DEF RestoreFromBackup
  <2>6. n = "state" => docs' = [docs EXCEPT ![n] = backup[op.goal][n]]
    BY <1>3, <1>5, <2>2, <2>4, DocumentFacts DEF RestoreFromBackup
  <2>7. docs' \in Documents /\ docs'.state = op.goal
    <3>1. backup[op.goal] \in Documents
      BY <1>3
    <3>2. backup[op.goal][n] \in Document
      BY <3>1, DocumentFacts
    <3>3. CASE n = "state"
      BY <1>3, <2>4, <2>6, <3>2, <3>3 DEF Documents, DocumentName
    <3>4. CASE n # "state"
      <4>1. docs.state = op.goal
        BY <2>3, <2>4, <3>4
      <4> QED
        BY <1>3, <2>5, <3>2, <3>4, <4>1 DEF Documents, DocumentName
    <3> QED
      BY <3>3, <3>4
  <2>8. CASE k = 1
    <3>1. Finish("rolled_back")
      BY <1>5, <2>3, <2>8 DEF RestoreFromBackup
    <3> QED
      BY <1>1, <1>2, <2>7, <3>1, FinishGives, RollbackEnds
  <2>9. CASE k > 1
    <3>1. todo' = Tail(todo) /\ UNCHANGED <<staging, pc, report>>
      BY <1>5, <2>3, <2>9 DEF RestoreFromBackup
    <3>2. todo' \in ToCopy
      BY <2>1, <2>3, <2>9, <3>1, CopyFacts
    <3>3. Types'
      BY <1>1, <1>2, <2>7, <3>1, <3>2 DEF Types
    <3>4. Disk'
      BY <1>2, <1>3, <1>1, <2>7, <3>1, DocumentFacts DEF Disk
    <3>5. Goals' /\ Updating' /\ Pointer'
      BY <1>1, <1>2, <1>3, <3>1 DEF Goals, Updating, Pointer
    <3>6. Progress'
      BY <1>1, <1>2, <2>4, <2>7, <3>1 DEF Progress, RolledBack
    <3>7. Outcome'
      BY <1>2, <3>1 DEF Outcome, CompletedCanBeUndone, RolledBackAgrees, Finished
    <3> QED
      BY <3>3, <3>4, <3>5, <3>6, <3>7 DEF IInv
  <2> QED
    BY <2>8, <2>9
<1> QED
  BY <1>4, <1>5

-----------------------------------------------------------------------------
(* Where an operation came from.                                             *)

\* The operation found a v1.1 installation: nothing is migrated.
Untouched == before.docs.state # Absent

\* A v1.0 installation has no pointer and no backup, and is migrated once.
Origin ==
  /\ docs.state = Absent \/ pc = "migrating" =>
       /\ \A v \in Version : backup[v] = NoDocuments
       /\ current.previous = Absent
  /\ docs.state = Absent => current.active = Absent
  /\ before.docs.state = Absent => before.current.active = Absent
  /\ pc = "migrating" =>
       /\ ~Untouched
       /\ docs.state = Absent <=> Head(todo) = "state"
  /\ docs.manifest # Absent
  /\ faults \in Nat
  /\ pc \in {"undo_pointer", "undo_link"} => faults > 0

\* What of the installation the operation started from is still there: all of
\* it before the pointer moves, the documents and the old link until a way
\* back is no longer needed.
Journey ==
  /\ pc = "undo_link" /\ op.kind = "update" =>
       current = [active |-> op.other, previous |-> op.goal]
  /\ Untouched =>
       /\ Pristine =>
            current = before.current /\ docs = before.docs /\ link = before.link
       /\ op.kind = "update" /\ pc \in (Activating \ {"switching"}) \cup {"backing_up"}
            => docs = before.docs /\ aside = before.link /\ op.other = before.current.active
       /\ pc = "writing" => docs.manifest = before.docs.manifest
       /\ op.kind = "recovery" /\ pc \in Activating \cup Restoring /\ faults = 0
             /\ before.docs.manifest \in Version
            => docs = before.docs /\ docs.state = op.goal /\ docs.inventory = op.goal

\* Of the releases after x none was ever left for a later one.
ClearAbove(x) == \A v \in Version : v > x => backup[v] = NoDocuments

BackedUp(v) ==
  backup[v].state = v /\ backup[v].inventory = v /\ backup[v].manifest # Absent

\* The previous version of a usable installation is either an older one whose
\* documents are backed up, or a newer one that has no backup.
Lineage(active, previous) ==
  /\ ClearAbove(active)
  /\ previous # active
  /\ previous \in Version /\ previous < active =>
       ClearAbove(previous) /\ BackedUp(previous)

EitherWay == current \in {[active |-> op.goal, previous |-> op.other],
                          [active |-> op.other, previous |-> op.goal]}

Descent ==
  /\ pc \in {"idle", "discovering"} /\ Discoverable =>
       Lineage(current.active, current.previous)
  /\ op.kind = "update" /\ pc \in Preparing \cup Activating \cup Completing =>
       /\ op.other < op.goal /\ ClearAbove(op.other)
       /\ pc \in Preparing \cup {"switching"} => Lineage(current.active, current.previous)
       /\ pc \in Activating \ {"switching"} => EitherWay
       /\ pc = "writing" => BackedUp(op.other)
  /\ op.kind = "recovery" /\ pc \in Activating \cup Restoring =>
       /\ op.goal < op.other /\ ClearAbove(op.goal) /\ EitherWay
       /\ docs.state = op.goal \/ (docs.inventory = op.other /\ BackedUp(op.goal))
  /\ op.kind = "rollback" /\ pc \in Activating \cup Restoring =>
       /\ Lineage(op.other, op.goal) /\ EitherWay
       /\ pc # "restoring" => docs.state = op.other /\ docs.inventory = op.other
       /\ pc = "restoring" =>
            IF op.goal < op.other
            THEN todo # <<>> /\ (Len(todo) < 2 => docs.inventory = op.goal)
            ELSE todo = <<>> /\ docs.inventory = op.other

Results == FailedUpdateIsContained /\ RollbackRestoresDocuments

Way == Origin /\ Journey /\ Descent /\ Results

LEMMA OlderIsOther ==
  ASSUME NEW x \in Version, NEW y \in Version, x < y
  PROVE  x # y
<1>1. x \in Nat
  BY VersionsAreOrdered
<1> QED
  BY <1>1

LEMMA ClearHigher ==
  ASSUME NEW x \in Version, NEW y \in Version, x < y, ClearAbove(x)
  PROVE  ClearAbove(y)
<1>1. \A v \in Version : v > y => v > x
  BY VersionsAreOrdered
<1> QED
  BY <1>1 DEF ClearAbove

\* Going back to the older of the two turns the pair around.
LEMMA TurnedAround ==
  ASSUME NEW x \in Version, NEW y \in Version, x < y, ClearAbove(x)
  PROVE  Lineage(x, y) /\ (BackedUp(x) => Lineage(y, x))
<1>1. ~(y < x) /\ x # y
  BY VersionsAreOrdered
<1> QED
  BY <1>1, ClearHigher DEF Lineage

\* A rollback goes to an older version that has a backup, or to a newer one
\* that has none.
LEMMA RollbackGoals ==
  ASSUME NEW g \in Version, NEW a \in Version, Lineage(a, g)
  PROVE  /\ g < a => Lineage(g, a) /\ BackedUp(g)
         /\ ~(g < a) => backup[g] = NoDocuments /\ g # a
<1>1. CASE g < a
  BY <1>1, TurnedAround DEF Lineage
<1>2. CASE ~(g < a)
  <2>1. g > a
    BY <1>2, VersionsAreOrdered DEF Lineage
  <2> QED
    BY <1>2, <2>1 DEF Lineage, ClearAbove
<1> QED
  BY <1>1, <1>2

-----------------------------------------------------------------------------
(* Interruptions on the way.                                                 *)

LEMMA QuitsDescent ==
  ASSUME IInv, Origin, Descent, Quits
  PROVE  Descent'
<1> USE DEF Preparing, Activating, Completing, Restoring, Switched, Linked
<1>1. pc' = "idle" /\ pc # "idle" /\ UNCHANGED <<current, versions, history, op>>
  BY DEF Quits
<1>2. SUFFICES ASSUME Discoverable'
               PROVE  Lineage(current.active, current.previous)'
  BY <1>1 DEF Descent
<1>3. /\ current.active \in Version /\ docs'.state = current.active
      /\ docs'.inventory = current.active
  BY <1>1, <1>2 DEF Discoverable
<1>4. Types /\ Disk /\ Goals /\ Updating /\ Pointer /\ Progress
  BY DEF IInv
<1>5. op.kind \in {"none", "update", "recovery", "rollback"} /\ pc \in Phases
  BY <1>4 DEF Types, Operation
<1>6. /\ pc \in Preparing \cup Activating \cup Completing \cup Restoring =>
           op.goal \in Version /\ op.other \in Version /\ op.kind # "none"
      /\ pc \in Preparing \cup Completing => op.kind = "update"
      /\ pc \in Restoring => op.kind \in {"recovery", "rollback"}
  BY <1>4 DEF Goals, Updating
<1>7. docs' = docs \/ (pc = "restoring" /\ todo # <<>> /\ op.kind = "rollback")
  BY <1>4 DEF Quits, Progress
<1>8. backup' = backup
  <2>1. pc = "backing_up" =>
          docs' = docs /\ docs.state = op.other /\ current.active = op.goal /\ op.other < op.goal
    BY <1>4, <1>6, <1>7 DEF Updating, Pointer, Descent
  <2>2. pc # "backing_up"
    BY <1>3, <1>6, <2>1, OlderIsOther
  <2> QED
    BY <2>2 DEF Quits
<1>9. Lineage(current.active, current.previous)
  <2>1. CASE pc = "discovering"
    <3>1. Discoverable
      BY <1>1, <1>2, <1>7, <2>1 DEF Discoverable
    <3> QED
      BY <2>1, <3>1 DEF Descent
  <2>2. CASE pc = "migrating"
    BY <1>3, <2>2, MarksAreNotVersions DEF Origin, Lineage, ClearAbove
  <2>3. CASE pc \in Preparing \/ (pc = "switching" /\ op.kind = "update")
    BY <1>6, <2>3 DEF Descent
  <2>4. CASE op.kind = "update" /\ pc \in Activating \ {"switching"}
    <3>1. docs.state = op.other /\ EitherWay /\ op.other < op.goal /\ ClearAbove(op.other)
      BY <1>4, <2>4 DEF Updating, Descent
    <3>2. op.goal # op.other
      BY <1>6, <2>4, <3>1, OlderIsOther
    <3>3. current.active = op.other /\ current.previous = op.goal
      BY <1>3, <1>7, <2>4, <3>1, <3>2 DEF EitherWay
    <3> QED
      BY <1>6, <2>4, <3>1, <3>3, TurnedAround
  <2>5. CASE pc = "backing_up"
    <3>1. docs.state = op.other /\ current.active = op.goal /\ op.other < op.goal
      BY <1>4, <1>6, <2>5 DEF Updating, Pointer, Descent
    <3> QED
      BY <1>3, <1>6, <1>7, <2>5, <3>1, OlderIsOther
  <2>6. CASE pc = "writing"
    <3>1. /\ current = [active |-> op.goal, previous |-> op.other]
          /\ op.other < op.goal /\ ClearAbove(op.other) /\ BackedUp(op.other)
      BY <1>4, <1>6, <2>6 DEF Pointer, Descent
    <3> QED
      BY <1>6, <2>6, <3>1, TurnedAround
  <2>7. CASE op.kind = "recovery" /\ pc \in Activating \cup Restoring
    <3>1. /\ op.goal < op.other /\ ClearAbove(op.goal) /\ EitherWay
          /\ docs.state = op.goal \/ (docs.inventory = op.other /\ BackedUp(op.goal))
      BY <2>7 DEF Descent
    <3>2. op.goal # op.other
      BY <1>6, <2>7, <3>1, OlderIsOther
    <3>3. CASE current = [active |-> op.goal, previous |-> op.other]
      BY <1>6, <2>7, <3>1, <3>3, TurnedAround
    <3>4. CASE current = [active |-> op.other, previous |-> op.goal]
      <4>1. BackedUp(op.goal)
        BY <1>3, <1>7, <2>7, <3>1, <3>2, <3>4
      <4> QED
        BY <1>6, <2>7, <3>1, <3>4, <4>1, TurnedAround
    <3> QED
      BY <3>1, <3>3, <3>4 DEF EitherWay
  <2>8. CASE op.kind = "rollback" /\ pc \in (Activating \cup Restoring) \ {"restoring"}
    <3>1. Lineage(op.other, op.goal) /\ EitherWay /\ docs.state = op.other
      BY <2>8 DEF Descent
    <3>2. op.goal # op.other
      BY <3>1 DEF Lineage
    <3>3. current.active = op.other /\ current.previous = op.goal
      BY <1>3, <1>7, <2>8, <3>1, <3>2 DEF EitherWay
    <3> QED
      BY <3>1, <3>3
  <2>9. CASE op.kind = "rollback" /\ pc = "restoring"
    <3>1. /\ Lineage(op.other, op.goal)
          /\ ~(op.goal < op.other) => todo = <<>> /\ docs.inventory = op.other
          /\ current = [active |-> op.goal, previous |-> op.other]
      BY <1>4, <2>9 DEF Descent, Pointer
    <3>2. op.goal < op.other
      BY <1>3, <1>7, <3>1 DEF Lineage
    <3> QED
      BY <1>6, <2>9, <3>1, <3>2, RollbackGoals
  <2> QED
    BY <1>1, <1>5, <1>6, <2>1, <2>2, <2>3, <2>4, <2>5, <2>6, <2>7, <2>8, <2>9 DEF Phases
<1> QED
  BY <1>1, <1>8, <1>9 DEF Lineage, ClearAbove, BackedUp

LEMMA QuitsWay ==
  ASSUME IInv, Way, Exposure, Quits
  PROVE  Way'
<1> USE DEF Preparing, Activating, Completing, Restoring
<1>1. Origin /\ Journey /\ Descent /\ Types /\ Disk /\ Goals
  BY DEF Way, IInv
<1>2. /\ pc' = "idle" /\ pc # "idle" /\ UNCHANGED <<current, op, before>>
      /\ report' # "rolled_back" /\ faults \in Nat /\ faults' \in {faults, faults + 1}
  BY <1>1 DEF Quits, Origin
<1>3. pc = "restoring" /\ todo # <<>> => Head(todo) \in DocumentName
  BY <1>1, CopyFacts DEF Types
<1>4. docs'.state = Absent => docs' = docs
  <2>1. CASE docs' = docs
    BY <2>1
  <2>2. CASE pc = "restoring" /\ todo # <<>> /\ docs' = [docs EXCEPT ![Head(todo)] = Torn]
    <3>1. docs'.state \in {docs.state, Torn}
      BY <1>1, <1>3, <2>2 DEF Types, Documents, DocumentName
    <3> QED
      BY <1>1, <2>2, <3>1, MarksAreNotVersions DEF Disk
  <2> QED
    BY <2>1, <2>2 DEF Quits
<1>5. docs'.manifest # Absent
  <2>1. CASE docs' = docs
    BY <1>1, <2>1 DEF Origin
  <2>2. CASE pc = "restoring" /\ todo # <<>> /\ docs' = [docs EXCEPT ![Head(todo)] = Torn]
    <3>1. docs'.manifest \in {docs.manifest, Torn}
      BY <1>1, <1>3, <2>2 DEF Types, Documents, DocumentName
    <3> QED
      BY <1>1, <3>1, MarksAreNotVersions DEF Origin
  <2> QED
    BY <2>1, <2>2 DEF Quits
<1>6. docs'.state = Absent => backup' = backup
  <2>1. pc = "backing_up" => docs.state # Absent
    BY <1>1 DEF Disk
  <2> QED
    BY <1>4, <2>1 DEF Quits
<1>7. Origin'
  BY <1>1, <1>2, <1>4, <1>5, <1>6 DEF Origin, Untouched
<1>8. Journey'
  BY <1>2 DEF Journey, Pristine
<1>9. FailedUpdateIsContained'
  <2> SUFFICES ASSUME op.kind = "update", report' = "failed", faults' <= 1,
                      before.current.active \in Version
               PROVE  /\ docs' = before.docs
                      /\ before.link # Absent => link' = before.link
                      /\ exposed' => current = [active |-> op.goal,
                                               previous |-> before.current.active]
                      /\ ~exposed' => current.active = before.current.active
    BY <1>2 DEF FailedUpdateIsContained, Finished
  <2>1. Untouched
    BY <1>1, MarksAreNotVersions DEF Origin, Untouched
  <2>2. ~(pc \in {"undo_pointer", "undo_link"} /\ faults' = faults + 1)
    BY <1>1, <1>2 DEF Origin
  <2>3. exposed' => pc = "clearing"
    BY <1>2 DEF Exposure, Quits
  <2>4. CASE Pristine /\ docs' = docs /\ link' = link
    <3>1. ~exposed'
      BY <2>3, <2>4 DEF Pristine
    <3> QED
      BY <1>1, <2>1, <2>4, <3>1 DEF Journey
  <2>5. CASE pc = "clearing" /\ docs' = docs /\ link' = link /\ exposed'
    <3>1. docs = before.docs /\ aside = before.link /\ op.other = before.current.active
      BY <1>1, <2>1, <2>5 DEF Journey
    <3>2. current = [active |-> op.goal, previous |-> op.other] /\ link = aside
      BY <2>5 DEF IInv, Pointer, Switched
    <3> QED
      BY <2>5, <3>1, <3>2
  <2>6. CASE pc = "undo_link" /\ docs' = docs /\ link' = IF aside = Absent THEN link ELSE aside
    <3>1. docs = before.docs /\ aside = before.link /\ op.other = before.current.active
      BY <1>1, <2>1, <2>6 DEF Journey
    <3>2. current.active = op.other
      BY <1>1, <2>6 DEF Journey
    <3> QED
      BY <2>3, <2>6, <3>1, <3>2
  <2> QED
    BY <2>2, <2>4, <2>6, <2>5 DEF Quits
<1>10. RollbackRestoresDocuments'
  BY <1>2 DEF RollbackRestoresDocuments, Finished
<1>11. Descent'
  BY <1>1, QuitsDescent
<1> QED
  BY <1>7, <1>8, <1>9, <1>10, <1>11 DEF Way, Results

\* No result is told while an operation runs.
LEMMA RunningTellsNothing ==
  ASSUME pc' # "idle" \/ report' \notin {"failed", "rolled_back"}
  PROVE  Results'
  BY DEF Results, FailedUpdateIsContained, RollbackRestoresDocuments, Finished

LEMMA RecoversWay ==
  ASSUME IInv, Way, Recovers
  PROVE  Way'
<1> USE DEF Preparing, Activating, Completing, Restoring, Switched
<1>1. /\ Origin /\ Journey /\ Descent /\ Types /\ Disk /\ Goals /\ Updating /\ Pointer
      /\ Progress
  BY DEF Way, IInv
<1>2. /\ pc' = "switching" /\ op' = [kind |-> "recovery", goal |-> op.other, other |-> op.goal]
      /\ UNCHANGED <<current, link, docs, history, versions, backup, aside, before>>
      /\ op.kind = "update" /\ pc \in {"validating", "backing_up", "writing"}
  BY DEF Recovers, BeginRecovery
<1>3. /\ op.goal \in Version /\ op.other \in Version /\ op.other < op.goal
      /\ ClearAbove(op.other) /\ docs.state # Absent
      /\ current = [active |-> op.goal, previous |-> op.other]
  BY <1>1, <1>2 DEF Goals, Descent, Pointer, Disk
<1>4. faults \in Nat /\ faults' \in {faults, faults + 1}
  BY <1>1 DEF Origin, Recovers
<1>5. Origin'
  BY <1>1, <1>2, <1>3, <1>4 DEF Origin, Untouched
<1>6. docs.state = op.other \/ (docs.inventory = op.goal /\ BackedUp(op.other))
  <2>1. CASE pc = "writing"
    <3>1. Head(todo) = "manifest" /\ todo \in ToWrite
      BY <1>1, <2>1 DEF Recovers, Types
    <3>2. Len(todo) = 1
      BY <3>1, WriteFacts
    <3>3. Len(todo) < 3
      BY <3>2
    <3> QED
      BY <1>1, <1>2, <2>1, <3>3 DEF Progress, Descent
  <2>2. CASE pc \in {"validating", "backing_up"}
    BY <1>1, <1>2, <2>2 DEF Updating
  <2> QED
    BY <1>2, <2>1, <2>2
<1>7. Descent'
  <2>1. EitherWay'
    BY <1>2, <1>3 DEF EitherWay
  <2>2. op'.goal = op.other /\ op'.other = op.goal /\ op'.kind = "recovery"
    BY <1>2
  <2> QED
    BY <1>2, <1>3, <1>6, <2>1, <2>2 DEF Descent, ClearAbove, BackedUp
<1>8. Journey'
  <2> SUFFICES ASSUME Untouched, faults' = 0, before.docs.manifest \in Version
               PROVE  docs = before.docs /\ docs.state = op.other /\ docs.inventory = op.other
    BY <1>2 DEF Journey, Untouched, Pristine
  <2>1. pc = "validating" \/ docs.manifest \notin Version
    BY <1>4 DEF Recovers
  <2>2. pc = "writing" => docs.manifest = before.docs.manifest
    BY <1>1 DEF Journey
  <2>3. pc \in {"validating", "backing_up"} => docs = before.docs
    BY <1>1, <1>2 DEF Journey
  <2>4. pc = "validating"
    BY <1>2, <2>1, <2>2, <2>3
  <2> QED
    BY <1>1, <1>2, <2>3, <2>4 DEF Updating
<1> QED
  BY <1>2, <1>5, <1>7, <1>8, RunningTellsNothing DEF Way

LEMMA UndoesWay ==
  ASSUME IInv, Way, Undoes
  PROVE  Way'
<1> USE DEF Preparing, Activating, Completing, Restoring, Switched
<1>1. Origin /\ Journey /\ Descent /\ Goals /\ Pointer /\ Disk
  BY DEF Way, IInv
<1>2. /\ pc \in {"unlinking", "linking", "unasiding"} /\ pc' = "undo_pointer"
      /\ UNCHANGED <<current, link, docs, history, versions, backup, op, aside, before>>
      /\ faults \in Nat /\ faults' = faults + 1
  BY <1>1 DEF Undoes, disk, Origin
<1>3. Origin'
  BY <1>1, <1>2 DEF Origin, Untouched, Disk
<1>4. Journey'
  BY <1>1, <1>2 DEF Journey, Untouched, Pristine
<1>5. current = [active |-> op.goal, previous |-> op.other]
  BY <1>1, <1>2 DEF Pointer
<1>6. Descent'
  BY <1>1, <1>2, <1>5 DEF Descent, EitherWay, ClearAbove, Lineage, BackedUp
<1> QED
  BY <1>2, <1>3, <1>4, <1>6, RunningTellsNothing DEF Way

-----------------------------------------------------------------------------
(* Each kind of step on the way.                                             *)

LEMMA InitWay == Init => Way
<1> SUFFICES ASSUME Init
             PROVE  Way
  OBVIOUS
<1>1. /\ docs.manifest # Absent /\ (docs.state = Absent => current.active = Absent)
      /\ current.previous = Absent /\ pc = "idle" /\ faults = 0 /\ report = "none"
      /\ backup = [w \in Version |-> NoDocuments]
      /\ before = [current |-> current, docs |-> docs, link |-> link]
  BY MarksAreNotVersions DEF Init
<1>2. Origin
  BY <1>1 DEF Origin
<1>3. Journey
  BY <1>1 DEF Journey, Pristine, Preparing, Activating, Restoring
<1>4. Descent
  <2>1. ClearAbove(current.active)
    BY <1>1 DEF ClearAbove
  <2> QED
    BY <1>1, <2>1, MarksAreNotVersions DEF Descent, Lineage, Discoverable, Preparing,
       Activating, Completing, Restoring
<1>5. Results
  BY <1>1 DEF Results, FailedUpdateIsContained, RollbackRestoresDocuments, Finished
<1> QED
  BY <1>2, <1>3, <1>4, <1>5 DEF Way

LEMMA StartWay ==
  ASSUME IInv, Way, StartUpdate \/ StartRollback
  PROVE  Way'
<1> USE DEF Preparing, Activating, Completing, Restoring
<1>1. Origin /\ Descent
  BY DEF Way
<1>2. /\ pc = "idle" /\ pc' = "discovering" /\ faults' = 0
      /\ UNCHANGED <<current, link, docs, history, versions, backup>>
      /\ before' = [current |-> current, docs |-> docs, link |-> link]
  BY DEF StartUpdate, StartRollback, Start, disk
<1>3. Origin'
  BY <1>1, <1>2 DEF Origin
<1>4. Journey'
  BY <1>2 DEF Journey
<1>5. Descent'
  BY <1>1, <1>2 DEF Descent, Discoverable, Lineage, ClearAbove, BackedUp
<1> QED
  BY <1>2, <1>3, <1>4, <1>5, RunningTellsNothing DEF Way

LEMMA MigrationWay ==
  ASSUME IInv, Way, BeginMigration \/ Migrate
  PROVE  Way'
<1> USE DEF Preparing, Activating, Completing, Restoring
<1>1. Origin /\ Journey /\ Types /\ Disk
  BY DEF Way, IInv
<1>2. /\ pc' \in {"discovering", "migrating"} /\ UNCHANGED <<backup, before, faults>>
  BY DEF BeginMigration, Migrate, Step, disk, env
<1>3. ~Untouched
  BY <1>1 DEF BeginMigration, Step, Migrate, Origin, Journey, Pristine, Untouched
<1>4. /\ \A v \in Version : backup[v] = NoDocuments
      /\ current.previous = Absent /\ current'.previous = Absent
  BY <1>1 DEF BeginMigration, Migrate, Origin, disk
<1>5. docs'.manifest # Absent
  <2>1. CASE docs' = docs
    BY <1>1, <2>1 DEF Origin
  <2>2. ASSUME NEW n \in {"state", "inventory"}, docs' = [docs EXCEPT ![n] = docs.manifest]
        PROVE  docs'.manifest = docs.manifest
    BY <1>1, <2>2 DEF Types, Documents
  <2> QED
    BY <1>1, <2>1, <2>2 DEF BeginMigration, Migrate, disk, Origin
<1>6. CASE BeginMigration
  <2>1. docs' = docs /\ docs.state = Absent /\ Head(todo') = "state" /\ current' = current
    BY <1>6 DEF BeginMigration, disk
  <2>2. pc' = "migrating"
    BY <1>6 DEF BeginMigration, Step
  <2>3. Origin'
    BY <1>1, <1>2, <1>3, <1>4, <1>5, <2>1, <2>2 DEF Origin, Untouched
  <2>4. Journey' /\ Descent'
    BY <1>2, <1>3, <2>2 DEF Journey, Untouched, Descent
  <2> QED
    BY <2>2, <2>3, <2>4, RunningTellsNothing DEF Way
<1>7. CASE Migrate
  <2>1. pc = "migrating" /\ todo \in ToMigrate /\ todo' = Tail(todo)
    BY <1>1, <1>7 DEF Migrate, Types
  <2>2. docs.manifest \in Version
    BY <1>1, <2>1 DEF Disk
  <2>3. docs'.state # Absent
    <3>1. CASE Head(todo) = "state"
      <4>1. docs' = [docs EXCEPT !.state = docs.manifest]
        BY <1>7, <3>1 DEF Migrate
      <4> QED
        BY <1>1, <2>2, <4>1, MarksAreNotVersions DEF Types, Documents
    <3>2. CASE Head(todo) # "state"
      <4>1. docs.state # Absent
        BY <1>1, <2>1, <3>2 DEF Origin
      <4>2. docs' = docs \/ docs' = [docs EXCEPT !.inventory = docs.manifest]
        BY <1>7, <3>2 DEF Migrate
      <4> QED
        BY <1>1, <4>1, <4>2 DEF Types, Documents
    <3> QED
      BY <3>1, <3>2
  <2>4. pc' = "migrating" => Head(todo') # "state"
    <3>1. pc' = "migrating" => todo' # <<>>
      BY <1>7 DEF Migrate
    <3> QED
      BY <2>1, <3>1 DEF ToMigrate
  <2>5. Origin'
    BY <1>1, <1>2, <1>3, <1>4, <1>5, <2>3, <2>4 DEF Origin, Untouched
  <2>6. Journey'
    BY <1>2, <1>3 DEF Journey, Untouched
  <2>7. Descent'
    <3>1. ASSUME Discoverable'
          PROVE  Lineage(current.active, current.previous)'
      <4>1. current'.active \in Version
        BY <3>1 DEF Discoverable
      <4> QED
        BY <1>2, <1>4, <4>1, MarksAreNotVersions DEF Lineage, ClearAbove
    <3> QED
      BY <1>2, <3>1 DEF Descent
  <2> QED
    BY <1>2, <2>5, <2>6, <2>7, RunningTellsNothing DEF Way
<1> QED
  BY <1>6, <1>7

LEMMA PlanWay ==
  ASSUME IInv, Way, PlanUpdate \/ (PlanRollback /\ HasPrevious)
  PROVE  Way'
<1> USE DEF Preparing, Activating, Completing, Restoring
<1>1. Origin /\ Journey /\ Descent /\ Goals
  BY DEF Way, IInv
<1>2. /\ pc = "discovering" /\ Discoverable
      /\ UNCHANGED <<current, link, docs, history, versions, backup, before, faults>>
  BY DEF PlanUpdate, PlanRollback, Step, disk, env
<1>3. /\ current.active \in Version /\ docs.state = current.active
      /\ docs.inventory = current.active /\ Lineage(current.active, current.previous)
  BY <1>1, <1>2 DEF Discoverable, Descent
<1>4. pc' \in {"staging", "switching"}
  BY DEF PlanUpdate, PlanRollback, HasPrevious, Step
<1>5. Origin'
  BY <1>1, <1>2, <1>3, <1>4, MarksAreNotVersions DEF Origin, Untouched
<1>6. Untouched => current = before.current /\ docs = before.docs /\ link = before.link
  BY <1>1, <1>2 DEF Journey, Pristine
<1>7. CASE PlanUpdate
  <2>1. /\ op' = [op EXCEPT !.other = docs.state] /\ op.kind = "update"
        /\ op.goal \in Version /\ pc' = "staging"
    BY <1>1, <1>7 DEF PlanUpdate, Step, Goals
  <2>2. op'.kind = "update" /\ op'.goal = op.goal /\ op'.other = current.active
    BY <1>3, <2>1 DEF IInv, Types, Operation
  <2>3. current.active < op.goal
    BY <1>3, <1>7, <2>1, VersionsAreOrdered DEF PlanUpdate, OlderOrSame
  <2>4. Lineage(current.active, current.previous)'
    BY <1>2, <1>3 DEF Lineage, ClearAbove, BackedUp
  <2>5. ClearAbove(current.active)'
    BY <2>4 DEF Lineage
  <2>6. Descent'
    BY <1>2, <2>1, <2>2, <2>3, <2>4, <2>5 DEF Descent, ClearAbove
  <2>7. Journey'
    BY <1>2, <1>6, <2>1 DEF Journey, Untouched
  <2> QED
    BY <1>5, <2>1, <2>6, <2>7, RunningTellsNothing DEF Way
<1>8. CASE PlanRollback /\ HasPrevious
  <2>1. /\ op' = [op EXCEPT !.goal = current.previous, !.other = current.active]
        /\ op.kind = "rollback" /\ pc' = "switching"
    BY <1>8 DEF PlanRollback
  <2>2. op'.kind = "rollback" /\ op'.goal = current.previous /\ op'.other = current.active
    BY <2>1 DEF IInv, Types, Operation
  <2>3. EitherWay'
    BY <1>2, <2>2 DEF IInv, Types, EitherWay
  <2>4. Descent'
    BY <1>2, <1>3, <2>1, <2>2, <2>3 DEF Descent, Lineage, ClearAbove, BackedUp
  <2>5. Journey'
    BY <1>2, <2>1, <2>2 DEF Journey, Untouched, Pristine
  <2> QED
    BY <1>5, <2>1, <2>4, <2>5, RunningTellsNothing DEF Way
<1> QED
  BY <1>7, <1>8

LEMMA PreparesWay ==
  ASSUME IInv, Way, Prepares
  PROVE  Way'
<1> USE DEF Preparing, Activating, Completing, Restoring
<1>1. Origin /\ Journey /\ Descent /\ Goals /\ Disk
  BY DEF Way, IInv
<1>2. /\ pc \in Preparing /\ pc' \in Preparing \cup {"switching"} /\ op.kind = "update"
      /\ UNCHANGED <<current, link, docs, history, backup, op, before, faults>>
      /\ docs.state # Absent
  BY <1>1 DEF Prepares, Goals, Disk
<1>3. Origin'
  BY <1>1, <1>2 DEF Origin, Untouched
<1>4. Journey'
  BY <1>1, <1>2 DEF Journey, Untouched, Pristine
<1>5. Descent'
  BY <1>1, <1>2 DEF Descent, Lineage, ClearAbove, BackedUp
<1> QED
  BY <1>2, <1>3, <1>4, <1>5, RunningTellsNothing DEF Way

LEMMA ActivatesWay ==
  ASSUME IInv, Way, Activates
  PROVE  Way'
<1> USE DEF Preparing, Activating, Completing, Restoring, Switched
<1>1. Origin /\ Journey /\ Descent /\ Goals /\ Disk /\ Updating /\ Pointer /\ Types
  BY DEF Way, IInv
<1>2. /\ UNCHANGED <<docs, history, versions, backup, op, before, faults>>
      /\ docs.state # Absent /\ op.goal \in Version /\ op.other \in Version
      /\ op.kind \in {"update", "recovery", "rollback"}
      /\ pc \in {"switching", "clearing", "unlinking", "linking", "unasiding",
                 "undo_pointer", "validating"}
      /\ pc' \in {"clearing", "unlinking", "linking", "unasiding", "validating",
                  "undo_link", "backing_up", "recording"}
      /\ pc' \in {"undo_link"} => pc = "undo_pointer"
      /\ pc' = "clearing" <=> pc = "switching"
      /\ pc' = "backing_up" => op.kind = "update"
      /\ pc' = "recording" => op.kind # "update"
      /\ aside' = IF pc = "switching" THEN link ELSE aside
  BY <1>1 DEF Activates, Disk, Goals, Types, Operation
<1>3. Origin'
  BY <1>1, <1>2 DEF Origin, Untouched
<1>4. op.kind = "update" /\ pc' = "undo_link" =>
        current' = [active |-> op.other, previous |-> op.goal]
  <2>1. op.kind = "update" => versions[op.other] = "whole"
    BY <1>1, <1>2 DEF Updating
  <2> QED
    BY <1>2, <2>1 DEF Activates, PointerAfterUndo
<1>5. Journey'
  <2> SUFFICES ASSUME Untouched
               PROVE  /\ op.kind = "update" =>
                           /\ docs = before.docs /\ aside' = before.link
                           /\ op.other = before.current.active
                      /\ op.kind = "recovery" /\ faults = 0
                           /\ before.docs.manifest \in Version =>
                           /\ docs = before.docs /\ docs.state = op.goal
                           /\ docs.inventory = op.goal
    BY <1>2, <1>4 DEF Journey, Untouched, Pristine
  <2>1. CASE op.kind = "update" /\ pc = "switching"
    <3>1. current = before.current /\ docs = before.docs /\ link = before.link
      BY <1>1, <2>1 DEF Journey, Pristine
    <3>2. current.active = op.other
      BY <1>1, <2>1 DEF Updating
    <3> QED
      BY <1>2, <2>1, <3>1, <3>2
  <2>2. CASE op.kind = "update" /\ pc # "switching"
    BY <1>1, <1>2, <2>2 DEF Journey
  <2>3. CASE op.kind # "update"
    BY <1>1, <1>2, <2>3 DEF Journey
  <2> QED
    BY <2>1, <2>2, <2>3
<1>6. EitherWay'
  <2>1. CASE pc = "switching"
    BY <1>2, <2>1 DEF Activates, EitherWay
  <2>2. CASE pc # "switching"
    <3>1. EitherWay
      BY <1>1, <1>2, <2>2 DEF Descent
    <3> QED
      BY <1>2, <2>2, <3>1 DEF Activates, EitherWay, PointerAfterUndo
  <2> QED
    BY <2>1, <2>2
<1>7. Descent'
  <2>1. op.kind = "update" => op.other < op.goal /\ ClearAbove(op.other)'
    BY <1>1, <1>2 DEF Descent, ClearAbove
  <2>2. op.kind = "recovery" =>
          /\ op.goal < op.other /\ ClearAbove(op.goal)'
          /\ docs.state = op.goal \/ (docs.inventory = op.other /\ BackedUp(op.goal)')
    BY <1>1, <1>2 DEF Descent, ClearAbove, BackedUp
  <2>3. op.kind = "rollback" =>
          Lineage(op.other, op.goal)' /\ docs.state = op.other /\ docs.inventory = op.other
    BY <1>1, <1>2 DEF Descent, Lineage, ClearAbove, BackedUp
  <2> QED
    BY <1>2, <1>6, <2>1, <2>2, <2>3 DEF Descent
<1> QED
  BY <1>2, <1>3, <1>5, <1>7, RunningTellsNothing DEF Way

LEMMA BackUpWay ==
  ASSUME IInv, IInv', Way, BackUp
  PROVE  Way'
<1> USE DEF Preparing, Activating, Completing, Restoring, Switched
<1>1. Origin /\ Journey /\ Descent /\ Goals /\ Disk /\ Types /\ Pointer
  BY DEF Way, IInv
<1>2. /\ pc = "backing_up" /\ pc' \in {"backing_up", "writing"} /\ op.kind = "update"
      /\ UNCHANGED <<current, link, docs, history, versions, op, aside, before, faults>>
      /\ docs.state # Absent /\ op.goal \in Version /\ op.other \in Version
      /\ todo \in ToCopy /\ backup \in [Version -> Documents] /\ docs \in Documents
  BY <1>1 DEF BackUp, env, Goals, Disk, Types
<1>3. PICK n \in DocumentName : n = Head(todo)
  BY <1>2, CopyFacts
<1>4. /\ \A v \in Version : v # op.other => backup'[v] = backup[v]
      /\ backup'[op.other] = [backup[op.other] EXCEPT ![n] = docs[n]]
  <2>1. backup' = [backup EXCEPT ![op.other][n] = docs[n]]
    BY <1>3 DEF BackUp, BackupSource
  <2>2. docs[n] \in Document
    BY <1>2, DocumentFacts
  <2> QED
    BY <1>2, <2>1, <2>2, BackupFacts
<1>5. Origin'
  BY <1>1, <1>2 DEF Origin, Untouched
<1>6. Journey'
  BY <1>1, <1>2 DEF Journey, Untouched, Pristine
<1>7. op.other < op.goal /\ ClearAbove(op.other)'
  <2>1. \A v \in Version : v > op.other => v # op.other
    BY <1>2, VersionsAreOrdered
  <2> QED
    BY <1>1, <1>2, <1>4, <2>1 DEF Descent, ClearAbove
<1>8. pc' = "writing" => BackedUp(op.other)'
  <2> SUFFICES ASSUME pc' = "writing"
               PROVE  BackedUp(op.other)'
    OBVIOUS
  <2>1. backup'[op.other].state = op.other /\ backup'[op.other].inventory = op.other
    BY <1>2 DEF IInv, Progress
  <2>2. n = "manifest"
    <3>1. ~(Len(todo) > 1)
      BY <1>2 DEF BackUp
    <3>2. Len(todo) \in 1..3
      BY <1>2, CopyFacts
    <3>3. Len(todo) # 3 /\ Len(todo) # 2
      BY <3>1, <3>2
    <3> QED
      BY <1>2, <1>3, <3>3, CopyFacts DEF DocumentName
  <2>3. backup'[op.other].manifest = docs.manifest
    <3>1. backup[op.other] \in Documents
      BY <1>2
    <3> QED
      BY <1>4, <2>2, <3>1 DEF Documents
  <2> QED
    BY <1>1, <1>2, <2>1, <2>3 DEF BackedUp, Origin
<1>9. Descent'
  BY <1>2, <1>7, <1>8 DEF Descent
<1> QED
  BY <1>2, <1>5, <1>6, <1>9, RunningTellsNothing DEF Way

LEMMA WriteWay ==
  ASSUME IInv, IInv', Way, Write
  PROVE  Way'
<1> USE DEF Preparing, Activating, Completing, Restoring, Switched
<1>1. Origin /\ Journey /\ Descent /\ Goals /\ Disk /\ Types /\ Pointer
  BY DEF Way, IInv
<1>2. /\ pc = "writing" /\ pc' \in {"idle", "writing"} /\ op.kind = "update"
      /\ UNCHANGED <<current, link, versions, backup, op, aside, before, faults>>
      /\ op.goal \in Version /\ op.other \in Version /\ todo \in ToWrite
      /\ docs \in Documents
      /\ current = [active |-> op.goal, previous |-> op.other]
  BY <1>1 DEF Write, Finish, env, Goals, Types, Pointer
<1>3. pc' = "idle" => report' = "completed"
  BY <1>2 DEF Write, Finish
<1>4. docs'.state # Absent
  <2>1. pc' = "writing" => docs'.state # Absent
    BY DEF IInv, Disk
  <2>2. pc' = "idle" => docs'.state \in Version
    BY <1>2, <1>3 DEF IInv, Outcome, CompletedCanBeUndone, Finished, Discoverable
  <2> QED
    BY <1>2, <2>1, <2>2, MarksAreNotVersions
<1>5. docs'.manifest = IF Head(todo) = "manifest" THEN op.goal ELSE docs.manifest
  <2>1. CASE Head(todo) = "history"
    BY <2>1 DEF Write
  <2>2. CASE Head(todo) # "history"
    <3>1. PICK n \in DocumentName : n = Head(todo)
      BY <1>2, <2>2, WriteFacts
    <3>2. docs' = [docs EXCEPT ![n] = op.goal]
      BY <2>2, <3>1 DEF Write
    <3> QED
      BY <1>2, <3>1, <3>2 DEF Documents, DocumentName
  <2> QED
    BY <2>1, <2>2
<1>6. Origin'
  BY <1>1, <1>2, <1>4, <1>5, MarksAreNotVersions DEF Origin, Untouched
<1>7. pc' = "writing" => Head(todo) # "manifest"
  <2>1. pc' = "writing" => Len(todo) > 1
    BY DEF Write, Finish
  <2>2. PICK k \in 1 .. 4 : k = Len(todo) /\ (k = 1 <=> Head(todo) = "manifest")
    BY <1>2, WriteFacts
  <2>3. k > 1 => k # 1
    OBVIOUS
  <2> QED
    BY <2>1, <2>2, <2>3
<1>8. Journey'
  BY <1>1, <1>2, <1>5, <1>7 DEF Journey, Untouched, Pristine
<1>9. Descent'
  <2>1. op.other < op.goal /\ ClearAbove(op.other) /\ BackedUp(op.other)
    BY <1>1, <1>2 DEF Descent
  <2>2. Lineage(op.goal, op.other)
    BY <1>2, <2>1, TurnedAround
  <2>3. Lineage(current.active, current.previous)'
    BY <1>2, <2>2 DEF Lineage, ClearAbove, BackedUp
  <2>4. ClearAbove(op.other)' /\ BackedUp(op.other)'
    BY <1>2, <2>1 DEF ClearAbove, BackedUp
  <2> QED
    BY <1>2, <2>1, <2>3, <2>4 DEF Descent
<1> QED
  BY <1>2, <1>3, <1>6, <1>8, <1>9, RunningTellsNothing DEF Way

LEMMA RecordWay ==
  ASSUME IInv, Way, RecordRollback
  PROVE  Way'
<1> USE DEF Preparing, Activating, Completing, Restoring, Switched
<1>1. Origin /\ Journey /\ Descent /\ Goals /\ Disk /\ Types /\ Pointer
  BY DEF Way, IInv
<1>2. /\ pc = "recording" /\ pc' = "restoring" /\ op.kind \in {"recovery", "rollback"}
      /\ UNCHANGED <<current, link, docs, versions, backup, op, aside, before, faults>>
      /\ op.goal \in Version /\ op.other \in Version /\ docs.state # Absent
  BY <1>1 DEF RecordRollback, Step, env, Goals, Disk
<1>3. Origin'
  BY <1>1, <1>2 DEF Origin, Untouched
<1>4. Journey'
  BY <1>1, <1>2 DEF Journey, Untouched, Pristine
<1>5. Descent'
  <2>1. CASE op.kind = "recovery"
    BY <1>1, <1>2, <2>1 DEF Descent, ClearAbove, EitherWay, BackedUp
  <2>2. CASE op.kind = "rollback"
    <3>1. Lineage(op.other, op.goal) /\ EitherWay /\ docs.inventory = op.other
      BY <1>1, <1>2, <2>2 DEF Descent
    <3>2. CASE op.goal < op.other
      <4>1. backup[op.goal].state # Absent
        BY <1>2, <3>1, <3>2, RollbackGoals, MarksAreNotVersions DEF BackedUp
      <4>2. todo' = DocumentsToRestore
        BY <2>2, <4>1 DEF RecordRollback
      <4>3. todo' # <<>> /\ ~(Len(todo') < 2)
        BY <4>2 DEF DocumentsToRestore
      <4> QED
        BY <1>2, <2>2, <3>1, <3>2, <4>3 DEF Descent, Lineage, ClearAbove, EitherWay, BackedUp
    <3>3. CASE ~(op.goal < op.other)
      <4>1. backup[op.goal].state = Absent
        BY <1>2, <3>1, <3>3, RollbackGoals DEF NoDocuments
      <4>2. todo' = <<>>
        BY <2>2, <4>1 DEF RecordRollback
      <4> QED
        BY <1>2, <2>2, <3>1, <3>3, <4>2 DEF Descent, Lineage, ClearAbove, EitherWay, BackedUp
    <3> QED
      BY <3>2, <3>3
  <2> QED
    BY <1>2, <2>1, <2>2
<1> QED
  BY <1>2, <1>3, <1>4, <1>5, RunningTellsNothing DEF Way

\* What holds once a rollback reports rolled_back.
LEMMA RestoredWay ==
  ASSUME IInv, Way, pc = "restoring", pc' = "idle", report' = "rolled_back",
         UNCHANGED <<current, link, history, versions, backup, op, aside, before, faults>>,
         docs'.state = op.goal, docs'.manifest # Absent,
         docs'.inventory = op.goal =>
           Lineage(op.goal, op.other),
         op.kind = "rollback" /\ backup[op.goal].inventory # Absent =>
           docs'.inventory = op.goal /\ docs' = backup[op.goal],
         op.kind = "recovery" => docs' = [docs EXCEPT !.state = op.goal]
  PROVE  Way'
<1> USE DEF Preparing, Activating, Completing, Restoring, Switched
<1>1. Origin /\ Journey /\ Descent /\ Goals /\ Disk /\ Types /\ Pointer
  BY DEF Way, IInv
<1>2. /\ op.goal \in Version /\ op.kind \in {"recovery", "rollback"}
      /\ history \in Seq(HistoryEntry) /\ versions[op.goal] = "whole"
      /\ current = [active |-> op.goal, previous |-> op.other]
      /\ docs \in Documents
  BY <1>1 DEF Goals, Pointer, Types
<1>3. docs'.state # Absent
  BY <1>2, MarksAreNotVersions
<1>4. Origin'
  BY <1>1, <1>3 DEF Origin
<1>5. Journey'
  BY DEF Journey, Pristine
<1>6. Descent'
  <2> SUFFICES ASSUME Discoverable'
               PROVE  Lineage(current.active, current.previous)'
    BY DEF Descent
  <2>1. docs'.inventory = op.goal
    BY <1>2 DEF Discoverable
  <2> QED
    BY <1>2, <2>1 DEF Lineage, ClearAbove, BackedUp
<1>7. docs'.inventory = op.goal => Discoverable'
  BY <1>2, AbsentIsNoHistory DEF Discoverable
<1>8. Results'
  <2>1. FailedUpdateIsContained'
    BY DEF FailedUpdateIsContained, Finished
  <2>2. ASSUME op.kind = "rollback", backup[op.goal].inventory # Absent
        PROVE  Discoverable' /\ docs' = backup[op.goal]
    BY <1>7, <2>2
  <2>3. ASSUME op.kind = "recovery", faults = 0, before.docs.state \in Version,
               before.docs.manifest \in Version
        PROVE  Discoverable' /\ docs' = before.docs
    <3>1. Untouched
      BY <2>3, MarksAreNotVersions DEF Untouched
    <3>2. docs = before.docs /\ docs.state = op.goal /\ docs.inventory = op.goal
      BY <1>1, <2>3, <3>1 DEF Journey
    <3>3. docs' = docs
      BY <1>2, <2>3, <3>2 DEF Documents
    <3> QED
      BY <1>7, <3>2, <3>3
  <2>4. RollbackRestoresDocuments'
    BY <2>2, <2>3 DEF RollbackRestoresDocuments, Finished
  <2> QED
    BY <2>1, <2>4 DEF Results
<1> QED
  BY <1>4, <1>5, <1>6, <1>8 DEF Way

LEMMA RestoreStateWay ==
  ASSUME IInv, Way, RestoreStateOnly
  PROVE  Way'
<1> USE DEF Preparing, Activating, Completing, Restoring, Switched
<1>1. Origin /\ Descent /\ Goals /\ Types
  BY DEF Way, IInv
<1>2. /\ pc = "restoring" /\ todo = <<>> /\ docs' = [docs EXCEPT !.state = op.goal]
      /\ pc' = "idle" /\ report' = "rolled_back"
      /\ UNCHANGED <<current, link, history, versions, backup, op, aside, before, faults>>
  BY DEF RestoreStateOnly, StateAfterRecovery, Finish, env
<1>3. /\ op.goal \in Version /\ op.other \in Version /\ op.kind \in {"recovery", "rollback"}
      /\ docs \in Documents
  BY <1>1, <1>2 DEF Goals, Types
<1>4. /\ docs'.state = op.goal /\ docs'.inventory = docs.inventory
      /\ docs'.manifest = docs.manifest /\ docs.manifest # Absent
  BY <1>1, <1>2, <1>3 DEF Documents, Origin
<1>5. CASE op.kind = "recovery"
  <2>1. op.goal < op.other /\ ClearAbove(op.goal)
    BY <1>1, <1>2, <1>5 DEF Descent
  <2>2. Lineage(op.goal, op.other)
    BY <1>3, <2>1, TurnedAround
  <2>3. op.kind # "rollback"
    BY <1>5
  <2> QED
    BY <1>2, <1>4, <2>2, <2>3, RestoredWay
<1>6. CASE op.kind = "rollback"
  <2>1. Lineage(op.other, op.goal) /\ ~(op.goal < op.other) /\ docs.inventory = op.other
    BY <1>1, <1>2, <1>6 DEF Descent
  <2>2. backup[op.goal] = NoDocuments /\ op.goal # op.other
    BY <1>3, <2>1, RollbackGoals
  <2>3. backup[op.goal].inventory = Absent
    BY <2>2 DEF NoDocuments
  <2>4. docs'.inventory # op.goal /\ op.kind # "recovery"
    BY <1>4, <1>6, <2>1, <2>2
  <2> QED
    BY <1>2, <1>4, <2>3, <2>4, RestoredWay
<1> QED
  BY <1>3, <1>5, <1>6

LEMMA RestoreBackupWay ==
  ASSUME IInv, IInv', Way, RestoreFromBackup
  PROVE  Way'
<1> USE DEF Preparing, Activating, Completing, Restoring, Switched
<1>1. Origin /\ Journey /\ Descent /\ Goals /\ Types /\ Progress
  BY DEF Way, IInv
<1>2. /\ pc = "restoring" /\ todo # <<>>
      /\ UNCHANGED <<current, link, history, versions, backup, op, aside, before, faults>>
  BY DEF RestoreFromBackup, env
<1>3. /\ op.goal \in Version /\ op.other \in Version /\ todo \in ToCopy
      /\ docs \in Documents /\ backup[op.goal] \in Documents /\ op.kind = "rollback"
  BY <1>1, <1>2 DEF Goals, Types, Progress
<1>4. /\ Lineage(op.other, op.goal) /\ op.goal < op.other /\ EitherWay
      /\ Len(todo) < 2 => docs.inventory = op.goal
  BY <1>1, <1>2, <1>3 DEF Descent
<1>5. Lineage(op.goal, op.other) /\ BackedUp(op.goal)
  BY <1>3, <1>4, RollbackGoals
<1>6. PICK n \in DocumentName : n = Head(todo)
  BY <1>3, CopyFacts
<1>7. PICK k \in 1 .. 3 : /\ k = Len(todo)
                          /\ (k = 3 <=> n = "state") /\ (k = 2 <=> n = "inventory")
                          /\ (k < 3 => docs.state = op.goal)
                          /\ (k < 2 => docs.inventory = op.goal)
  BY <1>1, <1>2, <1>3, <1>4, <1>6, CopyFacts DEF Progress
<1>8. docs' = [docs EXCEPT ![n] = backup[op.goal][n]]
  <2>1. backup[op.goal][n] # Absent
    BY <1>3, <1>5, MarksAreNotVersions DEF BackedUp, DocumentName
  <2> QED
    BY <1>6, <2>1 DEF RestoreFromBackup
<1>9. /\ docs'.state = op.goal
      /\ k < 3 => docs'.inventory = op.goal
      /\ docs'.manifest # Absent
      /\ k = 1 => docs' = backup[op.goal]
  <2>1. CASE n = "state"
    BY <1>1, <1>3, <1>5, <1>7, <1>8, <2>1 DEF Documents, BackedUp, Origin
  <2>2. CASE n = "inventory"
    <3>0. k = 2
      BY <1>7, <2>2
    <3>1. k < 3 /\ ~(k = 1) /\ docs.state = op.goal
      <4>1. k < 3 /\ ~(k = 1)
        BY <3>0
      <4> QED
        BY <1>7, <4>1
    <3>2. docs' = [docs EXCEPT !.inventory = backup[op.goal].inventory]
      BY <1>8, <2>2
    <3>3. docs'.state = docs.state /\ docs'.inventory = op.goal /\ docs'.manifest = docs.manifest
      BY <1>3, <1>5, <3>2 DEF Documents, BackedUp
    <3> QED
      BY <1>1, <3>1, <3>3 DEF Origin
  <2>3. CASE n = "manifest"
    <3>1. k = 1
      BY <1>7, <2>3
    <3>2. docs' = [docs EXCEPT !.manifest = backup[op.goal].manifest]
      BY <1>8, <2>3
    <3>3. docs.state = backup[op.goal].state /\ docs.inventory = backup[op.goal].inventory
      BY <1>5, <1>7, <3>1 DEF BackedUp
    <3>4. docs' = backup[op.goal]
      BY <1>3, <3>2, <3>3 DEF Documents
    <3> QED
      BY <1>5, <3>4 DEF BackedUp
  <2> QED
    BY <2>1, <2>2, <2>3 DEF DocumentName
<1>10. CASE k = 1
  <2>1. pc' = "idle" /\ report' = "rolled_back"
    BY <1>7, <1>10 DEF RestoreFromBackup, Finish
  <2>2. op.kind # "recovery"
    BY <1>3
  <2>3. docs'.inventory = op.goal
    BY <1>9, <1>10
  <2> QED
    BY <1>2, <1>5, <1>9, <1>10, <2>1, <2>2, <2>3, RestoredWay
<1>11. CASE k > 1
  <2>1. pc' = "restoring" /\ todo' = Tail(todo)
    BY <1>2, <1>7, <1>11 DEF RestoreFromBackup
  <2>2. todo' \in ToCopy /\ Len(todo') = k - 1
    BY <1>3, <1>7, <1>11, <2>1, CopyFacts
  <2>3. Origin'
    BY <1>1, <1>2, <1>9, <2>1, <1>3, MarksAreNotVersions DEF Origin
  <2>4. Journey'
    BY <1>2, <1>3, <2>1 DEF Journey, Untouched, Pristine
  <2>5. todo' # <<>> /\ (Len(todo') < 2 => docs'.inventory = op.goal)
    BY <1>9, <2>2, CopyFacts
  <2>6. Descent'
    BY <1>2, <1>3, <1>4, <2>1, <2>5 DEF Descent, Lineage, ClearAbove, EitherWay, BackedUp
  <2> QED
    BY <2>1, <2>3, <2>4, <2>6, RunningTellsNothing DEF Way
<1> QED
  BY <1>7, <1>10, <1>11

-----------------------------------------------------------------------------
(* Theorems.                                                                 *)

LEMMA NextIInv == IInv /\ [Next]_vars => IInv'
<1> SUFFICES ASSUME IInv, [Next]_vars
             PROVE  IInv'
  OBVIOUS
<1>1. CASE StartUpdate \/ StartRollback
  BY <1>1, StartKeeps
<1>2. CASE BeginMigration \/ Migrate
  BY <1>2, MigrationKeeps
<1>3. CASE RefuseInstall \/ PlanRefused \/ RefuseStaging \/ UndoLink \/ Crash
  BY <1>3, QuittingSteps, QuitsKeeps
<1>4. CASE PlanUpdate
  BY <1>4, PlanKeeps
<1>5. CASE PlanRollback
  BY <1>5, PlanKeeps, QuittingSteps, QuitsKeeps
<1>6. CASE PrepareStaging \/ CopyPayload \/ AcceptStaging \/ ClearFinal \/ PlaceFinal
  BY <1>6, PreparingSteps, PreparesKeeps
<1>7. CASE SwitchPointer \/ ClearTemporaries \/ SetLinkAside \/ SwitchLink \/ DropOldLink
             \/ UndoPointer \/ ValidationPasses
  BY <1>7, ActivatingSteps, ActivatesKeeps
<1>8. CASE ValidationFails
  BY <1>8, QuittingSteps, QuitsKeeps, RecoveringSteps, RecoversKeeps
<1>9. CASE BackUp
  BY <1>9, BackUpKeeps
<1>10. CASE Write
  BY <1>10, WriteKeeps
<1>11. CASE ManifestUnreadable
  BY <1>11, RecoveringSteps, RecoversKeeps
<1>12. CASE RecordRollback
  BY <1>12, RecordKeeps
<1>13. CASE RestoreFromBackup \/ RestoreStateOnly
  BY <1>13, RestoreKeeps
<1>14. CASE Fault
  BY <1>14, FaultGives, QuitsKeeps, RecoversKeeps, UndoesKeeps
<1>15. CASE UNCHANGED vars
  <2>1. UNCHANGED <<current, link, docs, history, versions, staging, backup, pc, op, todo,
                    aside, report>>
    BY <1>15 DEF vars, disk, engine
  <2>2. Types' /\ Disk' /\ Goals' /\ Updating' /\ Pointer' /\ Progress'
    BY <2>1 DEF IInv, Types, Disk, Stuck, Goals, Updating, Pointer, Progress, Succeeded,
       RolledBack
  <2>3. Outcome'
    BY <2>1 DEF IInv, Outcome, CompletedCanBeUndone, RolledBackAgrees, Finished, Discoverable
  <2> QED
    BY <2>2, <2>3 DEF IInv
<1> QED
  BY <1>1, <1>2, <1>3, <1>4, <1>5, <1>6, <1>7, <1>8, <1>9, <1>10, <1>11, <1>12, <1>13,
     <1>14, <1>15 DEF Next

\* The inductive invariant: what the engine has established in each phase, and
\* what every interruption leaves on the disk.
THEOREM EverythingIsSound == Spec => []IInv
  BY InitIInv, NextIInv, PTL DEF Spec

LEMMA NextExposure == Exposure /\ [Next]_vars => Exposure'
<1> SUFFICES ASSUME Exposure, [Next]_vars
             PROVE  Exposure'
  OBVIOUS
<1>1. CASE StartUpdate \/ StartRollback
  BY <1>1 DEF StartUpdate, StartRollback, Start, Exposure
<1>2. CASE Fault
  BY <1>2 DEF Fault, ActivationFailed, Finish, Exposure
<1>3. CASE UNCHANGED vars
  BY <1>3 DEF Exposure, vars, engine
<1>4. CASE /\ ~(StartUpdate \/ StartRollback) /\ ~Fault /\ Next
  <2>1. pc # "idle" /\ exposed' = exposed
    BY <1>4 DEF Next, env, Step, BeginMigration, Migrate, RefuseInstall, PlanRefused,
       PlanUpdate, PlanRollback, PrepareStaging, CopyPayload, AcceptStaging, RefuseStaging,
       ClearFinal, PlaceFinal, SwitchPointer, ClearTemporaries, SetLinkAside, SwitchLink,
       DropOldLink, UndoPointer, UndoLink, ValidationPasses, ValidationFails, BackUp, Write,
       ManifestUnreadable, RecordRollback, RestoreFromBackup, RestoreStateOnly, Crash
  <2> QED
    BY <2>1 DEF Exposure
<1> QED
  BY <1>1, <1>2, <1>3, <1>4

LEMMA ExposureKnown == Spec => []Exposure
<1>1. Init => Exposure
  BY DEF Init, Exposure
<1> QED
  BY <1>1, NextExposure, PTL DEF Spec

\* Types: a switch knows its goal, and only a copy or a write has files left.
THEOREM TypesSound == Spec => []TypeOK
<1>1. IInv /\ Exposure => TypeOK
  BY DEF IInv, Types, Goals, TypeOK, Reports, Activating, Completing, Restoring, Exposure
<1> QED
  BY <1>1, EverythingIsSound, ExposureKnown, PTL

\* The version the launcher starts is never taken away, and an update killed
\* before the pointer moved leaves the installation it found, for any number of
\* versions, errors and crashes.
THEOREM ActiveVersionStays == Spec => []ActiveVersionIsKept
<1>1. IInv => ActiveVersionIsKept
  <2> SUFFICES ASSUME IInv
               PROVE  ActiveVersionIsKept
    OBVIOUS
  <2>1. Disk /\ Updating
    BY DEF IInv
  <2>2. current.active \in Version => versions[current.active] # "absent"
    BY <2>1 DEF Disk
  <2>3. ASSUME op.kind = "update", pc \in Preparing \cup {"switching"}
        PROVE  /\ Discoverable /\ versions[current.active] = "whole"
               /\ current.active = op.other /\ docs.state = op.other
    BY <2>1, <2>3, AbsentIsNoHistory DEF Updating, Discoverable, Activating
  <2> QED
    BY <2>2, <2>3 DEF ActiveVersionIsKept, Preparing
<1> QED
  BY <1>1, EverythingIsSound, PTL

\* An update makes a version the active one only with every file in place.
THEOREM OnlyWholeVersionsActivate == Spec => UpdateActivatesWholeVersion
<1>1. ASSUME IInv, [Next]_vars, op.kind = "update", current'.active # current.active
      PROVE  versions[current'.active] = "whole"
  <2>1. CASE Migrate
    <3>1. docs.manifest \in Version /\ versions[docs.manifest] = "whole"
      BY <1>1, <2>1 DEF IInv, Disk, Migrate
    <3>2. current' = [active |-> docs.manifest, previous |-> Absent]
      BY <1>1, <2>1 DEF Migrate
    <3> QED
      BY <3>1, <3>2
  <2>2. CASE SwitchPointer
    <3>1. versions[op.goal] = "whole"
      BY <1>1, <2>2 DEF IInv, Updating, SwitchPointer, Step, Activating
    <3> QED
      BY <2>2, <3>1 DEF SwitchPointer
  <2>3. CASE UndoPointer
    <3>1. versions[op.other] = "whole"
      BY <1>1, <2>3 DEF IInv, Updating, UndoPointer, Step, Activating
    <3>2. current'.active = op.other
      BY <1>1, <2>3 DEF UndoPointer, PointerAfterUndo
    <3> QED
      BY <3>1, <3>2
  <2>4. CASE Fault
    BY <1>1, <2>4, FaultGives DEF Quits, Recovers, Undoes, disk
  <2>5. CASE Crash
    BY <1>1, <2>5 DEF Crash
  <2> QED
    BY <1>1, <2>1, <2>2, <2>3, <2>4, <2>5 DEF Next, vars, disk, StartUpdate, StartRollback,
       Start, BeginMigration, RefuseInstall, PlanRefused, PlanUpdate, PlanRollback,
       PrepareStaging, CopyPayload, AcceptStaging, RefuseStaging, ClearFinal, PlaceFinal,
       ClearTemporaries, SetLinkAside, SwitchLink, DropOldLink, UndoLink, ValidationPasses,
       ValidationFails, BackUp, Write, ManifestUnreadable, RecordRollback, RestoreFromBackup, RestoreStateOnly
<1> QED
  BY <1>1, EverythingIsSound, PTL DEF Spec, UpdateActivatesWholeVersion

\* A completed update agrees with itself in the five places that name the
\* installed version, and its way back is whole and backed up.
THEOREM CompletedIsUndoable == Spec => []CompletedCanBeUndone
<1>1. IInv => CompletedCanBeUndone
  BY DEF IInv, Outcome
<1> QED
  BY <1>1, EverythingIsSound, PTL

\* After a reported rollback the pointer, the link and install_state.json agree
\* on a version that is whole: a torn backup is never restored from.
THEOREM RollbackIsConsistent == Spec => []RolledBackAgrees
<1>1. IInv => RolledBackAgrees
  BY DEF IInv, Outcome
<1> QED
  BY <1>1, EverythingIsSound, PTL
\* Every step keeps what is known of where the operation came from.
LEMMA NextWay == IInv /\ Exposure /\ Way /\ [Next]_vars => Way'
<1> SUFFICES ASSUME IInv, Exposure, Way, [Next]_vars
             PROVE  Way'
  OBVIOUS
<1>0. IInv'
  BY NextIInv
<1>1. CASE StartUpdate \/ StartRollback
  BY <1>1, StartWay
<1>2. CASE BeginMigration \/ Migrate
  BY <1>2, MigrationWay
<1>3. CASE RefuseInstall \/ PlanRefused \/ RefuseStaging \/ UndoLink \/ Crash
  BY <1>3, QuittingSteps, QuitsWay
<1>4. CASE PlanUpdate
  BY <1>4, PlanWay
<1>5. CASE PlanRollback
  BY <1>5, PlanWay, QuittingSteps, QuitsWay
<1>6. CASE PrepareStaging \/ CopyPayload \/ AcceptStaging \/ ClearFinal \/ PlaceFinal
  BY <1>6, PreparingSteps, PreparesWay
<1>7. CASE SwitchPointer \/ ClearTemporaries \/ SetLinkAside \/ SwitchLink \/ DropOldLink
             \/ UndoPointer \/ ValidationPasses
  BY <1>7, ActivatingSteps, ActivatesWay
<1>8. CASE ValidationFails
  BY <1>8, QuittingSteps, QuitsWay, RecoveringSteps, RecoversWay
<1>9. CASE BackUp
  BY <1>0, <1>9, BackUpWay
<1>10. CASE Write
  BY <1>0, <1>10, WriteWay
<1>11. CASE ManifestUnreadable
  BY <1>11, RecoveringSteps, RecoversWay
<1>12. CASE RecordRollback
  BY <1>12, RecordWay
<1>13. CASE RestoreFromBackup \/ RestoreStateOnly
  BY <1>0, <1>13, RestoreStateWay, RestoreBackupWay
<1>14. CASE Fault
  BY <1>14, FaultGives, QuitsWay, RecoversWay, UndoesWay
<1>15. CASE UNCHANGED vars
  <2>1. UNCHANGED <<current, link, docs, history, versions, staging, backup, pc, op, todo,
                    aside, report, before, exposed, faults>>
    BY <1>15 DEF vars, disk, engine
  <2>2. Origin'
    BY <2>1 DEF Way, Origin, Untouched
  <2>3. Journey'
    BY <2>1 DEF Way, Journey, Untouched, Pristine
  <2>4. Descent'
    BY <2>1 DEF Way, Descent, Discoverable, Lineage, ClearAbove, BackedUp, EitherWay
  <2>5. Results'
    BY <2>1 DEF Way, Results, FailedUpdateIsContained, RollbackRestoresDocuments,
       Finished, Discoverable
  <2> QED
    BY <2>2, <2>3, <2>4, <2>5 DEF Way
<1> QED
  BY <1>1, <1>2, <1>3, <1>4, <1>5, <1>6, <1>7, <1>8, <1>9, <1>10, <1>11, <1>12, <1>13,
     <1>14, <1>15 DEF Next

\* What is known of where an operation came from, and that the previous version
\* of a usable installation has its documents backed up exactly when it is the
\* older one.
THEOREM WayIsKnown == Spec => [](IInv /\ Way)
<1>1. Init => IInv /\ Way
  BY InitIInv, InitWay
<1>2. IInv /\ Exposure /\ Way /\ [Next]_vars => (IInv /\ Way)'
  BY NextIInv, NextWay
<1> QED
  BY <1>1, <1>2, ExposureKnown, PTL DEF Spec

\* An update that reports failure, with at most one I/O error, has left the
\* documents and the link as it found them, for any versions and whatever
\* operations, errors and crashes came before it; and the active version, too,
\* unless the error struck between the switch of the pointer and the handler:
\* then the pointer names the new version and the way back.
THEOREM FailedUpdatesAreContained == Spec => []FailedUpdateIsContained
<1>1. IInv /\ Way => FailedUpdateIsContained
  BY DEF Way, Results
<1> QED
  BY <1>1, WayIsKnown, PTL

\* A reported rollback with a backup has restored the three documents of its
\* version, and an automatic one without I/O errors those the update started
\* from; either way the next operation can start.
THEOREM RollbacksRestore == Spec => []RollbackRestoresDocuments
<1>1. IInv /\ Way => RollbackRestoresDocuments
  BY DEF Way, Results
<1> QED
  BY <1>1, WayIsKnown, PTL
=============================================================================
