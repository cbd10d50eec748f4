--------------------------- MODULE InstallUpdate ---------------------------
(***************************************************************************)
(* The installation updater: UpdateEngine (install_update/core.py) over    *)
(* PlatformAdapter (platform.py) and the native activation helper          *)
(* (InstallFoundationUpdater).  Its state is the install root on disk; each *)
(* step is one file or directory operation, so that an I/O error or a crash *)
(* can fall between any two.  One engine runs at a time, on a POSIX system. *)
(*                                                                         *)
(* Abstracted: a document is the version it names; a version directory is  *)
(* absent, partial or whole; opening and vetting the package is one        *)
(* nondeterministic verdict, since it only reads; the transaction artifact *)
(* and metadata/install_manifest.json, which no step reads back.           *)
(***************************************************************************)
EXTENDS Naturals, Sequences

CONSTANTS
  Version,     \* release versions, ordered as compare_versions orders them
  Absent,      \* a file that is not there, a JSON null
  Torn,        \* a file that does not parse
  MaxOps,      \* bound: operations started
  MaxFaults,   \* bound: I/O errors within one operation
  MaxCrashes   \* bound: crashes of the engine

ASSUME VersionsAreOrdered == Version \subseteq Nat
ASSUME MarksAreNotVersions ==
  Absent \notin Version /\ Torn \notin Version /\ Absent # Torn

Document == Version \cup {Absent, Torn}
Directory == {"absent", "partial", "whole"}
Documents == [state : Document,       \* metadata/install_state.json
              inventory : Document,   \* metadata/installed_files.json
              manifest : Document]    \* install_manifest.json
NoDocuments == [state |-> Absent, inventory |-> Absent, manifest |-> Absent]
HistoryEntry == [from : Version, to : Version, status : {"success", "rolled_back"}]

ASSUME AbsentIsNoHistory == Absent \notin Seq(HistoryEntry)

VARIABLES
  current,     \* metadata/current.json: the active and the previous version
  link,        \* <root>/current, the v1.0 compatibility symlink
  docs,        \* the three documents that name the installed version
  history,     \* metadata/update_history.json
  versions,    \* versions/<v>
  staging,     \* staging/<v>
  backup,      \* backup/<v>/metadata
  pc, op, todo, aside,          \* the engine: phase, operation, files left, old link
  report,                       \* what the last operation told its caller
  before, exposed,      \* auxiliary: disk at the start, error past the pointer
  ops, faults, crashes  \* bounds

disk == <<current, link, docs, history, versions, staging, backup>>
engine == <<pc, op, todo, aside, report>>
vars == <<disk, engine, before, exposed, ops, faults, crashes>>

Operation == [kind : {"none", "update", "recovery", "rollback"},
              goal : Version \cup {Absent},    \* the version to activate
              other : Version \cup {Absent}]   \* the one to record as previous

\* What discover insists on before any operation goes on.
Discoverable ==
  /\ current.active \in Version
  /\ docs.state = current.active
  /\ docs.inventory = current.active
  /\ versions[current.active] # "absent"
  /\ history # Absent

\* A finished install: of v1.1 (install_common.py writes the metadata), or of
\* v1.0, whose metadata the first discover derives from install_manifest.json.
Init ==
  \E v \in Version, legacy \in BOOLEAN :
    LET named == IF legacy THEN Absent ELSE v IN
    /\ current = [active |-> named, previous |-> Absent]
    /\ link = v
    /\ docs = [state |-> named, inventory |-> named, manifest |-> v]
    /\ history = IF legacy THEN Absent ELSE <<>>
    /\ versions = [w \in Version |-> IF w = v THEN "whole" ELSE "absent"]
    /\ staging = [w \in Version |-> "absent"]
    /\ backup = [w \in Version |-> NoDocuments]
    /\ pc = "idle"
    /\ op = [kind |-> "none", goal |-> Absent, other |-> Absent]
    /\ todo = <<>>
    /\ aside = Absent
    /\ report = "none"
    /\ before = [current |-> current, docs |-> docs, link |-> link]
    /\ exposed = FALSE
    /\ ops = 0
    /\ faults = 0
    /\ crashes = 0

-----------------------------------------------------------------------------
(* Slips: effects and guards as a plausible error in the code would leave     *)
(* them; the specification uses none of them.                                 *)

\* plan lets a package reinstall the version it is running from.
SlipOlderOrSame(v, w) == v < w

\* _validate_staging compares nothing.
SlipStagingSound(v) == TRUE

\* The handler of a failed link switch leaves current.json alone.
SlipPointerAfterUndo == current

\* _complete copies the backup after it has written the new documents.
SlipBackupSource == [state |-> op.goal, inventory |-> op.goal, manifest |-> op.goal]

\* Explicit rollback restores the state document alone.
SlipDocumentsToRestore == <<"state">>

\* The rollback leaves install_state.json alone when there is no backup.
SlipStateAfterRecovery == docs.state

\* rollback goes ahead without a previous version.
SlipHasPrevious == TRUE

-----------------------------------------------------------------------------

Step(from, to) == pc = from /\ pc' = to

\* The operation returns; update's finally clause empties its staging directory.
Finish(outcome) ==
  /\ pc' = "idle"
  /\ report' = outcome
  /\ todo' = <<>>
  /\ staging' = IF op.kind = "update"
                THEN [staging EXCEPT ![op.goal] = "absent"] ELSE staging

Start(kind, v) ==
  /\ pc = "idle" /\ ops < MaxOps
  /\ pc' = "discovering"
  /\ op' = [kind |-> kind, goal |-> v, other |-> Absent]
  /\ report' = "running"
  /\ before' = [current |-> current, docs |-> docs, link |-> link]
  /\ exposed' = FALSE
  /\ ops' = ops + 1
  /\ faults' = 0
  /\ UNCHANGED <<disk, todo, aside, crashes>>

StartUpdate == \E v \in Version : Start("update", v)
StartRollback == Start("rollback", Absent)

env == <<before, exposed, ops, faults, crashes>>

\* _migrate_v1: with no install_state.json, derive the metadata from the v1.0
\* manifest, one file at a time, then discover again.
BeginMigration ==
  /\ Step("discovering", "migrating")
  /\ docs.state = Absent
  /\ docs.manifest \in Version
  /\ todo' = <<"state", "current", "inventory", "history">>
  /\ UNCHANGED <<disk, op, aside, report, env>>

Migrate ==
  /\ pc = "migrating"
  /\ todo # <<>>
  /\ todo' = Tail(todo)
  /\ pc' = IF todo' = <<>> THEN "discovering" ELSE pc
  /\ docs' = IF Head(todo) \in {"state", "inventory"}
             THEN [docs EXCEPT ![Head(todo)] = docs.manifest] ELSE docs
  /\ current' = IF Head(todo) = "current"
                THEN [active |-> docs.manifest, previous |-> Absent] ELSE current
  /\ history' = IF Head(todo) = "history" THEN <<>> ELSE history
  /\ UNCHANGED <<link, versions, staging, backup, op, aside, report, env>>

\* discover refuses an install whose documents disagree.
RefuseInstall ==
  /\ pc = "discovering"
  /\ docs.state = Absent => docs.manifest \notin Version
  /\ ~Discoverable
  /\ Finish("failed")
  /\ UNCHANGED <<current, link, docs, history, versions, backup, op, aside, env>>

OlderOrSame(v, w) == v <= w

\* plan, and the gates of update before it touches the disk.
PlanRefused ==
  /\ pc = "discovering" /\ op.kind = "update" /\ Discoverable
  /\ \/ op.goal = docs.state /\ Finish("already_up_to_date")
     \/ op.goal < docs.state /\ Finish("downgrade_rejected")
     \/ ~OlderOrSame(op.goal, docs.state) /\ Finish("failed")
  /\ UNCHANGED <<current, link, docs, history, versions, backup, op, aside, env>>

PlanUpdate ==
  /\ Step("discovering", "staging")
  /\ op.kind = "update" /\ Discoverable
  /\ ~OlderOrSame(op.goal, docs.state)
  /\ op' = [op EXCEPT !.other = docs.state]
  /\ UNCHANGED <<disk, todo, aside, report, env>>

\* The version before the active one is known and still there.
HasPrevious ==
  /\ current.previous \in Version
  /\ versions[current.previous] # "absent"

\* rollback, before it hands over to _automatic_rollback.
PlanRollback ==
  /\ pc = "discovering" /\ op.kind = "rollback" /\ Discoverable
  /\ \/ /\ HasPrevious
        /\ op' = [op EXCEPT !.goal = current.previous, !.other = current.active]
        /\ pc' = "switching"
        /\ UNCHANGED <<staging, todo, report>>
     \/ /\ ~HasPrevious
        /\ Finish("failed")
        /\ UNCHANGED op
  /\ UNCHANGED <<current, link, docs, history, versions, backup, aside, env>>

\* prepare_staging: what an earlier run left there is removed.
PrepareStaging ==
  /\ Step("staging", "copying")
  /\ staging' = [staging EXCEPT ![op.goal] = "partial"]
  /\ UNCHANGED <<current, link, docs, history, versions, backup,
                 op, todo, aside, report, env>>

\* copytree: the copy is whole, or damaged without an error.
CopyPayload ==
  /\ Step("copying", "checking")
  /\ \E content \in {"partial", "whole"} :
       staging' = [staging EXCEPT ![op.goal] = content]
  /\ UNCHANGED <<current, link, docs, history, versions, backup,
                 op, todo, aside, report, env>>

\* The checksums of _validate_staging.
StagingSound(v) == staging[v] = "whole"

AcceptStaging ==
  /\ Step("checking", "placing")
  /\ StagingSound(op.goal)
  /\ UNCHANGED <<disk, op, todo, aside, report, env>>

\* Also a whole payload can fail the native preflight.
RefuseStaging ==
  /\ pc = "checking"
  /\ Finish("failed")
  /\ UNCHANGED <<current, link, docs, history, versions, backup, op, aside, env>>

\* rmtree of a version directory that an earlier operation left.
ClearFinal ==
  /\ pc = "placing"
  /\ versions[op.goal] # "absent"
  /\ \E content \in {"partial", "absent"} :
       versions' = [versions EXCEPT ![op.goal] = content]
  /\ versions' # versions
  /\ UNCHANGED <<current, link, docs, history, staging, backup, engine, env>>

PlaceFinal ==
  /\ Step("placing", "switching")
  /\ versions[op.goal] = "absent"
  /\ versions' = [versions EXCEPT ![op.goal] = staging[op.goal]]
  /\ staging' = [staging EXCEPT ![op.goal] = "absent"]
  /\ UNCHANGED <<current, link, docs, history, backup, op, todo, aside, report, env>>

-----------------------------------------------------------------------------
(* activate_version, for an update, a recovery or a rollback.                 *)

\* current.json, written whole and renamed into place.
SwitchPointer ==
  /\ Step("switching", "clearing")
  /\ versions[op.goal] # "absent"
  /\ current' = [active |-> op.goal, previous |-> op.other]
  /\ aside' = link
  /\ UNCHANGED <<link, docs, history, versions, staging, backup,
                 op, todo, report, env>>

\* What an earlier process with this number left beside the link is removed:
\* the pointer has moved already, and no handler is around it yet.
ClearTemporaries ==
  /\ Step("clearing", "unlinking")
  /\ UNCHANGED <<disk, op, todo, aside, report, env>>

SetLinkAside ==
  /\ Step("unlinking", "linking")
  /\ link' = Absent
  /\ UNCHANGED <<current, docs, history, versions, staging, backup,
                 op, todo, aside, report, env>>

SwitchLink ==
  /\ Step("linking", "unasiding")
  /\ link' = op.goal
  /\ UNCHANGED <<current, docs, history, versions, staging, backup,
                 op, todo, aside, report, env>>

DropOldLink ==
  /\ Step("unasiding", "validating")
  /\ UNCHANGED <<disk, op, todo, aside, report, env>>

\* The activation failed: INS-UPD-009 of update, INS-UPD-012 of a rollback.
ActivationFailed ==
  Finish(IF op.kind = "update" THEN "failed" ELSE "rollback_failed")

\* What the handler of a failed link switch writes to current.json.
PointerAfterUndo ==
  IF op.other \in Version /\ versions[op.other] # "absent"
  THEN [active |-> op.other, previous |-> op.goal] ELSE current

UndoPointer ==
  /\ Step("undo_pointer", "undo_link")
  /\ current' = PointerAfterUndo
  /\ UNCHANGED <<link, docs, history, versions, staging, backup,
                 op, todo, aside, report, env>>

UndoLink ==
  /\ pc = "undo_link"
  /\ link' = IF aside = Absent THEN link ELSE aside
  /\ ActivationFailed
  /\ UNCHANGED <<current, docs, history, versions, backup, op, aside, env>>

-----------------------------------------------------------------------------
(* Validation of the activated version, and what follows it.                  *)

DocumentsToBackUp == <<"state", "inventory", "manifest">>
DocumentsToRestore == <<"state", "inventory", "manifest">>
DocumentsToWrite == <<"state", "inventory", "history", "manifest">>

\* The installed commands run as the version they belong to: a partial
\* directory cannot pass, a whole one may fail.
ValidationPasses ==
  /\ pc = "validating"
  /\ versions[op.goal] = "whole"
  /\ pc' = IF op.kind = "update" THEN "backing_up" ELSE "recording"
  /\ todo' = IF op.kind = "update" THEN DocumentsToBackUp ELSE todo
  /\ UNCHANGED <<disk, op, aside, report, env>>

\* update turns to _automatic_rollback: back to the version it came from.
BeginRecovery ==
  /\ pc' = "switching"
  /\ op' = [kind |-> "recovery", goal |-> op.other, other |-> op.goal]
  /\ todo' = <<>>
  /\ UNCHANGED <<staging, aside, report>>

ValidationFails ==
  /\ pc = "validating"
  /\ \/ op.kind = "update" /\ BeginRecovery
     \/ op.kind # "update" /\ Finish("rollback_failed") /\ UNCHANGED <<op, aside>>
  /\ UNCHANGED <<current, link, docs, history, versions, backup, env>>

\* The documents _complete copies to the backup.
BackupSource == docs

\* copy2 of one document into the backup of the version left behind.
BackUp ==
  /\ pc = "backing_up"
  /\ todo' = IF Len(todo) > 1 THEN Tail(todo) ELSE DocumentsToWrite
  /\ pc' = IF Len(todo) > 1 THEN pc ELSE "writing"
  /\ backup' = [backup EXCEPT ![op.other][Head(todo)] = BackupSource[Head(todo)]]
  /\ UNCHANGED <<current, link, docs, history, versions, staging,
                 op, aside, report, env>>

Log(from, to, status) ==
  history' = Append(history, [from |-> from, to |-> to, status |-> status])

\* The writes of _complete, each atomic, install_manifest.json last: it is
\* read only then, and must parse.
Write ==
  /\ pc = "writing"
  /\ Head(todo) = "manifest" => docs.manifest \in Version
  /\ IF Head(todo) = "history"
     THEN Log(op.other, op.goal, "success") /\ UNCHANGED docs
     ELSE docs' = [docs EXCEPT ![Head(todo)] = op.goal] /\ UNCHANGED history
  /\ \/ /\ Len(todo) > 1
        /\ todo' = Tail(todo)
        /\ UNCHANGED <<staging, pc, report>>
     \/ /\ Len(todo) = 1
        /\ Finish("completed")
  /\ UNCHANGED <<current, link, versions, backup, op, aside, env>>

\* INS-UPD-015 inside _complete, with the new documents already written.
ManifestUnreadable ==
  /\ pc = "writing" /\ Head(todo) = "manifest"
  /\ docs.manifest \notin Version
  /\ BeginRecovery
  /\ UNCHANGED <<current, link, docs, history, versions, backup, env>>

\* The history entry of a rollback precedes the documents.
RecordRollback ==
  /\ Step("recording", "restoring")
  /\ Log(op.goal, op.other, "rolled_back")
  /\ todo' = IF op.kind = "rollback" /\ backup[op.goal].state # Absent
             THEN DocumentsToRestore ELSE <<>>
  /\ UNCHANGED <<current, link, docs, versions, staging, backup,
                 op, aside, report, env>>

\* copy2 of one backed up document over the active one.
RestoreFromBackup ==
  /\ pc = "restoring" /\ todo # <<>>
  /\ docs' = IF backup[op.goal][Head(todo)] = Absent THEN docs
             ELSE [docs EXCEPT ![Head(todo)] = backup[op.goal][Head(todo)]]
  /\ \/ /\ Len(todo) > 1
        /\ todo' = Tail(todo)
        /\ UNCHANGED <<staging, pc, report>>
     \/ /\ Len(todo) = 1
        /\ Finish("rolled_back")
  /\ UNCHANGED <<current, link, history, versions, backup, op, aside, env>>

StateAfterRecovery == op.goal

\* Without a backup, and always in a recovery, only install_state.json changes.
RestoreStateOnly ==
  /\ pc = "restoring" /\ todo = <<>>
  /\ docs' = [docs EXCEPT !.state = StateAfterRecovery]
  /\ Finish("rolled_back")
  /\ UNCHANGED <<current, link, history, versions, backup, op, aside, env>>

-----------------------------------------------------------------------------
(* What the file system and the machine may do.                               *)

\* An operation on a file fails; what the engine makes of it depends on which
\* handler is around it.  copy2 is not atomic: it may leave its target torn.
Fault ==
  /\ pc # "idle" /\ faults < MaxFaults
  /\ faults' = faults + 1
  /\ exposed' = (exposed \/ pc = "clearing")
  /\ \/ /\ pc = "discovering"                      \* _read_json: UpdateError
        /\ Finish("failed")
        /\ UNCHANGED <<current, link, docs, versions, backup, op>>
     \/ /\ pc \in {"migrating", "staging", "copying", "checking", "placing",
                   "backing_up", "writing"}         \* OSError leaves update
        /\ Finish("raised")
        /\ \/ UNCHANGED backup
           \/ /\ pc = "backing_up"
              /\ backup' = [backup EXCEPT ![op.other][Head(todo)] = Torn]
        /\ UNCHANGED <<current, link, docs, versions, op>>
     \/ /\ pc \in {"switching", "undo_pointer", "undo_link"}
        /\ ActivationFailed
        /\ UNCHANGED <<current, link, docs, versions, backup, op>>
     \/ /\ pc = "clearing"                          \* past the pointer, before the try
        /\ ActivationFailed
        /\ UNCHANGED <<current, link, docs, versions, backup, op>>
     \/ /\ \/ pc \in {"unlinking", "linking"}
           \/ pc = "unasiding" /\ aside # Absent
        /\ pc' = "undo_pointer"
        /\ UNCHANGED <<disk, op, todo, report>>
     \/ /\ pc = "validating"
        /\ Finish(IF op.kind = "update" THEN "raised" ELSE "rollback_failed")
        /\ UNCHANGED <<current, link, docs, versions, backup, op>>
     \/ /\ \/ pc = "backing_up"                    \* _read_json in _complete
           \/ pc = "writing" /\ Head(todo) = "manifest"
        /\ BeginRecovery
        /\ UNCHANGED <<current, link, docs, versions, backup>>
     \/ /\ pc \in {"recording", "restoring"}
        /\ Finish("rollback_failed")
        /\ \/ UNCHANGED docs
           \/ /\ pc = "restoring" /\ todo # <<>>
              /\ docs' = [docs EXCEPT ![Head(todo)] = Torn]
        /\ UNCHANGED <<current, link, versions, backup, op>>
  /\ UNCHANGED <<history, aside, before, ops, crashes>>

\* The engine dies between two steps, or inside a copy2 or a copytree.
Crash ==
  /\ pc # "idle" /\ crashes < MaxCrashes
  /\ crashes' = crashes + 1
  /\ pc' = "idle"
  /\ todo' = <<>>
  /\ report' = "crashed"
  /\ \/ UNCHANGED <<docs, backup>>
     \/ /\ pc = "backing_up"
        /\ backup' = [backup EXCEPT ![op.other][Head(todo)] = Torn]
        /\ UNCHANGED docs
     \/ /\ pc = "restoring" /\ todo # <<>>
        /\ docs' = [docs EXCEPT ![Head(todo)] = Torn]
        /\ UNCHANGED backup
  /\ UNCHANGED <<current, link, history, versions, staging, op, aside,
                 before, exposed, ops, faults>>

Next ==
  \/ StartUpdate \/ StartRollback
  \/ BeginMigration \/ Migrate \/ RefuseInstall
  \/ PlanRefused \/ PlanUpdate \/ PlanRollback
  \/ PrepareStaging \/ CopyPayload \/ AcceptStaging \/ RefuseStaging
  \/ ClearFinal \/ PlaceFinal
  \/ SwitchPointer \/ ClearTemporaries \/ SetLinkAside \/ SwitchLink \/ DropOldLink
  \/ UndoPointer \/ UndoLink
  \/ ValidationPasses \/ ValidationFails
  \/ BackUp \/ Write \/ ManifestUnreadable
  \/ RecordRollback \/ RestoreFromBackup \/ RestoreStateOnly
  \/ Fault \/ Crash

Spec == Init /\ [][Next]_vars

-----------------------------------------------------------------------------
(* Properties.                                                                *)

\* Every file is absent, torn or names a release; the engine works on what its
\* phase has determined: a switch knows its goal, and only a copy or a write
\* has files left.
TypeOK ==
  /\ current \in [active : Version \cup {Absent}, previous : Version \cup {Absent}]
  /\ link \in Version \cup {Absent}
  /\ docs \in Documents
  /\ history = Absent \/ history \in Seq(HistoryEntry)
  /\ versions \in [Version -> Directory]
  /\ staging \in [Version -> Directory]
  /\ backup \in [Version -> Documents]
  /\ op \in Operation
  /\ pc \in {"switching", "clearing", "unlinking", "linking", "unasiding", "validating",
             "backing_up", "writing", "recording", "restoring"} =>
       op.goal \in Version /\ op.other \in Version
  /\ todo # <<>> => pc \in {"migrating", "backing_up", "writing", "restoring"}
  /\ aside \in Version \cup {Absent}
  /\ exposed \in BOOLEAN
  /\ report \in {"none", "running", "failed", "raised", "crashed", "completed",
                 "already_up_to_date", "downgrade_rejected", "rolled_back",
                 "rollback_failed"}

\* The fixed launcher reads current.json and starts from the directory it
\* names: whatever is interrupted, that directory is never taken away.  Until
\* the pointer moves, an update can be killed at any step, also while version
\* directories and staging are cleared and filled, and the installation is the
\* one it started from, usable and with its files whole.
ActiveVersionIsKept ==
  /\ current.active \in Version => versions[current.active] # "absent"
  /\ (op.kind = "update"
        /\ pc \in {"staging", "copying", "checking", "placing", "switching"}) =>
       /\ Discoverable
       /\ versions[current.active] = "whole"
       /\ current.active = op.other
       /\ docs.state = op.other

\* A version becomes the active one through an update only with every file in
\* place, whatever an earlier, interrupted update left under its name in
\* staging or versions.
UpdateActivatesWholeVersion ==
  [][(op.kind = "update" /\ current'.active # current.active) =>
       versions[current'.active] = "whole"]_vars

\* The pointer, documents and link a caller finds after an operation.
Finished(kinds, outcome) == pc = "idle" /\ op.kind \in kinds /\ report = outcome

\* An update that reports failure has left documents and link as it found
\* them, and the active version, too, also when the pointer had moved already
\* and the link switch failed after it.  An error in between, where the pointer
\* has moved and the handler is not yet around, leaves the pointer on the new
\* version, with the way back recorded; a second I/O error, in the handler
\* itself, is excepted.
FailedUpdateIsContained ==
  (Finished({"update"}, "failed") /\ faults <= 1
     /\ before.current.active \in Version) =>
    /\ docs = before.docs
    /\ before.link # Absent => link = before.link
    /\ IF exposed THEN current = [active |-> op.goal, previous |-> before.current.active]
       ELSE current.active = before.current.active

\* A completed update agrees with itself in all five places that name the
\* installed version, its history and the link included, and can be undone:
\* the version it came from is whole, is the recorded previous one, and its
\* documents are backed up.
CompletedCanBeUndone ==
  Finished({"update"}, "completed") =>
    /\ Discoverable
    /\ current = [active |-> op.goal, previous |-> op.other]
    /\ link = op.goal
    /\ docs.manifest = op.goal
    /\ versions[op.goal] = "whole" /\ versions[op.other] = "whole"
    /\ backup[op.other].state = op.other
    /\ backup[op.other].inventory = op.other
    /\ history[Len(history)] =
         [from |-> op.other, to |-> op.goal, status |-> "success"]

\* Whatever a rollback was for, once it reports rolled_back the pointer, the
\* link and install_state.json agree on a version that is there and whole.
RolledBackAgrees ==
  Finished({"recovery", "rollback"}, "rolled_back") =>
    /\ current.active = op.goal
    /\ docs.state = op.goal
    /\ link = op.goal
    /\ versions[op.goal] = "whole"
    /\ history[Len(history)] =
         [from |-> op.goal, to |-> op.other, status |-> "rolled_back"]

\* A rollback leaves a usable installation whose three documents are those of
\* the version it went to: an explicit one the documents a completed update
\* backed up, an automatic one, without I/O errors, those the update started
\* from, so that a version that fails its validation leaves nothing of itself.
RollbackRestoresDocuments ==
  /\ (Finished({"rollback"}, "rolled_back") /\ backup[op.goal].inventory # Absent) =>
       /\ Discoverable
       /\ docs = backup[op.goal]
  /\ (Finished({"recovery"}, "rolled_back") /\ faults = 0
        /\ before.docs.state \in Version /\ before.docs.manifest \in Version) =>
       /\ Discoverable
       /\ docs = before.docs

-----------------------------------------------------------------------------
(* Claims the code does not keep.                                             *)

\* The report of every rollback says previous_installation_healthy: the
\* installation passes discover, so that the next operation can start.
HealthyReportIsTrue ==
  Finished({"recovery", "rollback"}, "rolled_back") => Discoverable

\* "The fixed pointer was already changed; restore it if the compatibility
\* switch fails": after an update that failed there current.json is what it was.
FailedSwitchRestoresPointer ==
  (Finished({"update"}, "failed") /\ faults <= 1 /\ ~exposed
     /\ before.current.active \in Version) =>
    current = before.current
=============================================================================
