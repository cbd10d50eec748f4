-------------------------- MODULE MCInstallUpdate --------------------------
(* A small instance of InstallUpdate: three releases, so that an update can   *)
(* meet the leftovers of an earlier one and a rollback can go to a version    *)
(* newer than the active one.                                                 *)
EXTENDS InstallUpdate

\* The engine has used up its operations; everything else that stops is a
\* deadlock.
AllDone == pc = "idle" /\ ops = MaxOps /\ UNCHANGED vars

MCNext == Next \/ AllDone

MCSpec == Init /\ [][MCNext]_vars
=============================================================================
