------------------------ MODULE MCClusterCoordinator ------------------------
(* Every plan of NumTasks tasks, every placement of the failing task, every   *)
(* retry, barrier and step limit, against every order in which the children   *)
(* end, hang or fail.                                                         *)
EXTENDS ClusterCoordinator

\* A run that is over stops; anything else that stops is a deadlock.
Over == phase = "over" /\ UNCHANGED vars

MCNext == Next \/ Over

MCSpec == Init /\ [][MCNext]_vars /\ WF_vars(Coordinator)
=============================================================================
