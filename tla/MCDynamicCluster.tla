--------------------------- MODULE MCDynamicCluster ---------------------------
(* A bundle of at most MaxProposals proposals over two contents, depths on   *)
(* both sides of the limit, two steps and two epochs, one contested path;    *)
(* limits that bite one at a time.                                           *)
EXTENDS DynamicCluster

MCProposals ==
    [content : {"c1", "c2"}, depth : 0..2, step : {0}, epoch : {0},
     writes : {{}, {"path"}}, flaw : {"none"}]
    \cup [content : {"c1", "c2"}, depth : {1}, step : {0, 1}, epoch : {1},
          writes : {{}, {"path"}}, flaw : {"none"}]
    \cup [content : {"c1"}, depth : {1}, step : {0}, epoch : {0, 1},
          writes : {{"path"}}, flaw : {"DRU-PRP-003"}]

Ample == [total |-> 9, active |-> 9, perEpoch |-> 9, branches |-> 9,
          depth |-> 1, reactivations |-> 1, messages |-> 99]

MCLimits == {Ample,
             [Ample EXCEPT !.total = 3, !.reactivations = 0],
             [Ample EXCEPT !.active = 1],
             [Ample EXCEPT !.active = 0],
             [Ample EXCEPT !.perEpoch = 1, !.depth = 2],
             [Ample EXCEPT !.branches = 2],
             [Ample EXCEPT !.branches = 0],
             [Ample EXCEPT !.messages = 22]}

MCScenarios == {"none", "suspension-reactivation", "replacement",
                "branch-pruning", "worker-failure", "generation-depth-limit"}

\* The run stops when it is over, and only then.
MCNext == Next \/ (Over /\ UNCHANGED vars)
MCSpec == Init /\ [][MCNext]_vars
=============================================================================
