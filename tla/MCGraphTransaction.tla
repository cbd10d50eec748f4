-------------------------- MODULE MCGraphTransaction --------------------------
(* Two processes, three transactions and three commands, repeats included.   *)
(* The third proposal refers to a unit that the first one adds: without it    *)
(* the graph has an endpoint that does not resolve.                          *)
EXTENDS GraphTransaction, TLC

CONSTANTS t1, t2, t3

Sound == {g \in SUBSET {t1, t2, t3} : t3 \in g => t1 \in g}

Symmetry == Permutations(Procs) \cup Permutations(Inodes)
=============================================================================
