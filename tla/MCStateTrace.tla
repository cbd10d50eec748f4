----------------------------- MODULE MCStateTrace -----------------------------
(* Two variables, two structs, one array of at most two of them and one call. *)
EXTENDS StateTrace, TLC

Symmetry == Permutations(Rows)
=============================================================================
