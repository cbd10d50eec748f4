--------------------------- MODULE MCTensorLifetime ---------------------------
(***************************************************************************)
(* The instances of TensorLifetime that TLC checks: two names, calls two   *)
(* deep, and limits on live tensors and on tape nodes low enough to bite.  *)
(***************************************************************************)
EXTENDS TensorLifetime
=============================================================================
