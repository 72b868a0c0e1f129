----------------------------- MODULE MCOperator -----------------------------
(* Instances of Operator for TLC. *)
\* The handlers are model values; no symmetry, as the run checks liveness.
EXTENDS Operator, TLC
=============================================================================
