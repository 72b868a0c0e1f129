----------------------------- MODULE MCKeyPair -----------------------------
(* Instances of KeyPair for TLC. *)
\* The handlers are model values; no symmetry, as the run checks liveness.
EXTENDS KeyPair, TLC
=============================================================================
