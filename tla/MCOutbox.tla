------------------------------ MODULE MCOutbox ------------------------------
(* Small instances of Outbox.                                               *)
EXTENDS Outbox, TLC

\* Replicas run the same code; no property tells them apart.
ReplicaSymmetry == Permutations(Replicas)
=============================================================================
