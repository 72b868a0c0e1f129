------------------------- MODULE MCThreatDetection -------------------------
(* Instances of ThreatDetection for TLC. *)
\* Users, identifiers, logins and runs are model values; no symmetry, as the run
\* checks liveness.
EXTENDS ThreatDetection, TLC

CONSTANTS u1, u2, shared, own

\* The address of u1 is the name of u2, who has an address besides.
MCNames == shared :> {u1, u2} @@ own :> {u2}
=============================================================================
