---------------------------- MODULE MCWebClient ----------------------------
(* Instances of WebClient for TLC. *)
\* Calls, users and sessions are model values; no symmetry, as the run of one
\* call checks liveness.
EXTENDS WebClient, TLC
=============================================================================
