----------------------------- MODULE MCSession -----------------------------
(* Small instances of Session.                                             *)
EXTENDS Session, TLC

\* Users, sessions and requests are interchangeable.
SessionSymmetry ==
  Permutations(Users) \union Permutations(Sessions) \union Permutations(Workers)
=============================================================================
