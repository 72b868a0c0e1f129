------------------------------ MODULE MCAccess ------------------------------
(* A small instance of Access. *)
EXTENDS Access, TLC

\* Two rules of one level, of which either may be found.
MCRules == {[level |-> 3, max |-> 25], [level |-> 3, max |-> 45]}

AccessSymmetry == Permutations(Workers) \union Permutations(Accounts)
=============================================================================
