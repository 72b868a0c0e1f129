----------------------------- MODULE MCPasskey -----------------------------
(* A small instance of Passkey, and of Identity within it. *)
EXTENDS Passkey, TLC

CONSTANTS m1, n1

\* A username may be the e-mail address of somebody else.
MCNames == {n1, m1}
MCLocalPart == m1 :> n1
MCProfileMail == [s \in Subjects |-> m1]

\* Requests, credentials and the two accounts are interchangeable.
Same == Permutations(Workers) \union Permutations(Creds) \union Permutations(Subjects)
=============================================================================
