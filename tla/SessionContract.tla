-------------------------- MODULE SessionContract --------------------------
(***************************************************************************)
(* What a session is for the holder of its refresh token: opened once,     *)
(* valid for one token at a time, closed for good.  "used" are the tokens  *)
(* that have ever been stored; none of them becomes valid a second time.   *)
(***************************************************************************)
CONSTANTS Sessions, Tokens, NoToken

VARIABLES opened, closed, valid, used

vars == <<opened, closed, valid, used>>

Init ==
  /\ opened = {} /\ closed = {} /\ used = {}
  /\ valid = [s \in Sessions |-> NoToken]

Use(t) == t \in Tokens \ used /\ used' = used \union {t}

Open(s, t) ==
  /\ s \notin opened
  /\ opened' = opened \union {s}
  /\ Use(t)
  /\ valid' = [valid EXCEPT ![s] = t]
  /\ UNCHANGED closed

\* The token of a live session gives way to one never seen before.
Replace(s, t) ==
  /\ s \in opened \ closed
  /\ valid' = [valid EXCEPT ![s] = t]
  /\ Use(t)
  /\ UNCHANGED <<opened, closed>>

\* A token stored in a session that is closed already opens nothing.
Waste(t) == UNCHANGED <<opened, closed, valid>> /\ Use(t)

Close(S) ==
  /\ closed' = closed \union S
  /\ valid' = [s \in Sessions |-> IF s \in S THEN NoToken ELSE valid[s]]
  /\ UNCHANGED <<opened, used>>

Next ==
  \/ \E S \in SUBSET opened : Close(S)
  \/ \E s \in Sessions, t \in Tokens : Open(s, t)
  \/ \E s \in Sessions, t \in Tokens : Replace(s, t)
  \/ \E t \in Tokens : Waste(t)

Spec == Init /\ [][Next]_vars
=============================================================================
