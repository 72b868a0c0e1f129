---------------------------- MODULE SessionProofs ----------------------------
(***************************************************************************)
(* Theorems about sessions, for any number of users, sessions, app clients,*)
(* concurrent requests, tokens and aborted handlers.                       *)
(***************************************************************************)
EXTENDS Session, TLAPS

\* The handler a request is in fits the call it awaits, and the session it is
\* about is a row of the user it is about.
StepInv ==
  \A w \in Workers :
    /\ pc[w] # "idle" /\ req[w].op # "revokeAll" =>
         req[w].sess \in Sessions /\ owner[req[w].sess] = req[w].user
    /\ pc[w] \in {"findAccess", "access", "audit"} =>
         req[w].client \in Clients /\ req[w].op \in {"issue", "rotate", "consent"}
    /\ pc[w] = "emitCreated" => req[w].op = "issue"
    /\ pc[w] = "respond" => req[w].op \in {"issue", "rotate"}
    /\ pc[w] = "rotate" => req[w].op = "rotate"
    /\ pc[w] = "revokeOne" => req[w].op \in {"reuse", "revoke"}
    /\ pc[w] = "emitRevoked" => req[w].op = "revoke"
    /\ pc[w] \in {"revokeAll", "emitAll"} => req[w].op \in {"replay", "reuse", "revokeAll"}
    /\ pc[w] = "emitHijack" => req[w].op = "reuse"
    /\ pc[w] # "idle" => \A s \in req[w].seen : owner[s] = req[w].user

\* What a handler is about to announce is true already.
AnnounceInv ==
  /\ AnnouncedIsTrue
  /\ TerminatedMeansAll
  /\ \A w \in Workers :
       /\ pc[w] = "emitRevoked" => revoked[req[w].sess]
       /\ pc[w] \in {"revokeAll", "emitAll", "emitHijack"} /\ req[w].op = "reuse" =>
            req[w].sess \in Sessions /\ revoked[req[w].sess]
       /\ pc[w] = "audit" => req[w].client \in access[req[w].sess]

\* Where every token is: stored, rotated away, or not yet written.
TokenInv ==
  /\ KnownTokensWereStored
  /\ AlarmMeansReuse
  /\ \A p \in known : owner[p[1]] # NoUser
  /\ \A s \in Sessions : owner[s] # NoUser => hash[s] \in 1..(next - 1)
  /\ \A s \in Sessions : owner[s] = NoUser => hash[s] = 0 /\ ~revoked[s]
  /\ \A w \in Workers :
       /\ pc[w] # "idle" /\ req[w].op \in {"issue", "rotate"} => req[w].new \in 1..(next - 1)
       /\ pc[w] \notin {"idle", "rotate"} /\ req[w].op \in {"issue", "rotate"} =>
            req[w].new = hash[req[w].sess] \/ req[w].new \in spent

IInv == TypeOK /\ StepInv /\ AnnounceInv /\ TokenInv

USE SessionAssumption

LEMMA InitIInv == Init => IInv
  BY DEF Init, IInv, TypeOK, Steps, Tokens, StepInv, AnnounceInv, TokenInv, AnnouncedIsTrue,
     TerminatedMeansAll, KnownTokensWereStored, AlarmMeansReuse

\* One step per action, and under it one per conjunct.
LEMMA NextIInv == IInv /\ [Next]_vars => IInv'
<1> SUFFICES ASSUME IInv, [Next]_vars PROVE IInv'
  OBVIOUS
<1> USE DEF IInv
<1>1. ASSUME NEW w \in Workers, NEW u \in Users, NEW s \in Sessions, NEW c \in Clients \union {NoClient}, CreateSession(w, u, s, c) PROVE IInv'
  <2> USE <1>1 DEF CreateSession, FreshToken, Begin, Locals, SessionsOf, Goto, rows
  <2>1. TypeOK'
    BY DEF TypeOK, Requests, NoRequest, Ops, Steps, Tokens, Events, StepInv
  <2>2. StepInv'
    BY DEF TypeOK, Requests, Steps, StepInv
  <2>3. AnnounceInv'
    BY DEF TypeOK, Requests, StepInv, AnnounceInv, AnnouncedIsTrue, TerminatedMeansAll, TokenInv
  <2>4. TokenInv'
    BY DEF TypeOK, Requests, Tokens, StepInv, TokenInv, KnownTokensWereStored, AlarmMeansReuse
  <2> QED BY <2>1, <2>2, <2>3, <2>4
<1>2. ASSUME NEW w \in Workers, NEW s \in Sessions, NEW t \in Tokens \union {Unissued}, NEW c \in Clients \union {NoClient}, Refresh(w, s, t, c) PROVE IInv'
  <2> USE <1>2 DEF Refresh, Presented, Unissued, FreshToken, Begin, Locals, SessionsOf, Goto, rows
  <2>1. TypeOK'
    <3> HIDE DEF Locals, Unissued
    <3>1. /\ t \in 0..MaxToken /\ 0 \in 0..MaxToken /\ s \in Sessions \union {NoSession}
          /\ next \in 1..(MaxToken + 1) /\ owner[s] \in Users
          /\ {x \in Sessions : owner[x] = owner[s]} \subseteq Sessions
      BY DEF TypeOK, Tokens, TokenInv, Unissued
    <3>2. ASSUME NEW o \in Ops, NEW x \in {t, Unissued}, NEW n \in 0..MaxToken, NEW d \in {c, NoClient}
          PROVE  Locals(o, owner[s], s, x, n, d) \in Requests
      BY <3>1 DEF Requests, Locals, Unissued
    <3>3. PICK o \in Ops, x \in {t, Unissued}, n \in 0..MaxToken, d \in {c, NoClient}, p \in Steps :
            /\ req' = [req EXCEPT ![w] = Locals(o, owner[s], s, x, n, d)]
            /\ pc' = [pc EXCEPT ![w] = p]
      <4>1. CASE req' = [req EXCEPT ![w] = Locals("replay", owner[s], s, Unissued, 0, NoClient)]
                 /\ pc' = [pc EXCEPT ![w] = "revokeAll"]
        BY <3>1, <4>1 DEF Ops, Steps
      <4>2. CASE req' = [req EXCEPT ![w] = Locals("reuse", owner[s], s, t, 0, NoClient)]
                 /\ pc' = [pc EXCEPT ![w] = "revokeOne"]
        BY <3>1, <4>2 DEF Ops, Steps
      <4>3. CASE req' = [req EXCEPT ![w] = Locals("rotate", owner[s], s, t, next, c)]
                 /\ pc' = [pc EXCEPT ![w] = "rotate"] /\ next <= MaxToken
        <5>1. /\ "rotate" \in Ops /\ "rotate" \in Steps /\ next \in 0..MaxToken
              /\ t \in {t, Unissued} /\ c \in {c, NoClient}
          BY <3>1, <4>3 DEF Ops, Steps
        <5> HIDE <1>2 DEF Refresh
        <5> QED BY <4>3, <5>1
      <4> QED BY <4>1, <4>2, <4>3
    <3>4. next' \in 1..(MaxToken + 1)
      BY <3>1 DEF TypeOK
    <3> QED BY <3>2, <3>3, <3>4 DEF TypeOK
  <2>2. StepInv'
    BY DEF TypeOK, Requests, Steps, StepInv
  <2>3. AnnounceInv'
    BY DEF TypeOK, Requests, StepInv, AnnounceInv, AnnouncedIsTrue, TerminatedMeansAll, TokenInv
  <2>4. TokenInv'
    BY DEF TypeOK, Requests, Tokens, StepInv, TokenInv, KnownTokensWereStored, AlarmMeansReuse
  <2> QED BY <2>1, <2>2, <2>3, <2>4
<1>3. ASSUME NEW w \in Workers, NEW s \in Sessions, NEW c \in Clients, Consent(w, s, c) PROVE IInv'
  <2> USE <1>3 DEF Consent, Begin, Locals, SessionsOf, Goto, rows
  <2>1. TypeOK'
    BY DEF TypeOK, Requests, NoRequest, Ops, Steps, Tokens, Events, StepInv
  <2>2. StepInv'
    BY DEF TypeOK, Requests, Steps, StepInv
  <2>3. AnnounceInv'
    BY DEF TypeOK, Requests, StepInv, AnnounceInv, AnnouncedIsTrue, TerminatedMeansAll, TokenInv
  <2>4. TokenInv'
    BY DEF TypeOK, Requests, Tokens, StepInv, TokenInv, KnownTokensWereStored, AlarmMeansReuse
  <2> QED BY <2>1, <2>2, <2>3, <2>4
<1>4. ASSUME NEW w \in Workers, NEW s \in Sessions, Revoke(w, s) PROVE IInv'
  <2> USE <1>4 DEF Revoke, Begin, Locals, SessionsOf, Goto, rows
  <2>1. TypeOK'
    BY DEF TypeOK, Requests, NoRequest, Ops, Steps, Tokens, Events, StepInv
  <2>2. StepInv'
    BY DEF TypeOK, Requests, Steps, StepInv
  <2>3. AnnounceInv'
    BY DEF TypeOK, Requests, StepInv, AnnounceInv, AnnouncedIsTrue, TerminatedMeansAll, TokenInv
  <2>4. TokenInv'
    BY DEF TypeOK, Requests, Tokens, StepInv, TokenInv, KnownTokensWereStored, AlarmMeansReuse
  <2> QED BY <2>1, <2>2, <2>3, <2>4
<1>5. ASSUME NEW w \in Workers, NEW u \in Users, RevokeAllSessions(w, u) PROVE IInv'
  <2> USE <1>5 DEF RevokeAllSessions, Begin, Locals, SessionsOf, Goto, rows
  <2>1. TypeOK'
    BY DEF TypeOK, Requests, NoRequest, Ops, Steps, Tokens, Events, StepInv
  <2>2. StepInv'
    BY DEF TypeOK, Requests, Steps, StepInv
  <2>3. AnnounceInv'
    BY DEF TypeOK, Requests, StepInv, AnnounceInv, AnnouncedIsTrue, TerminatedMeansAll, TokenInv
  <2>4. TokenInv'
    BY DEF TypeOK, Requests, Tokens, StepInv, TokenInv, KnownTokensWereStored, AlarmMeansReuse
  <2> QED BY <2>1, <2>2, <2>3, <2>4
<1>6. ASSUME NEW w \in Workers, EmitCreated(w) PROVE IInv'
  <2> USE <1>6 DEF EmitCreated, Emit, Goto, rows
  <2>1. TypeOK'
    BY DEF TypeOK, Requests, NoRequest, Ops, Steps, Tokens, Events, StepInv
  <2>2. StepInv'
    BY DEF TypeOK, Requests, Steps, StepInv
  <2>3. AnnounceInv'
    BY DEF TypeOK, Requests, StepInv, AnnounceInv, AnnouncedIsTrue, TerminatedMeansAll, TokenInv
  <2>4. TokenInv'
    BY DEF TypeOK, Requests, Tokens, StepInv, TokenInv, KnownTokensWereStored, AlarmMeansReuse
  <2> QED BY <2>1, <2>2, <2>3, <2>4
<1>7. ASSUME NEW w \in Workers, Respond(w) PROVE IInv'
  <2> USE <1>7 DEF Respond, Return, Goto, rows
  <2>1. TypeOK'
    BY DEF TypeOK, Requests, NoRequest, Ops, Steps, Tokens, Events, StepInv, TokenInv
  <2>2. StepInv'
    BY DEF TypeOK, Requests, Steps, StepInv
  <2>3. AnnounceInv'
    BY DEF TypeOK, Requests, StepInv, AnnounceInv, AnnouncedIsTrue, TerminatedMeansAll, TokenInv
  <2>4. TokenInv'
    BY DEF TypeOK, Requests, Tokens, StepInv, TokenInv, KnownTokensWereStored, AlarmMeansReuse
  <2> QED BY <2>1, <2>2, <2>3, <2>4
<1>8. ASSUME NEW w \in Workers, Rotate(w) PROVE IInv'
  <2> USE <1>8 DEF Rotate, Goto, rows
  <2>0. /\ req[w].sess \in Sessions /\ req[w].new \in 0..MaxToken
        /\ owner[req[w].sess] # NoUser
    BY DEF StepInv, TypeOK, Requests
  <2>a. hash[req[w].sess] \in Tokens
    BY <2>0 DEF TypeOK, TokenInv, Tokens
  <2>1. TypeOK'
    BY <2>0, <2>a DEF TypeOK, Steps
  <2>2. StepInv'
    BY DEF TypeOK, Requests, Steps, StepInv
  <2>3. AnnounceInv'
    BY DEF TypeOK, Requests, StepInv, AnnounceInv, AnnouncedIsTrue, TerminatedMeansAll, TokenInv
  <2>4. TokenInv'
    BY DEF TypeOK, Requests, Tokens, StepInv, TokenInv, KnownTokensWereStored, AlarmMeansReuse
  <2> QED BY <2>1, <2>2, <2>3, <2>4
<1>9. ASSUME NEW w \in Workers, RevokeOne(w) PROVE IInv'
  <2> USE <1>9 DEF RevokeOne, Goto, rows
  <2>1. TypeOK'
    BY DEF TypeOK, Requests, NoRequest, Ops, Steps, Tokens, Events, StepInv
  <2>2. StepInv'
    BY DEF TypeOK, Requests, Steps, StepInv
  <2>3. AnnounceInv'
    BY DEF TypeOK, Requests, StepInv, AnnounceInv, AnnouncedIsTrue, TerminatedMeansAll, TokenInv
  <2>4. TokenInv'
    BY DEF TypeOK, Requests, Tokens, StepInv, TokenInv, KnownTokensWereStored, AlarmMeansReuse
  <2> QED BY <2>1, <2>2, <2>3, <2>4
<1>10. ASSUME NEW w \in Workers, RevokeAll(w) PROVE IInv'
  <2> USE <1>10 DEF RevokeAll, Goto, rows
  <2>1. TypeOK'
    BY DEF TypeOK, Requests, NoRequest, Ops, Steps, Tokens, Events, StepInv
  <2>2. StepInv'
    BY DEF TypeOK, Requests, Steps, StepInv
  <2>3. AnnounceInv'
    <3>0. \A s \in Sessions : revoked[s] => revoked'[s]
      BY DEF TypeOK
    <3>1. AnnouncedIsTrue'
      BY <3>0 DEF AnnounceInv, AnnouncedIsTrue
    <3>2. TerminatedMeansAll'
      <4> SUFFICES ASSUME NEW q \in Workers, pc'[q] \in {"emitAll", "emitHijack"},
                          NEW s \in req[q].seen
                   PROVE  revoked'[s]
        BY DEF TerminatedMeansAll
      <4>1. s \in Sessions /\ owner[s] = req[q].user
        BY DEF TypeOK, Requests, StepInv
      <4>2. CASE q = w
        BY <4>1, <4>2
      <4>3. CASE q # w
        BY <3>0, <4>1, <4>3 DEF TypeOK, AnnounceInv, TerminatedMeansAll
      <4> QED BY <4>2, <4>3
    <3>3. \A q \in Workers :
            /\ pc'[q] = "emitRevoked" => revoked'[req[q].sess]
            /\ pc'[q] \in {"revokeAll", "emitAll", "emitHijack"} /\ req[q].op = "reuse" =>
                 req[q].sess \in Sessions /\ revoked'[req[q].sess]
            /\ pc'[q] = "audit" => req[q].client \in access[req[q].sess]
      BY <3>0 DEF TypeOK, StepInv, AnnounceInv
    <3> QED BY <3>1, <3>2, <3>3 DEF AnnounceInv
  <2>4. TokenInv'
    BY DEF TypeOK, Requests, Tokens, StepInv, TokenInv, KnownTokensWereStored, AlarmMeansReuse
  <2> QED BY <2>1, <2>2, <2>3, <2>4
<1>11. ASSUME NEW w \in Workers, EmitRevoked(w) PROVE IInv'
  <2> USE <1>11 DEF EmitRevoked, Emit, Return, Goto, rows
  <2>1. TypeOK'
    BY DEF TypeOK, Requests, NoRequest, Ops, Steps, Tokens, Events, StepInv
  <2>2. StepInv'
    BY DEF TypeOK, Requests, Steps, StepInv
  <2>3. AnnounceInv'
    BY DEF TypeOK, Requests, StepInv, AnnounceInv, AnnouncedIsTrue, TerminatedMeansAll, TokenInv
  <2>4. TokenInv'
    BY DEF TypeOK, Requests, Tokens, StepInv, TokenInv, KnownTokensWereStored, AlarmMeansReuse
  <2> QED BY <2>1, <2>2, <2>3, <2>4
<1>12. ASSUME NEW w \in Workers, EmitAll(w) PROVE IInv'
  <2> USE <1>12 DEF EmitAll, Emit, Return, Goto, rows
  <2>1. TypeOK'
    BY DEF TypeOK, Requests, NoRequest, Ops, Steps, Tokens, Events, StepInv
  <2>2. StepInv'
    BY DEF TypeOK, Requests, Steps, StepInv
  <2>3. AnnounceInv'
    BY DEF TypeOK, Requests, StepInv, AnnounceInv, AnnouncedIsTrue, TerminatedMeansAll, TokenInv
  <2>4. TokenInv'
    BY DEF TypeOK, Requests, Tokens, StepInv, TokenInv, KnownTokensWereStored, AlarmMeansReuse
  <2> QED BY <2>1, <2>2, <2>3, <2>4
<1>13. ASSUME NEW w \in Workers, EmitHijack(w) PROVE IInv'
  <2> USE <1>13 DEF EmitHijack, Emit, Return, Goto, rows
  <2>1. TypeOK'
    BY DEF TypeOK, Requests, NoRequest, Ops, Steps, Tokens, Events, StepInv
  <2>2. StepInv'
    BY DEF TypeOK, Requests, Steps, StepInv
  <2>3. AnnounceInv'
    BY DEF TypeOK, Requests, StepInv, AnnounceInv, AnnouncedIsTrue, TerminatedMeansAll, TokenInv
  <2>4. TokenInv'
    BY DEF TypeOK, Requests, Tokens, StepInv, TokenInv, KnownTokensWereStored, AlarmMeansReuse
  <2> QED BY <2>1, <2>2, <2>3, <2>4
<1>14. ASSUME NEW w \in Workers, FindAccess(w) PROVE IInv'
  <2> USE <1>14 DEF FindAccess, Return, Goto, rows
  <2>1. TypeOK'
    BY DEF TypeOK, Requests, NoRequest, Ops, Steps, Tokens, Events, StepInv
  <2>2. StepInv'
    BY DEF TypeOK, Requests, Steps, StepInv
  <2>3. AnnounceInv'
    BY DEF TypeOK, Requests, StepInv, AnnounceInv, AnnouncedIsTrue, TerminatedMeansAll, TokenInv
  <2>4. TokenInv'
    BY DEF TypeOK, Requests, Tokens, StepInv, TokenInv, KnownTokensWereStored, AlarmMeansReuse
  <2> QED BY <2>1, <2>2, <2>3, <2>4
<1>15. ASSUME NEW w \in Workers, CreateAccess(w) PROVE IInv'
  <2> USE <1>15 DEF CreateAccess, Return, Goto, rows
  <2>0. req[w].sess \in Sessions /\ req[w].client \in Clients
    BY DEF StepInv
  <2>1. TypeOK'
    <3>1. access' \in [Sessions -> SUBSET Clients]
      BY <2>0 DEF TypeOK
    <3> QED BY <3>1 DEF TypeOK, Steps, NoRequest
  <2>2. StepInv'
    BY DEF TypeOK, Requests, Steps, StepInv
  <2>3. AnnounceInv'
    BY DEF TypeOK, Requests, StepInv, AnnounceInv, AnnouncedIsTrue, TerminatedMeansAll, TokenInv
  <2>4. TokenInv'
    BY DEF TypeOK, Requests, Tokens, StepInv, TokenInv, KnownTokensWereStored, AlarmMeansReuse
  <2> QED BY <2>1, <2>2, <2>3, <2>4
<1>16. ASSUME NEW w \in Workers, AuditAccess(w) PROVE IInv'
  <2> USE <1>16 DEF AuditAccess, Return, Goto, rows
  <2>1. TypeOK'
    BY DEF TypeOK, Requests, NoRequest, Ops, Steps, Tokens, Events, StepInv
  <2>2. StepInv'
    BY DEF TypeOK, Requests, Steps, StepInv
  <2>3. AnnounceInv'
    BY DEF TypeOK, Requests, StepInv, AnnounceInv, AnnouncedIsTrue, TerminatedMeansAll, TokenInv
  <2>4. TokenInv'
    BY DEF TypeOK, Requests, Tokens, StepInv, TokenInv, KnownTokensWereStored, AlarmMeansReuse
  <2> QED BY <2>1, <2>2, <2>3, <2>4
<1>17. ASSUME NEW w \in Workers, Abort(w) PROVE IInv'
  <2> USE <1>17 DEF Abort, Return, Goto, rows
  <2>1. TypeOK'
    BY DEF TypeOK, Requests, NoRequest, Ops, Steps, Tokens, Events, StepInv
  <2>2. StepInv'
    BY DEF TypeOK, Requests, Steps, StepInv
  <2>3. AnnounceInv'
    BY DEF TypeOK, Requests, StepInv, AnnounceInv, AnnouncedIsTrue, TerminatedMeansAll, TokenInv
  <2>4. TokenInv'
    BY DEF TypeOK, Requests, Tokens, StepInv, TokenInv, KnownTokensWereStored, AlarmMeansReuse
  <2> QED BY <2>1, <2>2, <2>3, <2>4
<1>18. ASSUME NEW s \in Sessions, AdminRevoke(s) PROVE IInv'
  <2> USE <1>18 DEF AdminRevoke, rows
  <2>1. TypeOK'
    BY DEF TypeOK, Requests, NoRequest, Ops, Steps, Tokens, Events, StepInv
  <2>2. StepInv'
    BY DEF TypeOK, Requests, Steps, StepInv
  <2>3. AnnounceInv'
    BY DEF TypeOK, Requests, StepInv, AnnounceInv, AnnouncedIsTrue, TerminatedMeansAll, TokenInv
  <2>4. TokenInv'
    BY DEF TypeOK, Requests, Tokens, StepInv, TokenInv, KnownTokensWereStored, AlarmMeansReuse
  <2> QED BY <2>1, <2>2, <2>3, <2>4
<1>19. CASE UNCHANGED vars
  BY <1>19 DEF vars, rows, TypeOK, StepInv, AnnounceInv, TokenInv, AnnouncedIsTrue,
     TerminatedMeansAll, KnownTokensWereStored, AlarmMeansReuse
<1> QED
  BY <1>1, <1>2, <1>3, <1>4, <1>5, <1>6, <1>7, <1>8, <1>9, <1>10, <1>11, <1>12, <1>13, <1>14, <1>15, <1>16, <1>17, <1>18, <1>19 DEF Next, Arrive, Continue

\* Rows, tokens and the locals of every handler keep their types.
THEOREM TypeCorrect == Spec => []TypeOK
<1>1. IInv => TypeOK
  BY DEF IInv
<1> QED BY <1>1, InitIInv, NextIInv, PTL DEF Spec

\* No event and no audit entry is ever written before what it reports.
THEOREM AnnouncementsHold == Spec => []AnnouncedIsTrue
<1>1. IInv => AnnouncedIsTrue
  BY DEF IInv, AnnounceInv
<1> QED BY <1>1, InitIInv, NextIInv, PTL DEF Spec

\* "All active sessions have been terminated" is true of all the sessions the
\* user had when the request was read.
THEOREM TerminationHolds == Spec => []TerminatedMeansAll
<1>1. IInv => TerminatedMeansAll
  BY DEF IInv, AnnounceInv
<1> QED BY <1>1, InitIInv, NextIInv, PTL DEF Spec

\* Clients never hold a token the server did not store.
THEOREM KnownTokensHold == Spec => []KnownTokensWereStored
<1>1. IInv => KnownTokensWereStored
  BY DEF IInv, TokenInv
<1> QED BY <1>1, InitIInv, NextIInv, PTL DEF Spec

\* The reuse alarm is only ever raised for a token that was rotated away or a value
\* that is no token of the session, never for a current one.
THEOREM NoFalseAlarm == Spec => []AlarmMeansReuse
<1>1. IInv => AlarmMeansReuse
  BY DEF IInv, TokenInv
<1> QED BY <1>1, InitIInv, NextIInv, PTL DEF Spec

-----------------------------------------------------------------------------
(***************************************************************************)
(* The contract.  A generated token is in no row and in no other handler   *)
(* until it is stored; a stored one is not yet rotated away.               *)
(***************************************************************************)
FreshInv ==
  /\ spent \subseteq 1..(next - 1)
  /\ \A s \in Sessions : owner[s] # NoUser => hash[s] \notin spent
  /\ \A s, q \in Sessions :
       s # q /\ owner[s] # NoUser /\ owner[q] # NoUser => hash[s] # hash[q]
  /\ \A w \in Workers : pc[w] = "rotate" =>
       req[w].new \notin spent /\ \A s \in Sessions : hash[s] # req[w].new
  /\ \A w, v \in Workers :
       w # v /\ pc[w] = "rotate" /\ pc[v] = "rotate" => req[w].new # req[v].new

LEMMA InitFresh == Init => FreshInv
  BY DEF Init, FreshInv

LEMMA NextFresh ==
  ASSUME IInv, FreshInv, [Next]_vars
  PROVE  FreshInv'
<1> USE DEF IInv
<1>1. ASSUME NEW w \in Workers, NEW u \in Users, NEW s \in Sessions, NEW c \in Clients \union {NoClient}, CreateSession(w, u, s, c) PROVE FreshInv'
  BY <1>1 DEF CreateSession, FreshToken, Begin, Locals, SessionsOf, Goto, rows, TypeOK, Requests, StepInv, TokenInv, FreshInv
<1>2. ASSUME NEW w \in Workers, NEW s \in Sessions, NEW t \in Tokens \union {Unissued}, NEW c \in Clients \union {NoClient}, Refresh(w, s, t, c) PROVE FreshInv'
  BY <1>2 DEF Refresh, Presented, Unissued, FreshToken, Begin, Locals, SessionsOf, Goto, rows, TypeOK, Requests, StepInv, TokenInv, FreshInv
<1>3. ASSUME NEW w \in Workers, NEW s \in Sessions, NEW c \in Clients, Consent(w, s, c) PROVE FreshInv'
  BY <1>3 DEF Consent, Begin, Locals, SessionsOf, Goto, rows, TypeOK, Requests, StepInv, TokenInv, FreshInv
<1>4. ASSUME NEW w \in Workers, NEW s \in Sessions, Revoke(w, s) PROVE FreshInv'
  BY <1>4 DEF Revoke, Begin, Locals, SessionsOf, Goto, rows, TypeOK, Requests, StepInv, TokenInv, FreshInv
<1>5. ASSUME NEW w \in Workers, NEW u \in Users, RevokeAllSessions(w, u) PROVE FreshInv'
  BY <1>5 DEF RevokeAllSessions, Begin, Locals, SessionsOf, Goto, rows, TypeOK, Requests, StepInv, TokenInv, FreshInv
<1>6. ASSUME NEW w \in Workers, EmitCreated(w) PROVE FreshInv'
  BY <1>6 DEF EmitCreated, Emit, Goto, rows, TypeOK, Requests, StepInv, TokenInv, FreshInv
<1>7. ASSUME NEW w \in Workers, Respond(w) PROVE FreshInv'
  BY <1>7 DEF Respond, Return, Goto, rows, TypeOK, Requests, StepInv, TokenInv, FreshInv
<1>8. ASSUME NEW w \in Workers, Rotate(w) PROVE FreshInv'
  <2> USE <1>8 DEF Rotate, Goto
  <2>1. /\ req[w].sess \in Sessions /\ owner[req[w].sess] # NoUser
        /\ hash[req[w].sess] \in 1..(next - 1)
        /\ req[w].new \notin spent
        /\ \A s \in Sessions : hash[s] # req[w].new
    BY DEF TypeOK, Requests, StepInv, TokenInv, FreshInv
  <2>2. \A s \in Sessions :
          hash'[s] = IF s = req[w].sess THEN req[w].new ELSE hash[s]
    BY DEF TypeOK
  <2>3. spent' \subseteq 1..(next' - 1)
    BY <2>1 DEF FreshInv
  <2>4. \A s \in Sessions : owner'[s] # NoUser => hash'[s] \notin spent'
    BY <2>1, <2>2 DEF FreshInv
  <2>5. \A s, q \in Sessions :
          s # q /\ owner'[s] # NoUser /\ owner'[q] # NoUser => hash'[s] # hash'[q]
    BY <2>1, <2>2 DEF FreshInv
  <2>6. \A v \in Workers : pc'[v] = "rotate" => v # w /\ pc[v] = "rotate"
    BY DEF TypeOK
  <2>7. \A v \in Workers : pc'[v] = "rotate" =>
          req'[v].new \notin spent' /\ \A s \in Sessions : hash'[s] # req'[v].new
    BY <2>1, <2>2, <2>6 DEF FreshInv
  <2>8. \A v, q \in Workers :
          v # q /\ pc'[v] = "rotate" /\ pc'[q] = "rotate" => req'[v].new # req'[q].new
    BY <2>6 DEF FreshInv
  <2> QED BY <2>3, <2>4, <2>5, <2>7, <2>8 DEF FreshInv
<1>9. ASSUME NEW w \in Workers, RevokeOne(w) PROVE FreshInv'
  BY <1>9 DEF RevokeOne, Goto, rows, TypeOK, Requests, StepInv, TokenInv, FreshInv
<1>10. ASSUME NEW w \in Workers, RevokeAll(w) PROVE FreshInv'
  BY <1>10 DEF RevokeAll, Goto, rows, TypeOK, Requests, StepInv, TokenInv, FreshInv
<1>11. ASSUME NEW w \in Workers, EmitRevoked(w) PROVE FreshInv'
  BY <1>11 DEF EmitRevoked, Emit, Return, Goto, rows, TypeOK, Requests, StepInv, TokenInv, FreshInv
<1>12. ASSUME NEW w \in Workers, EmitAll(w) PROVE FreshInv'
  BY <1>12 DEF EmitAll, Emit, Return, Goto, rows, TypeOK, Requests, StepInv, TokenInv, FreshInv
<1>13. ASSUME NEW w \in Workers, EmitHijack(w) PROVE FreshInv'
  BY <1>13 DEF EmitHijack, Emit, Return, Goto, rows, TypeOK, Requests, StepInv, TokenInv, FreshInv
<1>14. ASSUME NEW w \in Workers, FindAccess(w) PROVE FreshInv'
  BY <1>14 DEF FindAccess, Return, Goto, rows, TypeOK, Requests, StepInv, TokenInv, FreshInv
<1>15. ASSUME NEW w \in Workers, CreateAccess(w) PROVE FreshInv'
  BY <1>15 DEF CreateAccess, Return, Goto, rows, TypeOK, Requests, StepInv, TokenInv, FreshInv
<1>16. ASSUME NEW w \in Workers, AuditAccess(w) PROVE FreshInv'
  BY <1>16 DEF AuditAccess, Return, Goto, rows, TypeOK, Requests, StepInv, TokenInv, FreshInv
<1>17. ASSUME NEW w \in Workers, Abort(w) PROVE FreshInv'
  BY <1>17 DEF Abort, Return, Goto, rows, TypeOK, Requests, StepInv, TokenInv, FreshInv
<1>18. ASSUME NEW s \in Sessions, AdminRevoke(s) PROVE FreshInv'
  BY <1>18 DEF AdminRevoke, rows, TypeOK, Requests, StepInv, TokenInv, FreshInv
<1>19. CASE UNCHANGED vars
  BY <1>19 DEF vars, rows, FreshInv
<1> QED
  BY <1>1, <1>2, <1>3, <1>4, <1>5, <1>6, <1>7, <1>8, <1>9, <1>10, <1>11, <1>12, <1>13, <1>14, <1>15, <1>16, <1>17, <1>18, <1>19 DEF Next, Arrive, Continue

\* Each step opens, replaces, wastes or closes, or is invisible.
LEMMA StepImplements ==
  ASSUME IInv, FreshInv, [Next]_vars
  PROVE  [Contract!Next]_(Contract!vars)
<1> USE DEF IInv, Contract!vars
<1>1. ASSUME NEW w \in Workers, NEW u \in Users, NEW s \in Sessions, NEW c \in Clients \union {NoClient}, CreateSession(w, u, s, c)
      PROVE  [Contract!Next]_(Contract!vars)
  <2> USE <1>1 DEF CreateSession, FreshToken, Begin
  <2>1. next \in Tokens /\ next \notin Used
    BY DEF TypeOK, Tokens, Used, FreshInv, TokenInv
  <2>2. ~revoked[s] /\ hash[s] = 0 /\ u # NoUser
    BY DEF TokenInv
  <2>3. Used' = Used \union {next}
    BY <2>1, <2>2 DEF Used, TypeOK, Tokens
  <2>4. Valid' = [Valid EXCEPT ![s] = next]
    BY <2>2 DEF Valid, TypeOK
  <2>5. Opened' = Opened \union {s} /\ s \notin Opened
    BY <2>2 DEF Opened, TypeOK
  <2>6. Closed' = Closed
    BY DEF Closed
  <2>7. Contract!Open(s, next)
    BY <2>1, <2>3, <2>4, <2>5, <2>6 DEF Contract!Open, Contract!Use
  <2> QED BY <2>1, <2>7 DEF Contract!Next
<1>2. ASSUME NEW w \in Workers, NEW s \in Sessions, NEW t \in Tokens \union {Unissued}, NEW c \in Clients \union {NoClient}, Refresh(w, s, t, c)
      PROVE  [Contract!Next]_(Contract!vars)
  BY <1>2 DEF Refresh, Presented, Unissued, rows, Opened, Closed, Valid, Used
<1>3. ASSUME NEW w \in Workers, NEW s \in Sessions, NEW c \in Clients, Consent(w, s, c)
      PROVE  [Contract!Next]_(Contract!vars)
  BY <1>3 DEF Consent, rows, Opened, Closed, Valid, Used
<1>4. ASSUME NEW w \in Workers, NEW s \in Sessions, Revoke(w, s)
      PROVE  [Contract!Next]_(Contract!vars)
  BY <1>4 DEF Revoke, rows, Opened, Closed, Valid, Used
<1>5. ASSUME NEW w \in Workers, NEW u \in Users, RevokeAllSessions(w, u)
      PROVE  [Contract!Next]_(Contract!vars)
  BY <1>5 DEF RevokeAllSessions, rows, Opened, Closed, Valid, Used
<1>6. ASSUME NEW w \in Workers, EmitCreated(w)
      PROVE  [Contract!Next]_(Contract!vars)
  BY <1>6 DEF EmitCreated, rows, Opened, Closed, Valid, Used
<1>7. ASSUME NEW w \in Workers, Respond(w)
      PROVE  [Contract!Next]_(Contract!vars)
  BY <1>7 DEF Respond, rows, Opened, Closed, Valid, Used
<1>8. ASSUME NEW w \in Workers, Rotate(w)
      PROVE  [Contract!Next]_(Contract!vars)
  <2> USE <1>8 DEF Rotate
  <2> DEFINE s == req[w].sess
             t == req[w].new
  <2>1. /\ s \in Sessions /\ owner[s] # NoUser
        /\ t \in Tokens /\ t \notin Used
    BY DEF TypeOK, Requests, StepInv, TokenInv, FreshInv, Tokens, Used
  <2>2. Used' = Used \union {t}
    BY <2>1 DEF Used, TypeOK
  <2>3. Opened' = Opened /\ Closed' = Closed /\ s \in Opened
    BY <2>1 DEF Opened, Closed
  <2>4. CASE revoked[s]
    <3>1. Valid' = Valid
      BY <2>1, <2>4 DEF Valid, TypeOK
    <3>2. Contract!Waste(t)
      BY <2>1, <2>2, <2>3, <3>1 DEF Contract!Waste, Contract!Use
    <3> QED BY <2>1, <3>2 DEF Contract!Next
  <2>5. CASE ~revoked[s]
    <3>1. Valid' = [Valid EXCEPT ![s] = t]
      BY <2>1, <2>5 DEF Valid, TypeOK
    <3>2. s \notin Closed
      BY <2>5 DEF Closed
    <3>3. Contract!Replace(s, t)
      BY <2>1, <2>2, <2>3, <3>1, <3>2 DEF Contract!Replace, Contract!Use
    <3> QED BY <2>1, <3>3 DEF Contract!Next
  <2> QED BY <2>4, <2>5
<1>9. ASSUME NEW w \in Workers, RevokeOne(w)
      PROVE  [Contract!Next]_(Contract!vars)
  <2> USE <1>9 DEF RevokeOne
  <2> DEFINE S == {req[w].sess}
  <2>1. S \subseteq Opened
    BY DEF Opened, TypeOK, Requests, StepInv
  <2>2. \A q \in Sessions : revoked'[q] <=> revoked[q] \/ q \in S
    BY DEF TypeOK, StepInv
  <2>3. Opened' = Opened /\ Used' = Used
    BY DEF Opened, Used
  <2>4. Closed' = Closed \union S
    BY <2>1, <2>2 DEF Closed, Opened
  <2>5. Valid' = [q \in Sessions |-> IF q \in S THEN 0 ELSE Valid[q]]
    BY <2>2 DEF Valid
  <2>6. Contract!Close(S)
    BY <2>3, <2>4, <2>5 DEF Contract!Close
  <2> QED BY <2>1, <2>6 DEF Contract!Next
<1>10. ASSUME NEW w \in Workers, RevokeAll(w)
      PROVE  [Contract!Next]_(Contract!vars)
  <2> USE <1>10 DEF RevokeAll
  <2> DEFINE S == {q \in Sessions : owner[q] = req[w].user}
  <2>1. S \subseteq Opened
    BY DEF Opened, TypeOK, Requests, StepInv
  <2>2. \A q \in Sessions : revoked'[q] <=> revoked[q] \/ q \in S
    BY DEF TypeOK, StepInv
  <2>3. Opened' = Opened /\ Used' = Used
    BY DEF Opened, Used
  <2>4. Closed' = Closed \union S
    BY <2>1, <2>2 DEF Closed, Opened
  <2>5. Valid' = [q \in Sessions |-> IF q \in S THEN 0 ELSE Valid[q]]
    BY <2>2 DEF Valid
  <2>6. Contract!Close(S)
    BY <2>3, <2>4, <2>5 DEF Contract!Close
  <2> QED BY <2>1, <2>6 DEF Contract!Next
<1>11. ASSUME NEW w \in Workers, EmitRevoked(w)
      PROVE  [Contract!Next]_(Contract!vars)
  BY <1>11 DEF EmitRevoked, rows, Opened, Closed, Valid, Used
<1>12. ASSUME NEW w \in Workers, EmitAll(w)
      PROVE  [Contract!Next]_(Contract!vars)
  BY <1>12 DEF EmitAll, rows, Opened, Closed, Valid, Used
<1>13. ASSUME NEW w \in Workers, EmitHijack(w)
      PROVE  [Contract!Next]_(Contract!vars)
  BY <1>13 DEF EmitHijack, rows, Opened, Closed, Valid, Used
<1>14. ASSUME NEW w \in Workers, FindAccess(w)
      PROVE  [Contract!Next]_(Contract!vars)
  BY <1>14 DEF FindAccess, rows, Opened, Closed, Valid, Used
<1>15. ASSUME NEW w \in Workers, CreateAccess(w)
      PROVE  [Contract!Next]_(Contract!vars)
  BY <1>15 DEF CreateAccess, rows, Opened, Closed, Valid, Used
<1>16. ASSUME NEW w \in Workers, AuditAccess(w)
      PROVE  [Contract!Next]_(Contract!vars)
  BY <1>16 DEF AuditAccess, rows, Opened, Closed, Valid, Used
<1>17. ASSUME NEW w \in Workers, Abort(w)
      PROVE  [Contract!Next]_(Contract!vars)
  BY <1>17 DEF Abort, rows, Opened, Closed, Valid, Used
<1>18. ASSUME NEW s \in Sessions, AdminRevoke(s)
      PROVE  [Contract!Next]_(Contract!vars)
  <2> USE <1>18 DEF AdminRevoke
  <2> DEFINE S == {s}
  <2>1. S \subseteq Opened
    BY DEF Opened, TypeOK, Requests, StepInv
  <2>2. \A q \in Sessions : revoked'[q] <=> revoked[q] \/ q \in S
    BY DEF TypeOK, StepInv
  <2>3. Opened' = Opened /\ Used' = Used
    BY DEF Opened, Used
  <2>4. Closed' = Closed \union S
    BY <2>1, <2>2 DEF Closed, Opened
  <2>5. Valid' = [q \in Sessions |-> IF q \in S THEN 0 ELSE Valid[q]]
    BY <2>2 DEF Valid
  <2>6. Contract!Close(S)
    BY <2>3, <2>4, <2>5 DEF Contract!Close
  <2> QED BY <2>1, <2>6 DEF Contract!Next
<1>19. CASE UNCHANGED vars
  BY <1>19 DEF vars, rows, Opened, Closed, Valid, Used
<1> QED
  BY <1>1, <1>2, <1>3, <1>4, <1>5, <1>6, <1>7, <1>8, <1>9, <1>10, <1>11, <1>12, <1>13, <1>14, <1>15, <1>16, <1>17, <1>18, <1>19 DEF Next, Arrive, Continue

\* Sessions, whichever requests race and whichever handlers die, implement the
\* contract: one valid token at a time, none valid twice, closed for good.
THEOREM Refinement == Spec => ImplementsContract
<1>1. Init => Contract!Init
  BY DEF Init, Contract!Init, Opened, Closed, Valid, Used, Tokens
<1>2. IInv /\ FreshInv /\ [Next]_vars => FreshInv'
  BY NextFresh
<1>3. IInv /\ FreshInv /\ [Next]_vars => [Contract!Next]_(Contract!vars)
  BY StepImplements
<1> QED
  BY <1>1, <1>2, <1>3, InitIInv, NextIInv, InitFresh, PTL
  DEF Spec, ImplementsContract, Contract!Spec

-----------------------------------------------------------------------------
(***************************************************************************)
(* One token, honoured once.  Two refreshes may both read the row before   *)
(* either writes it; nothing else can make a token honoured twice.         *)
(***************************************************************************)

\* No two rotations of one session are between their read and their write.
NoOverlap ==
  \A v, w \in Workers :
    pc[v] = "rotate" /\ pc[w] = "rotate" /\ req[v].sess = req[w].sess => v = w

\* The row still holds the token that the handler has compared.
ReadInv == \A w \in Workers : pc[w] = "rotate" => hash[req[w].sess] = req[w].tok

\* A step that begins no rotation and stores no token.
LEMMA ReadStays ==
  ASSUME ReadInv, hash' = hash,
         \A v \in Workers : pc'[v] = "rotate" => pc[v] = "rotate" /\ req'[v] = req[v]
  PROVE  ReadInv'
  BY DEF ReadInv

LEMMA NextRead ==
  ASSUME IInv, NoOverlap, ReadInv, [Next]_vars
  PROVE  ReadInv'
<1> USE DEF IInv
<1>1. ASSUME NEW w \in Workers, NEW u \in Users, NEW s \in Sessions, NEW c \in Clients \union {NoClient}, CreateSession(w, u, s, c)
      PROVE  ReadInv'
  <2>1. \A v \in Workers : pc'[v] = "rotate" => pc[v] = "rotate" /\ req'[v] = req[v]
    BY <1>1 DEF CreateSession, Begin, Goto, TypeOK
  <2>2. \A v \in Workers : pc[v] = "rotate" => req[v].sess # s
    <3>1. ASSUME NEW v \in Workers, pc[v] = "rotate"
          PROVE  owner[req[v].sess] = req[v].user /\ req[v].user \in Users
      <4>1. req[v] \in Requests /\ req[v].op = "rotate"
        BY <3>1 DEF StepInv, TypeOK
      <4>2. owner[req[v].sess] = req[v].user
        BY <3>1, <4>1 DEF StepInv
      <4> QED
        BY <4>1, <4>2 DEF Requests
    <3> QED
      BY <1>1, <3>1, SessionAssumption DEF CreateSession
  <2>3. \A q \in Sessions : q # s => hash'[q] = hash[q]
    BY <1>1 DEF CreateSession, TypeOK
  <2>4. \A v \in Workers : pc[v] = "rotate" => req[v].sess \in Sessions
    BY DEF StepInv
  <2> QED
    BY <2>1, <2>2, <2>3, <2>4 DEF ReadInv
<1>2. ASSUME NEW w \in Workers, NEW s \in Sessions, NEW t \in Tokens \union {Unissued}, NEW c \in Clients \union {NoClient}, Refresh(w, s, t, c)
      PROVE  ReadInv'
  <2>1. hash' = hash /\ pc \in [Workers -> Steps] /\ req \in [Workers -> Requests \union {NoRequest}]
    BY <1>2 DEF Refresh, Presented, Unissued, rows, TypeOK
  <2>2. \A v \in Workers : v # w => pc'[v] = pc[v] /\ req'[v] = req[v]
    BY <1>2, <2>1 DEF Refresh, Presented, Unissued, Begin, Goto
  <2>3. pc'[w] = "rotate" => req'[w].sess = s /\ req'[w].tok = t /\ hash[s] = t
    BY <1>2, <2>1 DEF Refresh, Presented, Unissued, Begin, Goto, Locals
  <2> QED
    BY <2>1, <2>2, <2>3 DEF ReadInv
<1>3. ASSUME NEW w \in Workers, Rotate(w)
      PROVE  ReadInv'
  <2>1. \A v \in Workers : pc'[v] = "rotate" => v # w /\ pc[v] = "rotate" /\ req'[v] = req[v]
    BY <1>3 DEF Rotate, Goto, TypeOK
  <2>2. \A v \in Workers : v # w /\ pc[v] = "rotate" => req[v].sess # req[w].sess
    BY <1>3 DEF Rotate, NoOverlap
  <2>3. \A q \in Sessions : q # req[w].sess => hash'[q] = hash[q]
    BY <1>3 DEF Rotate, TypeOK
  <2>4. \A v \in Workers : pc[v] = "rotate" => req[v].sess \in Sessions
    BY DEF StepInv
  <2> QED
    BY <2>1, <2>2, <2>3, <2>4 DEF ReadInv
<1>4. ASSUME NEW w \in Workers, NEW s \in Sessions,
             (\E c \in Clients : Consent(w, s, c)) \/ Revoke(w, s)
      PROVE  ReadInv'
  BY <1>4, ReadStays DEF Consent, Revoke, Locals, Begin, Goto, rows, TypeOK
<1>5. ASSUME NEW w \in Workers, NEW u \in Users, RevokeAllSessions(w, u)
      PROVE  ReadInv'
  BY <1>5, ReadStays DEF RevokeAllSessions, Begin, Goto, rows, TypeOK
<1>6. ASSUME NEW w \in Workers,
             \/ EmitCreated(w) \/ Respond(w) \/ RevokeOne(w) \/ RevokeAll(w) \/ EmitRevoked(w)
             \/ EmitAll(w) \/ EmitHijack(w) \/ FindAccess(w) \/ CreateAccess(w) \/ AuditAccess(w)
             \/ Abort(w)
      PROVE  ReadInv'
  <2>1. \A v \in Workers : pc'[v] = "rotate" => pc[v] = "rotate" /\ req'[v] = req[v]
    BY <1>6 DEF EmitCreated, Respond, RevokeOne, RevokeAll, EmitRevoked, EmitAll, EmitHijack,
         FindAccess, CreateAccess, AuditAccess, Abort, Return, Goto, TypeOK
  <2>2. hash' = hash
    BY <1>6 DEF EmitCreated, Respond, RevokeOne, RevokeAll, EmitRevoked, EmitAll, EmitHijack,
         FindAccess, CreateAccess, AuditAccess, Abort, rows
  <2> QED
    BY <2>1, <2>2, ReadStays
<1>7. ASSUME NEW s \in Sessions, AdminRevoke(s)
      PROVE  ReadInv'
  BY <1>7, ReadStays DEF AdminRevoke
<1>8. CASE UNCHANGED vars
  BY <1>8, ReadStays DEF vars, rows
<1> QED
  BY <1>1, <1>2, <1>3, <1>4, <1>5, <1>6, <1>7, <1>8 DEF Next, Arrive, Continue

\* A refresh stores its new token over the one it was given, in every behaviour in
\* which the rotations of a session do not overlap: that they may is the whole reason
\* for which "strict RTR" fails.
THEOREM ApartHonouredOnce == Spec /\ []NoOverlap => HonouredOnce
<1>1. Init => ReadInv
  BY DEF Init, ReadInv
<1>2. IInv /\ NoOverlap /\ ReadInv /\ [Next]_vars => ReadInv'
  BY NextRead
<1>3. ReadInv => [\A w \in Workers : Rotate(w) => hash[req[w].sess] = req[w].tok]_vars
  BY DEF ReadInv, Rotate
<1> QED
  BY <1>1, <1>2, <1>3, InitIInv, NextIInv, PTL DEF Spec, HonouredOnce
=============================================================================
