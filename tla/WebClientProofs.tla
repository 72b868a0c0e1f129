-------------------------- MODULE WebClientProofs --------------------------
(* Theorems about the browser SDK: its clients use the server as Session   *)
(* allows, so what holds of sessions holds below them, and a client that   *)
(* makes one call at a time is never taken for a thief.                    *)
EXTENDS WebClient, SessionProofs

\* Every token in storage or in a call's hands was given to a client.
HeldInv ==
  /\ accessItem \in known \union {NoTokens}
  /\ refreshItem \in known \union {NoTokens}
  /\ kind \in [Workers -> Kinds]
  /\ at \in [Workers -> Places]
  /\ \A c \in Workers :
       /\ got[c] \in known \union {NoTokens}
       /\ at[c] \in {"send", "retry", "sendRefresh", "storeAccess", "storeRefresh"} =>
            got[c] \in known
  /\ got \in [Workers -> Pairs]

-----------------------------------------------------------------------------
\* Every step below the client is one of Session, or none.
LEMMA ClientStepIsServerStep ==
  ASSUME IInv, HeldInv, [ClientNext]_allVars
  PROVE  [Next]_vars
<1> USE DEF Next, Arrive
<1>1. ASSUME NEW c \in Workers, Start(c) PROVE [Next]_vars
  BY <1>1 DEF Start, Login, Fetch, RefreshCall, Logout, RevokeSession, LogoutAll
<1>2. ASSUME NEW c \in Workers, Proceed(c) PROVE [Next]_vars
  <2>1. CASE SendRefresh(c)
    <3>1. got[c] \in Sessions \X Tokens
      BY <2>1 DEF SendRefresh, HeldInv, IInv, TypeOK
    <3>2. got[c][1] \in Sessions /\ got[c][2] \in Tokens
      BY <3>1
    <3> QED BY <2>1, <3>2 DEF SendRefresh
  <2>2. CASE SendLogout(c)
    <3>1. got[c] \in Sessions \X Tokens
      BY <2>2 DEF SendLogout, HeldInv, IInv, TypeOK
    <3>2. got[c][1] \in Sessions
      BY <3>1
    <3> QED BY <2>2, <3>2 DEF SendLogout
  <2>3. CASE ServerStep(c)
    BY <2>3 DEF ServerStep
  <2>4. CASE SendRevoke(c)
    <3>1. got[c] \in known
      BY <2>4 DEF SendRevoke, HeldInv
    <3>2. owner[got[c][1]] \in Users
      BY <3>1 DEF IInv, TypeOK, TokenInv
    <3> QED BY <2>4, <3>2 DEF SendRevoke, SessionsOf
  <2> QED
    BY <1>2, <2>1, <2>2, <2>3, <2>4
    DEF Proceed, Fetched, ReadRefresh, StoreAccess, StoreRefresh, ClearAccess, ClearRefresh
<1>3. ASSUME NEW c \in Workers, NetworkFails(c) PROVE [Next]_vars
  BY <1>3 DEF NetworkFails
<1>4. ASSUME NEW c \in Workers, HandlerDies(c) PROVE [Next]_vars
  BY <1>4 DEF HandlerDies
<1>5. ASSUME NEW a \in Sessions \X Tokens, Expire(a) PROVE [Next]_vars
  BY <1>5 DEF Expire
<1>6. ASSUME NEW s \in Sessions, AdminRevoke(s) PROVE [Next]_vars
  BY <1>6
<1>7. CASE UNCHANGED allVars
  BY <1>7 DEF allVars
<1> QED
  BY <1>1, <1>2, <1>3, <1>4, <1>5, <1>6, <1>7 DEF ClientNext

\* The server only ever hands out more tokens.
LEMMA KnownGrows == ASSUME [Next]_vars PROVE known \subseteq known'
  BY DEF Next, Arrive, Continue, CreateSession, Refresh, Consent, Revoke, RevokeAllSessions,
     EmitCreated, Respond, Rotate, RevokeOne, RevokeAll, EmitRevoked, EmitAll, EmitHijack,
     FindAccess, CreateAccess, AuditAccess, Abort, AdminRevoke, vars

LEMMA HeldStep == ASSUME IInv, HeldInv, [ClientNext]_allVars PROVE HeldInv'
<1>0. /\ known \subseteq known'
      /\ known \union {NoTokens} \subseteq Pairs
      /\ known' \union {NoTokens} \subseteq Pairs
  <2>1. [Next]_vars
    BY ClientStepIsServerStep
  <2>2. IInv'
    BY <2>1, NextIInv
  <2> QED BY <2>1, <2>2, KnownGrows DEF IInv, TypeOK, Pairs
<1> USE <1>0 DEF HeldInv
<1>1. ASSUME NEW c \in Workers, Start(c) PROVE HeldInv'
  BY <1>1 DEF Start, Login, Fetch, RefreshCall, Logout, RevokeSession, LogoutAll, Call, storage, Places, Kinds, Fetches
<1>2. ASSUME NEW c \in Workers, Fetched(c) PROVE HeldInv'
  BY <1>2 DEF Fetched, GiveUp, With, GoOn, storage, vars, Places, Settled
<1>3. ASSUME NEW c \in Workers, ReadRefresh(c) PROVE HeldInv'
  BY <1>3 DEF ReadRefresh, GiveUp, GoOn, With, storage, vars, Places, Settled
<1>4. ASSUME NEW c \in Workers, SendRefresh(c) \/ SendLogout(c) \/ SendRevoke(c) PROVE HeldInv'
  BY <1>4 DEF SendRefresh, SendLogout, SendRevoke, GoOn, storage, Places, Settled
<1>5. ASSUME NEW c \in Workers, ServerStep(c) PROVE HeldInv'
  <2>1. CASE pc[c] = "respond"
    <3>1. <<req[c].sess, req[c].new>> \in known'
      BY <1>5, <2>1 DEF ServerStep, Continue, EmitCreated, Respond, Rotate, RevokeOne, RevokeAll,
         EmitRevoked, EmitAll, EmitHijack, FindAccess, CreateAccess, AuditAccess
    <3> QED BY <1>5, <2>1, <3>1 DEF ServerStep, With, storage, Places, Settled
  <2>2. CASE pc[c] # "respond"
    BY <1>5, <2>2 DEF ServerStep, Answered, GiveUp, With, GoOn, storage, calls, Places, Settled
  <2> QED BY <2>1, <2>2
<1>6. ASSUME NEW c \in Workers, StoreAccess(c) \/ StoreRefresh(c) PROVE HeldInv'
  BY <1>6 DEF StoreAccess, StoreRefresh, GoOn, vars, Places, Settled
<1>7. ASSUME NEW c \in Workers, ClearAccess(c) \/ ClearRefresh(c) PROVE HeldInv'
  BY <1>7 DEF ClearAccess, ClearRefresh, Removed, GiveUp, With, GoOn, vars, Places, Settled
<1>8. ASSUME NEW c \in Workers, NetworkFails(c) \/ HandlerDies(c) PROVE HeldInv'
  BY <1>8 DEF NetworkFails, HandlerDies, Rejected, GiveUp, With, GoOn, storage, Places, Settled
<1>9. ASSUME UNCHANGED clientVars PROVE HeldInv'
  BY <1>9 DEF clientVars, storage, calls
<1>10. ASSUME NEW a \in Sessions \X Tokens, Expire(a) PROVE HeldInv'
  BY <1>10 DEF Expire, storage, calls
<1> QED
  BY <1>1, <1>2, <1>3, <1>4, <1>5, <1>6, <1>7, <1>8, <1>9, <1>10 DEF ClientNext, Proceed, allVars

LEMMA ClientInitHolds == ClientInit => IInv /\ HeldInv
  BY InitIInv DEF ClientInit, HeldInv, Kinds, Fetches, Places, Settled, Pairs, NoTokens

\* The SDK never makes the server do what Session does not describe: every
\* behaviour of client and server together is one of the server.
THEOREM ImplementsSession == ClientSpec => Spec
<1>1. ClientInit => Init
  BY DEF ClientInit
<1>2. IInv /\ HeldInv /\ [ClientNext]_allVars => [Next]_vars
  BY ClientStepIsServerStep
<1>3. IInv /\ HeldInv /\ [ClientNext]_allVars => IInv' /\ HeldInv'
  BY ClientStepIsServerStep, NextIInv, HeldStep
<1> QED
  BY <1>1, <1>2, <1>3, ClientInitHolds, PTL DEF ClientSpec, Spec
-----------------------------------------------------------------------------
(* One call at a time, as long as every answer has come back.              *)

Solo == \E c \in Workers : \A d \in Workers : d = c

\* The row holds the hash of this very token.
Current(p) == hash[p[1]] = p[2]

\* The token a call has in hand is current when it matters, storage is current
\* except while a rotated token is on its way there, and the two items differ
\* only between the two writes.
SoloInv ==
  /\ NeverSelfRevoked
  /\ \A c \in Workers :
       /\ at[c] # "answer" => pc[c] = "idle"
       /\ at[c] = "answer" =>
            /\ req[c].client = NoClient
            /\ req[c].op \in {"issue", "rotate", "replay", "revoke", "revokeAll"}
            /\ pc[c] \in {"emitCreated", "respond"} => Current(<<req[c].sess, req[c].new>>)
       /\ at[c] \in {"sendRefresh", "storeAccess", "storeRefresh"} => Current(got[c])
       /\ accessItem = IF at[c] = "storeRefresh" THEN got[c]
                       ELSE IF at[c] = "clearRefresh" THEN NoTokens ELSE refreshItem
       /\ \/ refreshItem = NoTokens \/ Current(refreshItem)
          \/ at[c] \in {"storeAccess", "storeRefresh"}
          \/ at[c] = "answer" /\ req[c].op = "rotate"
\* Steps of the server on behalf of the only call.
LEMMA SoloServerStep ==
  ASSUME Solo, IInv, HeldInv, SoloInv, NEW c \in Workers, ServerStep(c)
  PROVE  SoloInv'
<1> USE DEF IInv
<1>0. \A d \in Workers : d = c
  BY DEF Solo
<1>1. /\ at[c] = "answer" /\ pc[c] # "idle"
      /\ pc \in [Workers -> Steps] /\ at \in [Workers -> Places] /\ got \in [Workers -> Pairs]
      /\ req[c].client = NoClient /\ (req[c].op # "revokeAll" => req[c].sess \in Sessions)
      /\ req[c].op \in {"issue", "rotate", "replay", "revoke", "revokeAll"}
  BY DEF ServerStep, SoloInv, StepInv, TypeOK, HeldInv, Continue, EmitCreated, Respond, Rotate,
     RevokeOne, RevokeAll, EmitRevoked, EmitAll, EmitHijack, FindAccess, CreateAccess, AuditAccess
<1>2. UNCHANGED storage
  BY DEF ServerStep
<1>3. CASE Respond(c)
  BY <1>0, <1>1, <1>2, <1>3
  DEF Respond, Return, Goto, rows, ServerStep, With, SoloInv, NeverSelfRevoked, Current, storage, StepInv
<1>4. CASE EmitCreated(c)
  BY <1>0, <1>1, <1>2, <1>4
  DEF EmitCreated, Emit, Goto, ServerStep, calls, SoloInv, NeverSelfRevoked, Current, storage, StepInv
<1>5. CASE Rotate(c)
  BY <1>0, <1>1, <1>2, <1>5
  DEF Rotate, Goto, ServerStep, calls, SoloInv, NeverSelfRevoked, Current, storage, StepInv, TypeOK
<1>6. CASE RevokeOne(c) \/ RevokeAll(c)
  BY <1>0, <1>1, <1>2, <1>6
  DEF RevokeOne, RevokeAll, Goto, ServerStep, calls, SoloInv, NeverSelfRevoked, Current, storage, StepInv
<1>7. CASE EmitRevoked(c) \/ EmitAll(c)
  <2>1. /\ req[c].op \in {"revoke", "replay", "revokeAll"}
        /\ pc[c] # "respond" /\ pc'[c] = "idle"
        /\ hash' = hash
    BY <1>1, <1>7 DEF EmitRevoked, EmitAll, Return, Goto, StepInv
  <2>2. at'[c] \in {"ok", "clearAccess", "failed"}
    BY <1>1, <2>1 DEF ServerStep, Answered, GiveUp, With, GoOn
  <2>3. NeverSelfRevoked'
    <3>1. \/ outbox' = outbox \union {<<"SessionRevoked", req[c].sess>>}
          \/ outbox' = outbox \union {<<"AllSessionsRevoked", req[c].user>>}
      BY <1>7 DEF EmitRevoked, EmitAll, Emit
    <3>2. ASSUME NEW x, NEW y
          PROVE  /\ <<"SessionHijackDetected", x>> # <<"SessionRevoked", y>>
                 /\ <<"SessionHijackDetected", x>> # <<"AllSessionsRevoked", y>>
      OBVIOUS
    <3> QED BY <3>1, <3>2 DEF SoloInv, NeverSelfRevoked
  <2> QED BY <1>0, <1>1, <1>2, <2>1, <2>2, <2>3 DEF SoloInv, Current, storage
<1>8. pc[c] \notin {"emitHijack", "findAccess", "access", "audit"}
  BY <1>1, SessionAssumption DEF StepInv
<1> QED
  BY <1>3, <1>4, <1>5, <1>6, <1>7, <1>8
  DEF ServerStep, Continue, EmitHijack, FindAccess, CreateAccess, AuditAccess
LEMMA SoloStep ==
  ASSUME Solo, IInv, HeldInv, SoloInv, [ClientNext]_allVars, aborts' = 0
  PROVE  SoloInv'
<1> USE DEF IInv
<1>0. ASSUME NEW c \in Workers, NEW d \in Workers PROVE c = d
  BY DEF Solo
<1>1. ASSUME NEW c \in Workers, Start(c) PROVE SoloInv'
  <2>1. /\ at[c] \in Settled /\ at'[c] \in {"answer", "send", "sendRefresh", "clearAccess"}
        /\ at'[c] = "sendRefresh" => got'[c] = refreshItem /\ refreshItem # NoTokens
        /\ UNCHANGED <<storage, outbox>>
    BY <1>1 DEF Start, Login, Fetch, RefreshCall, Logout, RevokeSession, LogoutAll, Call, CreateSession, vars, rows, HeldInv
  <2>2. at[c] \notin {"answer", "storeAccess", "storeRefresh", "clearRefresh"}
    BY <2>1 DEF Settled
  <2>3. CASE Login(c)
    <3>1. PICK u \in Users, s \in Sessions : CreateSession(c, u, s, NoClient)
      BY <2>3 DEF Login
    <3>2. refreshItem = NoTokens \/ (refreshItem[1] \in Sessions /\ refreshItem[1] # s)
      BY <3>1 DEF CreateSession, HeldInv, TypeOK, TokenInv
    <3>3. /\ req'[c].client = NoClient /\ req'[c].op = "issue"
          /\ req'[c].sess = s /\ req'[c].new = next /\ hash'[s] = next
      BY <3>1 DEF CreateSession, Begin, Locals, TypeOK
    <3>4. refreshItem' = NoTokens \/ Current(refreshItem)'
      <4>1. refreshItem' = refreshItem /\ (refreshItem = NoTokens \/ Current(refreshItem))
        BY <2>1, <2>2 DEF SoloInv, storage
      <4>2. refreshItem = NoTokens \/ hash'[refreshItem[1]] = hash[refreshItem[1]]
        BY <3>1, <3>2 DEF CreateSession, TypeOK
      <4> QED BY <4>1, <4>2 DEF Current
    <3>5. at'[c] = "answer"
      BY <2>3 DEF Login, Call, HeldInv
    <3>6. accessItem' = refreshItem' /\ NeverSelfRevoked'
      BY <2>1, <2>2 DEF SoloInv, NeverSelfRevoked, storage
    <3>7. Current(<<req[c].sess, req[c].new>>)'
      BY <3>3 DEF Current
    <3> QED BY <1>0, <3>3, <3>4, <3>5, <3>6, <3>7 DEF SoloInv
  <2>4. CASE ~Login(c)
    <3>1. UNCHANGED vars /\ at'[c] \in {"send", "sendRefresh", "clearAccess"}
      BY <1>1, <2>4 DEF Start, Fetch, RefreshCall, Logout, RevokeSession, LogoutAll, Call, HeldInv
    <3> QED BY <1>0, <2>1, <2>2, <3>1 DEF SoloInv, NeverSelfRevoked, Current, storage, vars, rows
  <2> QED BY <2>3, <2>4
<1>2. ASSUME NEW c \in Workers, Fetched(c) \/ NetworkFails(c) PROVE SoloInv'
  <2>1. /\ at[c] \in {"send", "retry", "sendRefresh"}
        /\ at'[c] \in {"ok", "readRefresh", "failed", "clearAccess"}
        /\ UNCHANGED <<vars, storage>>
    BY <1>2 DEF Fetched, NetworkFails, Rejected, GiveUp, With, GoOn, HeldInv
  <2> QED BY <1>0, <2>1 DEF SoloInv, NeverSelfRevoked, Current, storage, vars, rows
<1>3. ASSUME NEW c \in Workers, ReadRefresh(c) PROVE SoloInv'
  BY <1>0, <1>3
  DEF ReadRefresh, GiveUp, GoOn, With, HeldInv, SoloInv, NeverSelfRevoked, Current, storage, vars, rows
<1>4. ASSUME NEW c \in Workers, SendRefresh(c) PROVE SoloInv'
  <2>1. /\ at[c] = "sendRefresh" /\ at'[c] = "answer"
        /\ Current(got[c]) /\ UNCHANGED <<storage, rows>>
    BY <1>4 DEF SendRefresh, GoOn, Refresh, HeldInv, SoloInv
  <2>2. /\ req'[c].client = NoClient /\ req'[c].op \in {"rotate", "replay"}
        /\ pc'[c] \in {"rotate", "revokeAll"}
    BY <1>4, <2>1 DEF SendRefresh, Refresh, Begin, Goto, Locals, Current, TypeOK
  <2> QED BY <1>0, <2>1, <2>2 DEF SoloInv, NeverSelfRevoked, Current, storage, rows
<1>5. ASSUME NEW c \in Workers, SendLogout(c) PROVE SoloInv'
  <2>1. /\ at[c] = "send" /\ at'[c] = "answer" /\ UNCHANGED <<storage, rows>>
        /\ req'[c].client = NoClient /\ req'[c].op = "revoke" /\ pc'[c] = "revokeOne"
    BY <1>5 DEF SendLogout, GoOn, Revoke, Begin, Goto, Locals, HeldInv, TypeOK
  <2> QED BY <1>0, <2>1 DEF SoloInv, NeverSelfRevoked, Current, storage, rows
<1>5a. ASSUME NEW c \in Workers, SendRevoke(c) PROVE SoloInv'
  <2>1. /\ at[c] \in {"send", "retry"} /\ at'[c] = "answer" /\ UNCHANGED <<storage, rows>>
        /\ req'[c].client = NoClient /\ req'[c].op \in {"revoke", "revokeAll"}
        /\ pc'[c] \in {"revokeOne", "revokeAll"}
    BY <1>5a DEF SendRevoke, GoOn, Revoke, RevokeAllSessions, Begin, Goto, Locals, HeldInv, TypeOK
  <2> QED BY <1>0, <2>1 DEF SoloInv, NeverSelfRevoked, Current, storage, rows
<1>6. ASSUME NEW c \in Workers, ServerStep(c) PROVE SoloInv'
  BY <1>6, SoloServerStep
<1>7. ASSUME NEW c \in Workers, StoreAccess(c) \/ StoreRefresh(c) PROVE SoloInv'
  <2>1. CASE StoreAccess(c)
    <3>1. /\ at[c] = "storeAccess" /\ at'[c] = "storeRefresh"
          /\ UNCHANGED <<vars, refreshItem, got>>
      BY <2>1 DEF StoreAccess, GoOn, HeldInv
    <3> QED BY <1>0, <2>1, <3>1 DEF StoreAccess, SoloInv, NeverSelfRevoked, Current, vars, rows
  <2>2. CASE StoreRefresh(c)
    <3>1. /\ at[c] = "storeRefresh" /\ at'[c] \in {"retry", "ok", "failed"}
          /\ UNCHANGED <<vars, accessItem, got>>
      BY <2>2 DEF StoreRefresh, GoOn, HeldInv
    <3>2. accessItem' = refreshItem' /\ (refreshItem' = NoTokens \/ Current(refreshItem)')
      BY <2>2, <3>1 DEF StoreRefresh, SoloInv, Current, vars, rows
    <3> QED BY <1>0, <3>1, <3>2 DEF SoloInv, NeverSelfRevoked, vars, rows
  <2> QED BY <1>7, <2>1, <2>2
<1>8. ASSUME NEW c \in Workers, ClearAccess(c) \/ ClearRefresh(c) PROVE SoloInv'
  <2>1. CASE ClearAccess(c)
    <3>1. /\ at[c] = "clearAccess" /\ at'[c] = "clearRefresh"
          /\ UNCHANGED <<vars, refreshItem, got>>
      BY <2>1 DEF ClearAccess, GoOn, HeldInv
    <3> QED BY <1>0, <2>1, <3>1 DEF ClearAccess, SoloInv, NeverSelfRevoked, Current, vars, rows
  <2>2. CASE ClearRefresh(c)
    <3>1. /\ at[c] = "clearRefresh" /\ at'[c] \in {"ok", "failed", "clearAccess"}
          /\ UNCHANGED <<vars, accessItem>>
      BY <2>2 DEF ClearRefresh, Removed, GiveUp, With, GoOn, HeldInv
    <3>2. accessItem' = refreshItem' /\ (refreshItem' = NoTokens \/ Current(refreshItem)')
      BY <2>2, <3>1 DEF ClearRefresh, SoloInv, Current, vars, rows
    <3> QED BY <1>0, <3>1, <3>2 DEF SoloInv, NeverSelfRevoked, vars, rows
  <2> QED BY <1>8, <2>1, <2>2
<1>9. ASSUME NEW c \in Workers, HandlerDies(c) PROVE SoloInv'
  BY <1>9 DEF HandlerDies, Abort, TypeOK
<1>10. ASSUME NEW a \in Sessions \X Tokens, Expire(a) PROVE SoloInv'
  BY <1>10 DEF Expire, SoloInv, NeverSelfRevoked, Current, storage, calls, vars, rows
<1>11. ASSUME NEW s \in Sessions, AdminRevoke(s), UNCHANGED clientVars PROVE SoloInv'
  BY <1>11 DEF AdminRevoke, SoloInv, NeverSelfRevoked, Current, clientVars, storage, calls
<1>12. CASE UNCHANGED allVars
  BY <1>12 DEF allVars, SoloInv, NeverSelfRevoked, Current, clientVars, storage, calls, vars, rows
<1> QED
  BY <1>1, <1>2, <1>3, <1>4, <1>5, <1>5a, <1>6, <1>7, <1>8, <1>9, <1>10, <1>11, <1>12
  DEF ClientNext, Proceed

\* The number of handlers that died tells of all that went before.
LEMMA AbortsOnlyGrow ==
  ASSUME TypeOK, [Next]_vars, aborts' = 0
  PROVE  aborts = 0
<1>1. aborts' = aborts \/ aborts' = aborts + 1
  BY DEF Next, Arrive, Continue, CreateSession, Refresh, Consent, Revoke, RevokeAllSessions,
     EmitCreated, Respond, Rotate, RevokeOne, RevokeAll, EmitRevoked, EmitAll, EmitHijack,
     FindAccess, CreateAccess, AuditAccess, Abort, AdminRevoke, vars
<1>2. aborts \in Nat
  BY SessionAssumption DEF TypeOK
<1> QED BY <1>1, <1>2

\* What SoloInv says ends with the first answer that is lost.
CalmInv == aborts = 0 => SoloInv

LEMMA CalmInit == ClientInit => CalmInv
  BY DEF ClientInit, Init, CalmInv, SoloInv, NeverSelfRevoked

LEMMA CalmStep ==
  ASSUME Solo, IInv, HeldInv, CalmInv, [ClientNext]_allVars
  PROVE  CalmInv'
<1> SUFFICES ASSUME aborts' = 0 PROVE SoloInv'
  BY DEF CalmInv
<1>1. [Next]_vars
  BY ClientStepIsServerStep
<1>2. aborts = 0
  BY <1>1, AbortsOnlyGrow DEF IInv
<1> QED BY <1>2, SoloStep DEF CalmInv

\* What the storage, the calls and the server hold keeps its type; a refresh is sent
\* only with a token in hand.
THEOREM ClientTypes == ClientSpec => []ClientTypeOK
<1> DEFINE Rest == expired \subseteq Sessions \X Tokens /\ lost \in 0..MaxLost
<1>1. ClientInit => Rest
  BY WebClientAssumption DEF ClientInit
<1>2. IInv /\ HeldInv /\ Rest /\ [ClientNext]_allVars => IInv' /\ HeldInv' /\ Rest'
  <2> SUFFICES ASSUME IInv, HeldInv, Rest, [ClientNext]_allVars PROVE IInv' /\ HeldInv' /\ Rest'
    OBVIOUS
  <2>1. IInv' /\ HeldInv'
    BY ClientStepIsServerStep, NextIInv, HeldStep
  <2>2. ASSUME NEW c \in Workers, Start(c) PROVE UNCHANGED <<expired, lost>>
    BY <2>2 DEF Start, Login, Fetch, RefreshCall, Logout, RevokeSession, LogoutAll
  <2>3. ASSUME NEW c \in Workers, Proceed(c) PROVE UNCHANGED <<expired, lost>>
    BY <2>3
    DEF Proceed, Fetched, ReadRefresh, SendRefresh, SendLogout, SendRevoke, ServerStep,
        StoreAccess, StoreRefresh, ClearAccess, ClearRefresh
  <2>4. ASSUME NEW c \in Workers, NetworkFails(c)
        PROVE  UNCHANGED expired /\ lost < MaxLost /\ lost' = lost + 1
    BY <2>4 DEF NetworkFails
  <2>5. ASSUME NEW c \in Workers, HandlerDies(c) PROVE UNCHANGED <<expired, lost>>
    BY <2>5 DEF HandlerDies
  <2>6. ASSUME NEW a \in Sessions \X Tokens, Expire(a)
        PROVE  expired' = expired \union {a} /\ UNCHANGED lost
    BY <2>6 DEF Expire
  <2>7. /\ expired' = expired \/ \E a \in Sessions \X Tokens : expired' = expired \union {a}
        /\ lost' = lost \/ (lost < MaxLost /\ lost' = lost + 1)
    BY <2>2, <2>3, <2>4, <2>5, <2>6 DEF ClientNext, allVars, clientVars
  <2>8. Rest'
    BY <2>7, WebClientAssumption
  <2> QED BY <2>1, <2>8
<1>3. IInv /\ HeldInv /\ Rest => ClientTypeOK
  <2> SUFFICES ASSUME IInv, HeldInv, Rest PROVE ClientTypeOK
    OBVIOUS
  <2>1. NoTokens \notin known
    BY SessionAssumption DEF IInv, TypeOK, NoTokens
  <2>2. known \union {NoTokens} \subseteq Pairs
    BY DEF IInv, TypeOK, Pairs
  <2> QED BY <2>1, <2>2 DEF ClientTypeOK, IInv, HeldInv
<1> QED
  BY <1>1, <1>2, <1>3, ClientInitHolds, PTL DEF ClientSpec

\* An application that makes one call of the SDK at a time is not taken for a
\* thief while every answer comes back, however often its tokens expire,
\* requests fail to arrive, sessions are opened next to each other and the admin
\* console revokes them.  (With two calls it may be: MCWebClientParallel.)
THEOREM OneCallIsSafe == Solo => (ClientSpec => []OnlyLostAnswersAlarm)
<1> SUFFICES ASSUME Solo PROVE ClientSpec => []OnlyLostAnswersAlarm
  OBVIOUS
<1>1. IInv /\ HeldInv /\ CalmInv /\ [ClientNext]_allVars => IInv' /\ HeldInv' /\ CalmInv'
  BY ClientStepIsServerStep, NextIInv, HeldStep, CalmStep
<1>2. CalmInv => OnlyLostAnswersAlarm
  BY DEF CalmInv, SoloInv, OnlyLostAnswersAlarm
<1> QED
  BY <1>1, <1>2, ClientInitHolds, CalmInit, PTL DEF ClientSpec

\* Whenever such a client is between calls, storage is empty or holds both
\* tokens of one answer, the refresh token being the one the row holds.
THEOREM OneCallStoresCurrent == Solo => (ClientSpec => []StoredPairIsCurrent)
<1> SUFFICES ASSUME Solo PROVE ClientSpec => []StoredPairIsCurrent
  OBVIOUS
<1>1. IInv /\ HeldInv /\ CalmInv /\ [ClientNext]_allVars => IInv' /\ HeldInv' /\ CalmInv'
  BY ClientStepIsServerStep, NextIInv, HeldStep, CalmStep
<1>2. CalmInv => StoredPairIsCurrent
  BY DEF CalmInv, Solo, SoloInv, StoredPairIsCurrent, Current, Settled
<1> QED
  BY <1>1, <1>2, ClientInitHolds, CalmInit, PTL DEF ClientSpec

-----------------------------------------------------------------------------
(* Why a call of such a client fails: the safety half of SilentRetry.      *)

\* A promise is rejected only for a call whose access token has expired again before
\* the retry, or when a session was revoked, or a request or an answer lost.
FailsForACause ==
  \A c \in Workers : at[c] = "failed" =>
    \/ kind[c] \in Fetches /\ got[c] \in expired
    \/ \E s \in Sessions : revoked[s]
    \/ lost + aborts > 0

\* No request and no answer was lost so far.
Undisturbed == lost = 0 /\ aborts = 0

Quiet == (\A s \in Sessions : ~revoked[s]) /\ Undisturbed

\* Until then whoever is sent to refresh finds a token that is accepted, and only
\* logoutAll has removed what was stored.
Unfailing(c) ==
  /\ at[c] = "failed" => kind[c] \in Fetches /\ got[c] \in expired
  /\ at[c] \in {"clearAccess", "clearRefresh"} => kind[c] = "logoutAll"
  /\ kind[c] \in Fetches /\ at[c] \in {"send", "retry"} => refreshItem # NoTokens
  /\ at[c] = "readRefresh" => kind[c] \in Fetches /\ refreshItem # NoTokens
  /\ at[c] = "answer" => req[c].op \in {"issue", "rotate", "revoke", "revokeAll"}
  /\ at[c] = "answer" /\ req[c].op = "revokeAll" => kind[c] = "logoutAll"

QuietInv == Quiet => \A c \in Workers : Unfailing(c)

LEMMA UndisturbedBefore ==
  ASSUME IInv, HeldInv, lost \in 0..MaxLost, [ClientNext]_allVars, Undisturbed'
  PROVE  Undisturbed
<1>1. [Next]_vars
  BY ClientStepIsServerStep
<1>2. aborts = 0
  BY <1>1, AbortsOnlyGrow DEF IInv, Undisturbed
<1>3. lost' = lost \/ lost' = lost + 1
  BY DEF ClientNext, Start, Login, Fetch, RefreshCall, Logout, RevokeSession, LogoutAll, Proceed, Fetched,
     ReadRefresh, SendRefresh, SendLogout, SendRevoke, ServerStep, StoreAccess, StoreRefresh, ClearAccess,
     ClearRefresh, NetworkFails, HandlerDies, Expire, allVars, clientVars
<1>4. lost = 0
  BY <1>3, WebClientAssumption DEF Undisturbed
<1> QED BY <1>2, <1>4 DEF Undisturbed

LEMMA QuietBefore ==
  ASSUME IInv, HeldInv, lost \in 0..MaxLost, [ClientNext]_allVars, Quiet'
  PROVE  Quiet /\ UNCHANGED <<revoked, lost, aborts>>
<1>1. [Next]_vars
  BY ClientStepIsServerStep
<1>2. \A s \in Sessions : revoked[s] => revoked'[s]
  <2>1. \/ revoked' = revoked
        \/ \E s \in Sessions : revoked' = [revoked EXCEPT ![s] = TRUE]
        \/ \E u : revoked' = [s \in Sessions |-> revoked[s] \/ owner[s] = u]
    <3>1. ASSUME NEW w \in Workers, RevokeOne(w) PROVE req[w].sess \in Sessions
      BY <3>1 DEF RevokeOne, IInv, StepInv
    <3>2. ASSUME NEW w \in Workers, Arrive(w) PROVE revoked' = revoked
      BY <3>2 DEF Arrive, CreateSession, Refresh, Consent, Revoke, RevokeAllSessions, rows
    <3>3. ASSUME NEW w \in Workers, Continue(w), ~RevokeOne(w), ~RevokeAll(w) PROVE revoked' = revoked
      BY <3>3 DEF Continue, EmitCreated, Respond, Rotate, EmitRevoked, EmitAll, EmitHijack, FindAccess,
         CreateAccess, AuditAccess, rows
    <3> QED
      BY <1>1, <3>1, <3>2, <3>3 DEF Next, RevokeOne, RevokeAll, Abort, AdminRevoke, vars, rows
  <2> QED BY <2>1 DEF IInv, TypeOK
<1>3. revoked' \in [Sessions -> BOOLEAN] /\ revoked \in [Sessions -> BOOLEAN]
  BY <1>1, NextIInv DEF IInv, TypeOK
<1>4. revoked' = revoked
  BY <1>2, <1>3 DEF Quiet
<1>5. Undisturbed
  BY UndisturbedBefore DEF Quiet
<1> QED BY <1>2, <1>3, <1>4, <1>5 DEF Quiet, Undisturbed

LEMMA QuietServerStep ==
  ASSUME Solo, IInv, HeldInv, SoloInv, NEW c \in Workers, Unfailing(c), Quiet, Quiet', ServerStep(c)
  PROVE  Unfailing(c)'
<1> USE DEF IInv
<1>1. /\ at[c] = "answer" /\ pc[c] # "idle"
      /\ pc \in [Workers -> Steps] /\ at \in [Workers -> Places] /\ got \in [Workers -> Pairs]
      /\ req[c].client = NoClient
      /\ req[c].op \in {"issue", "rotate", "revoke", "revokeAll"}
      /\ UNCHANGED <<storage, expired, kind>>
  BY DEF ServerStep, SoloInv, StepInv, TypeOK, HeldInv, Unfailing, Continue, EmitCreated, Respond, Rotate,
     RevokeOne, RevokeAll, EmitRevoked, EmitAll, EmitHijack, FindAccess, CreateAccess, AuditAccess,
     Answered, GiveUp, With, GoOn, calls
<1>2. CASE Respond(c)
  BY <1>1, <1>2 DEF Respond, ServerStep, With, Unfailing
<1>3. CASE EmitCreated(c) \/ Rotate(c) \/ RevokeOne(c) \/ RevokeAll(c)
  <2>1. pc[c] # "respond" /\ pc'[c] # "idle" /\ req' = req
    BY <1>1, <1>3 DEF EmitCreated, Rotate, RevokeOne, RevokeAll, Goto
  <2> QED BY <1>1, <2>1 DEF ServerStep, calls, Unfailing
<1>4. CASE EmitRevoked(c)
  \* A row is revoked by then.
  BY <1>1, <1>4 DEF EmitRevoked, AnnounceInv, StepInv, Quiet
<1>5. CASE EmitAll(c)
  <2>1. req[c].op = "revokeAll" /\ kind[c] = "logoutAll" /\ pc[c] # "respond" /\ pc'[c] = "idle"
    BY <1>1, <1>5 DEF EmitAll, StepInv, Return, Goto, Unfailing
  <2>2. at'[c] = "clearAccess"
    BY <1>1, <2>1 DEF ServerStep, Answered, GiveUp, With
  <2> QED BY <1>1, <2>1, <2>2 DEF Unfailing
<1>6. pc[c] \notin {"emitHijack", "findAccess", "access", "audit"}
  BY <1>1, SessionAssumption DEF StepInv
<1> QED
  BY <1>2, <1>3, <1>4, <1>5, <1>6
  DEF ServerStep, Continue, EmitHijack, FindAccess, CreateAccess, AuditAccess

LEMMA QuietStep ==
  ASSUME Solo, IInv, HeldInv, SoloInv, QuietInv, lost \in 0..MaxLost, [ClientNext]_allVars
  PROVE  QuietInv'
<1> USE DEF IInv
<1> SUFFICES ASSUME Quiet', NEW c \in Workers PROVE Unfailing(c)'
  BY DEF QuietInv
<1>1. Quiet /\ UNCHANGED <<revoked, lost, aborts>> /\ Unfailing(c)
  BY QuietBefore DEF QuietInv
<1>2. \A d \in Workers : d = c
  BY DEF Solo
<1>3. /\ at \in [Workers -> Places] /\ kind \in [Workers -> Kinds] /\ got \in [Workers -> Pairs]
      /\ pc \in [Workers -> Steps]
  BY DEF HeldInv, TypeOK
<1>4. NoTokens \notin known
  BY SessionAssumption DEF TypeOK, NoTokens
<1>5. CASE Start(c)
  <2>1. at[c] \in Settled /\ UNCHANGED storage /\ accessItem = refreshItem
    BY <1>5 DEF Start, Login, Fetch, RefreshCall, Logout, RevokeSession, LogoutAll, Call, Settled, SoloInv
  <2>2. CASE Login(c)
    <3>1. at'[c] = "answer" /\ req'[c].op = "issue" /\ kind'[c] = "login"
      BY <1>3, <2>2 DEF Login, Call, CreateSession, Begin, Locals, TypeOK
    <3> QED BY <3>1 DEF Unfailing, Fetches
  <2>3. CASE Fetch(c) \/ RefreshCall(c) \/ Logout(c) \/ RevokeSession(c)
    <3>1. at'[c] \in {"send", "sendRefresh"} /\ refreshItem # NoTokens
      BY <1>3, <2>1, <2>3 DEF Fetch, RefreshCall, Logout, RevokeSession, Call
    <3> QED BY <2>1, <3>1 DEF Unfailing, storage
  <2>4. CASE LogoutAll(c)
    <3>1. /\ kind'[c] = "logoutAll"
          /\ (at'[c] = "send" /\ refreshItem # NoTokens) \/ at'[c] = "clearAccess"
      BY <1>3, <2>1, <2>4 DEF LogoutAll, Call
    <3> QED BY <2>1, <3>1 DEF Unfailing, storage
  <2> QED BY <1>5, <2>2, <2>3, <2>4 DEF Start
<1>6. CASE Fetched(c)
  <2>1. /\ kind[c] \in Fetches /\ at[c] \in {"send", "retry"} /\ refreshItem # NoTokens
        /\ UNCHANGED <<refreshItem, expired, kind>>
    BY <1>1, <1>6 DEF Fetched, Unfailing, storage, GoOn, GiveUp, With
  <2> QED BY <1>3, <1>6, <2>1 DEF Fetched, Unfailing, GoOn, GiveUp, With
<1>7. CASE ReadRefresh(c)
  BY <1>1, <1>3, <1>7 DEF ReadRefresh, Unfailing, With
<1>8. CASE SendRefresh(c)
  <2>1. Current(got[c]) /\ got[c] \in known /\ at[c] = "sendRefresh"
    BY <1>8 DEF SendRefresh, SoloInv, HeldInv
  <2>2. got[c][1] \in Sessions
    BY <2>1 DEF TypeOK
  <2>3. req'[c].op = "rotate" /\ at'[c] = "answer"
    BY <1>1, <1>3, <1>8, <2>1, <2>2 DEF SendRefresh, Refresh, Begin, Locals, GoOn, Quiet, Current, TypeOK
  <2> QED BY <2>3 DEF Unfailing
<1>9. CASE SendLogout(c) \/ SendRevoke(c)
  <2>1. /\ at'[c] = "answer" /\ kind' = kind
        /\ req'[c].op = "revoke" \/ (req'[c].op = "revokeAll" /\ kind[c] = "logoutAll")
    BY <1>3, <1>9 DEF SendLogout, SendRevoke, Revoke, RevokeAllSessions, Begin, Locals, GoOn, TypeOK
  <2> QED BY <2>1 DEF Unfailing
<1>10. CASE ServerStep(c)
  BY <1>1, <1>10, QuietServerStep
<1>11. CASE StoreAccess(c) \/ StoreRefresh(c)
  <2>1. at'[c] \in {"storeRefresh", "ok"} \/ (at'[c] = "retry" /\ refreshItem' \in known)
    BY <1>3, <1>11 DEF StoreAccess, StoreRefresh, GoOn, HeldInv
  <2> QED BY <1>4, <2>1 DEF Unfailing
<1>12. CASE ClearAccess(c) \/ ClearRefresh(c)
  <2>1. kind[c] = "logoutAll" /\ kind' = kind /\ at'[c] \in {"clearAccess", "clearRefresh", "ok"}
    BY <1>1, <1>3, <1>12 DEF ClearAccess, ClearRefresh, Removed, GiveUp, With, GoOn, Unfailing
  <2> QED BY <2>1 DEF Unfailing
<1>13. CASE NetworkFails(c)
  BY <1>1, <1>13 DEF NetworkFails, Quiet, Undisturbed
<1>14. CASE HandlerDies(c)
  BY <1>1, <1>14 DEF HandlerDies, Abort, Quiet, Undisturbed
<1>15. ASSUME UNCHANGED <<storage, calls, req>>, expired \subseteq expired' PROVE Unfailing(c)'
  BY <1>1, <1>15 DEF Unfailing, storage, calls
<1>16. ASSUME NEW a \in Sessions \X Tokens, Expire(a) PROVE Unfailing(c)'
  BY <1>15, <1>16 DEF Expire, vars
<1>17. ASSUME NEW s \in Sessions, AdminRevoke(s), UNCHANGED clientVars PROVE Unfailing(c)'
  BY <1>15, <1>17 DEF AdminRevoke, clientVars
<1>18. CASE UNCHANGED allVars
  BY <1>15, <1>18 DEF allVars, vars, clientVars
<1> QED
  BY <1>2, <1>5, <1>6, <1>7, <1>8, <1>9, <1>10, <1>11, <1>12, <1>13, <1>14, <1>16, <1>17, <1>18
  DEF ClientNext, Proceed

\* A call of the SDK made alone does not fail because its access token has expired, nor
\* because of the refresh that follows: only for one of the causes named above.
THEOREM OneCallFailsForACause == Solo => (ClientSpec => []FailsForACause)
<1> SUFFICES ASSUME Solo PROVE ClientSpec => []FailsForACause
  OBVIOUS
<1>1. IInv /\ HeldInv /\ CalmInv /\ [ClientNext]_allVars => IInv' /\ HeldInv' /\ CalmInv'
  BY ClientStepIsServerStep, NextIInv, HeldStep, CalmStep
<1>2. ClientInit => QuietInv
  BY DEF ClientInit, QuietInv, Unfailing, Fetches
<1>3. IInv /\ HeldInv /\ CalmInv /\ ClientTypeOK /\ QuietInv /\ [ClientNext]_allVars => QuietInv'
  <2> SUFFICES ASSUME IInv, HeldInv, CalmInv, ClientTypeOK, QuietInv, [ClientNext]_allVars, Quiet'
               PROVE  QuietInv'
    BY DEF QuietInv
  <2>1. lost \in 0..MaxLost
    BY DEF ClientTypeOK
  <2>2. SoloInv
    BY <2>1, QuietBefore DEF Quiet, Undisturbed, CalmInv
  <2> QED BY <2>1, <2>2, QuietStep
<1>4. IInv /\ ClientTypeOK /\ QuietInv => FailsForACause
  <2> SUFFICES ASSUME IInv, ClientTypeOK, QuietInv, NEW c \in Workers, at[c] = "failed",
                      ~(\E s \in Sessions : revoked[s]), ~(lost + aborts > 0)
               PROVE  kind[c] \in Fetches /\ got[c] \in expired
    BY DEF FailsForACause
  <2>1. lost \in Nat /\ aborts \in Nat
    BY WebClientAssumption, SessionAssumption DEF ClientTypeOK, IInv, TypeOK
  <2>2. Quiet
    BY <2>1 DEF Quiet, Undisturbed
  <2> QED BY <2>2 DEF QuietInv, Unfailing
<1> QED
  BY <1>1, <1>2, <1>3, <1>4, ClientInitHolds, CalmInit, ClientTypes, PTL DEF ClientSpec

-----------------------------------------------------------------------------
(* What a logout everywhere reaches: the safety half of LogoutAllReaches.  *)

AllEnded(u) == \A s \in Sessions : owner[s] = u => revoked[s]

\* logoutAll lets go of its token, to remove what is stored, only when every session of
\* the user has ended, when the answer to its second attempt is a 401 again (it does not
\* look at the answer), or when a request or an answer was lost.
LogoutAllEnds ==
  [][\A c \in Workers :
       kind[c] = "logoutAll" /\ got[c] # NoTokens /\ got'[c] = NoTokens =>
         \/ AllEnded(owner[got[c][1]])
         \/ at[c] = "retry" /\ got[c] \in expired
         \/ lost' + aborts' > 0]_allVars

\* Until it lets go the stored token is the one it has in hand, and what the server does
\* is done to the owner of that token's session.
Reaching(c) ==
  kind[c] = "logoutAll" =>
    IF got[c] = NoTokens THEN at[c] \in {"clearAccess", "clearRefresh", "ok"}
    ELSE /\ at[c] \notin Settled
         /\ at[c] \in {"send", "retry", "readRefresh"} => refreshItem = got[c]
         /\ at[c] = "answer" =>
              /\ req[c].op \in {"rotate", "replay", "revokeAll"}
              /\ req[c].user = owner[got[c][1]]
              /\ pc[c] = "emitAll" => AllEnded(req[c].user)
         /\ at[c] \in {"clearAccess", "clearRefresh"} => AllEnded(owner[got[c][1]])

ReachInv == Undisturbed => \A c \in Workers : Reaching(c)

LEMMA ReachServerStep ==
  ASSUME Solo, IInv, HeldInv, SoloInv, NEW c \in Workers, Reaching(c), kind[c] = "logoutAll", ServerStep(c)
  PROVE  Reaching(c)'
<1> USE DEF IInv
<1>1. /\ at[c] = "answer" /\ pc[c] # "idle" /\ got[c] # NoTokens
      /\ pc \in [Workers -> Steps] /\ at \in [Workers -> Places] /\ got \in [Workers -> Pairs]
      /\ req[c].client = NoClient
      /\ req[c].op \in {"rotate", "replay", "revokeAll"} /\ req[c].user = owner[got[c][1]]
      /\ UNCHANGED <<storage, kind>>
  BY DEF ServerStep, SoloInv, StepInv, TypeOK, HeldInv, Reaching, Continue, EmitCreated, Respond, Rotate,
     RevokeOne, RevokeAll, EmitRevoked, EmitAll, EmitHijack, FindAccess, CreateAccess, AuditAccess,
     Answered, GiveUp, With, GoOn, calls
<1>2. CASE Respond(c)
  <2>1. at'[c] = "storeAccess" /\ got'[c] = <<req[c].sess, req[c].new>>
    BY <1>1, <1>2 DEF Respond, ServerStep, With
  <2>2. req[c].sess \in Sessions
    BY <1>1, <1>2 DEF Respond, StepInv
  <2>3. got'[c] # NoTokens
    BY <2>1, <2>2, SessionAssumption DEF NoTokens
  <2> QED BY <2>1, <2>3 DEF Reaching, Settled
<1>3. CASE Rotate(c)
  <2>1. pc[c] = "rotate" /\ pc'[c] = "respond" /\ UNCHANGED <<owner, req>>
    BY <1>1, <1>3 DEF Rotate, Goto
  <2>2. UNCHANGED calls
    BY <1>1, <2>1 DEF ServerStep
  <2> QED BY <1>1, <2>1, <2>2 DEF Reaching, calls, Settled
<1>4. CASE RevokeAll(c)
  <2>1. /\ pc[c] = "revokeAll" /\ pc'[c] = "emitAll" /\ UNCHANGED <<owner, req>>
        /\ revoked' = [s \in Sessions |-> revoked[s] \/ owner[s] = req[c].user]
    BY <1>1, <1>4 DEF RevokeAll, Goto
  <2>2. UNCHANGED calls
    BY <1>1, <2>1 DEF ServerStep
  <2>3. AllEnded(req[c].user)'
    BY <2>1 DEF AllEnded
  <2> QED BY <1>1, <2>1, <2>2, <2>3 DEF Reaching, calls, Settled
<1>5. CASE EmitAll(c)
  <2>1. /\ pc[c] = "emitAll" /\ pc'[c] = "idle" /\ UNCHANGED <<owner, revoked>>
        /\ req[c].op \in {"replay", "revokeAll"}
    BY <1>1, <1>5 DEF EmitAll, Return, Goto, StepInv
  <2>2. AllEnded(owner[got[c][1]])
    BY <1>1, <2>1 DEF Reaching
  <2>3. at'[c] = "clearAccess" /\ (got'[c] = NoTokens \/ got'[c] = got[c])
    BY <1>1, <2>1 DEF ServerStep, Answered, GiveUp, With, GoOn
  <2> QED BY <1>1, <2>1, <2>2, <2>3 DEF Reaching, AllEnded, Settled
<1>6. pc[c] \notin {"emitCreated", "revokeOne", "emitRevoked", "emitHijack", "findAccess", "access", "audit"}
  BY <1>1, SessionAssumption DEF StepInv
<1> QED
  BY <1>2, <1>3, <1>4, <1>5, <1>6
  DEF ServerStep, Continue, EmitCreated, RevokeOne, EmitRevoked, EmitHijack, FindAccess, CreateAccess, AuditAccess

\* The steps of the only call, and of the world around it.
LEMMA ReachStep ==
  ASSUME Solo, IInv, HeldInv, SoloInv, ReachInv, Undisturbed, Undisturbed', [ClientNext]_allVars
  PROVE  ReachInv'
<1> USE DEF IInv
<1> SUFFICES ASSUME NEW c \in Workers PROVE Reaching(c)'
  BY DEF ReachInv
<1>1. Reaching(c) /\ \A d \in Workers : d = c
  BY DEF ReachInv, Solo
<1>2. /\ at \in [Workers -> Places] /\ kind \in [Workers -> Kinds] /\ got \in [Workers -> Pairs]
      /\ pc \in [Workers -> Steps]
  BY DEF HeldInv, TypeOK
<1>3. NoTokens \notin known
  BY SessionAssumption DEF TypeOK, NoTokens
<1>4. CASE Start(c)
  <2>1. at[c] \in Settled /\ UNCHANGED storage /\ accessItem = refreshItem
    BY <1>4 DEF Start, Login, Fetch, RefreshCall, Logout, RevokeSession, LogoutAll, Call, Settled, SoloInv
  <2>2. CASE LogoutAll(c)
    <3>1. /\ got'[c] = accessItem
          /\ IF accessItem = NoTokens THEN at'[c] = "clearAccess" ELSE at'[c] = "send"
      BY <1>2, <2>2 DEF LogoutAll, Call
    <3> QED BY <2>1, <3>1 DEF Reaching, Settled, storage
  <2>3. CASE ~LogoutAll(c)
    <3>1. kind'[c] # "logoutAll"
      BY <1>2, <1>4, <2>3 DEF Start, Login, Fetch, RefreshCall, Logout, RevokeSession, Call
    <3> QED BY <3>1 DEF Reaching
  <2> QED BY <2>2, <2>3
<1>5. CASE kind[c] # "logoutAll" /\ (Proceed(c) \/ NetworkFails(c) \/ HandlerDies(c))
  <2>1. kind' = kind
    BY <1>5 DEF Proceed, Fetched, ReadRefresh, SendRefresh, SendLogout, SendRevoke, ServerStep,
       StoreAccess, StoreRefresh, ClearAccess, ClearRefresh, NetworkFails, HandlerDies, Rejected, Removed,
       Answered, GiveUp, With, GoOn, calls
  <2> QED BY <1>5, <2>1 DEF Reaching
<1>6. CASE kind[c] = "logoutAll" /\ Fetched(c)
  <2>1. /\ at[c] \in {"send", "retry"} /\ UNCHANGED <<kind, refreshItem>>
        /\ \/ at'[c] = "readRefresh" /\ got' = got
           \/ at'[c] = "clearAccess" /\ got'[c] = NoTokens
    BY <1>2, <1>6 DEF Fetched, GoOn, GiveUp, With, storage
  <2> QED BY <1>1, <1>6, <2>1 DEF Reaching, Settled
<1>7. CASE kind[c] = "logoutAll" /\ ReadRefresh(c)
  <2>1. /\ at[c] = "readRefresh" /\ kind' = kind
        /\ \/ at'[c] = "sendRefresh" /\ got'[c] = refreshItem /\ refreshItem # NoTokens
           \/ at'[c] = "clearAccess" /\ got'[c] = NoTokens
    BY <1>2, <1>7 DEF ReadRefresh, GiveUp, With
  <2> QED BY <1>1, <1>7, <2>1 DEF Reaching, Settled
<1>8. CASE kind[c] = "logoutAll" /\ SendRefresh(c)
  <2>1. at[c] = "sendRefresh" /\ Current(got[c]) /\ got[c] \in known /\ got[c][1] \in Sessions
    BY <1>8 DEF SendRefresh, SoloInv, HeldInv, TypeOK
  <2>2. /\ req'[c].op \in {"rotate", "replay"} /\ req'[c].user = owner[got[c][1]]
        /\ pc'[c] \in {"rotate", "revokeAll"}
        /\ at'[c] = "answer" /\ UNCHANGED <<kind, got, owner>>
    BY <1>2, <1>8, <2>1 DEF SendRefresh, Refresh, Begin, Goto, Locals, GoOn, Current, TypeOK, rows
  <2> QED BY <1>3, <2>1, <2>2 DEF Reaching, Settled
<1>9. CASE kind[c] = "logoutAll" /\ SendRevoke(c)
  <2>1. /\ at[c] \in {"send", "retry"} /\ got[c] \in known
        /\ req'[c].op = "revokeAll" /\ req'[c].user = owner[got[c][1]] /\ pc'[c] = "revokeAll"
        /\ at'[c] = "answer" /\ UNCHANGED <<kind, got, owner>>
    BY <1>2, <1>9 DEF SendRevoke, RevokeAllSessions, Begin, Goto, Locals, GoOn, HeldInv, TypeOK, rows
  <2> QED BY <1>3, <2>1 DEF Reaching, Settled
<1>10. CASE kind[c] = "logoutAll" /\ ServerStep(c)
  BY <1>1, <1>10, ReachServerStep
<1>11. CASE kind[c] = "logoutAll" /\ (StoreAccess(c) \/ StoreRefresh(c))
  <2>1. /\ got[c] \in known /\ UNCHANGED <<kind, got>>
        /\ at'[c] = "storeRefresh" \/ (at'[c] = "retry" /\ refreshItem' = got[c])
    BY <1>2, <1>11 DEF StoreAccess, StoreRefresh, GoOn, HeldInv, Fetches
  <2> QED BY <1>3, <2>1 DEF Reaching, Settled
<1>12. CASE kind[c] = "logoutAll" /\ (ClearAccess(c) \/ ClearRefresh(c))
  <2>1. /\ at[c] \in {"clearAccess", "clearRefresh"} /\ UNCHANGED <<kind, vars>>
        /\ \/ at'[c] \in {"clearRefresh"} /\ got' = got
           \/ at'[c] = "ok" /\ got' = got /\ got[c] = NoTokens
           \/ at'[c] = "clearAccess" /\ got'[c] = NoTokens
    BY <1>2, <1>12 DEF ClearAccess, ClearRefresh, Removed, GiveUp, With, GoOn
  <2> QED BY <1>1, <1>12, <2>1 DEF Reaching, AllEnded, Settled, vars, rows
<1>13. CASE kind[c] = "logoutAll" /\ SendLogout(c)
  BY <1>13 DEF SendLogout
<1>14. CASE NetworkFails(c) \/ HandlerDies(c)
  BY <1>14 DEF NetworkFails, HandlerDies, Abort, Undisturbed
<1>15. ASSUME NEW a \in Sessions \X Tokens, Expire(a) PROVE Reaching(c)'
  BY <1>1, <1>15 DEF Expire, Reaching, AllEnded, storage, calls, vars, rows
<1>16. ASSUME NEW s \in Sessions, AdminRevoke(s), UNCHANGED clientVars PROVE Reaching(c)'
  <2>1. \A u : AllEnded(u) => AllEnded(u)'
    BY <1>16 DEF AdminRevoke, AllEnded, TypeOK
  <2> QED BY <1>1, <1>16, <2>1 DEF AdminRevoke, Reaching, clientVars, storage, calls
<1>17. CASE UNCHANGED allVars
  BY <1>1, <1>17 DEF allVars, clientVars, Reaching, AllEnded, storage, calls, vars, rows
<1> QED
  BY <1>1, <1>4, <1>5, <1>6, <1>7, <1>8, <1>9, <1>10, <1>11, <1>12, <1>13, <1>14, <1>15, <1>16, <1>17
  DEF ClientNext, Proceed

LEMMA NoneOfBoth ==
  ASSUME NEW m \in Nat, NEW n \in Nat, ~(m + n > 0)
  PROVE  m = 0 /\ n = 0
  OBVIOUS

\* Where logoutAll lets go of its token.
LEMMA ReachAction ==
  ASSUME Solo, IInv, HeldInv, SoloInv, Undisturbed, Undisturbed', [ClientNext]_allVars,
         NEW c \in Workers, Reaching(c), kind[c] = "logoutAll", got[c] # NoTokens, got'[c] = NoTokens
  PROVE  AllEnded(owner[got[c][1]]) \/ (at[c] = "retry" /\ got[c] \in expired)
<1> USE DEF IInv
<1>1. /\ at \in [Workers -> Places] /\ kind \in [Workers -> Kinds] /\ got \in [Workers -> Pairs]
      /\ \A d \in Workers : d = c
  BY DEF HeldInv, Solo
<1>2. at[c] \notin Settled
  BY DEF Reaching
<1>3. ~Start(c)
  BY <1>2 DEF Start, Login, Fetch, RefreshCall, Logout, RevokeSession, LogoutAll, Call
<1>4. ~ (SendRefresh(c) \/ SendLogout(c) \/ SendRevoke(c) \/ StoreAccess(c) \/ StoreRefresh(c) \/ ClearAccess(c))
  BY DEF SendRefresh, SendLogout, SendRevoke, StoreAccess, StoreRefresh, ClearAccess, GoOn
<1>5. ~ (NetworkFails(c) \/ HandlerDies(c))
  BY DEF NetworkFails, HandlerDies, Abort, Undisturbed
<1>6. ASSUME UNCHANGED calls PROVE FALSE
  BY <1>6 DEF calls
<1>7. CASE Fetched(c)
  BY <1>7 DEF Fetched, GoOn, GiveUp, With
<1>8. CASE ReadRefresh(c)
  BY <1>1, <1>8 DEF ReadRefresh, With, Reaching
<1>9. CASE ServerStep(c)
  <2>1. at[c] = "answer" /\ req[c].op \in {"rotate", "replay", "revokeAll"} /\ req[c].user = owner[got[c][1]]
    BY <1>9 DEF ServerStep, Reaching
  <2>2. CASE EmitAll(c)
    BY <2>1, <2>2 DEF EmitAll, Reaching
  <2>3. CASE Respond(c)
    <3>1. got'[c] = <<req[c].sess, req[c].new>> /\ req[c].sess \in Sessions
      BY <1>1, <1>9, <2>1, <2>3 DEF ServerStep, Respond, With, StepInv
    <3> QED BY <3>1, SessionAssumption DEF NoTokens
  <2>4. CASE Rotate(c) \/ RevokeAll(c)
    <3>1. pc[c] # "respond" /\ pc'[c] # "idle"
      BY <2>4 DEF Rotate, RevokeAll, Goto, TypeOK
    <3> QED BY <1>6, <1>9, <3>1 DEF ServerStep
  <2>5. pc[c] \notin {"emitCreated", "revokeOne", "emitRevoked", "emitHijack", "findAccess", "access", "audit"}
    BY <1>9, <2>1, SessionAssumption
    DEF StepInv, SoloInv
  <2> QED
    BY <1>9, <2>2, <2>3, <2>4, <2>5
    DEF ServerStep, Continue, EmitCreated, RevokeOne, EmitRevoked, EmitHijack, FindAccess, CreateAccess, AuditAccess
<1>10. CASE ClearRefresh(c)
  BY <1>10 DEF ClearRefresh, Reaching
<1>11. ASSUME NEW a \in Sessions \X Tokens, Expire(a) PROVE FALSE
  BY <1>6, <1>11 DEF Expire
<1>12. CASE UNCHANGED clientVars \/ UNCHANGED allVars
  BY <1>6, <1>12 DEF clientVars, allVars
<1> QED
  BY <1>1, <1>3, <1>4, <1>5, <1>7, <1>8, <1>9, <1>10, <1>11, <1>12 DEF ClientNext, Proceed

\* A logout everywhere, made alone, reaches every session of the user, although the
\* access token has expired or the session at hand was revoked before: only a second 401
\* or something that was lost keeps it from that.
THEOREM LogoutReachesAll == Solo => (ClientSpec => LogoutAllEnds)
<1> SUFFICES ASSUME Solo PROVE ClientSpec => LogoutAllEnds
  OBVIOUS
<1>1. IInv /\ HeldInv /\ CalmInv /\ [ClientNext]_allVars => IInv' /\ HeldInv' /\ CalmInv'
  BY ClientStepIsServerStep, NextIInv, HeldStep, CalmStep
<1>2. ClientInit => ReachInv
  BY DEF ClientInit, ReachInv, Reaching
<1>3. IInv /\ HeldInv /\ CalmInv /\ ClientTypeOK /\ ReachInv /\ [ClientNext]_allVars => ReachInv'
  <2> SUFFICES ASSUME IInv, HeldInv, CalmInv, ClientTypeOK, ReachInv, [ClientNext]_allVars, Undisturbed'
               PROVE  ReachInv'
    BY DEF ReachInv
  <2>1. Undisturbed
    BY UndisturbedBefore DEF ClientTypeOK
  <2>2. SoloInv
    BY <2>1 DEF CalmInv, Undisturbed
  <2> QED BY <2>1, <2>2, ReachStep
<1>4. IInv /\ HeldInv /\ CalmInv /\ ClientTypeOK /\ ClientTypeOK' /\ ReachInv /\ [ClientNext]_allVars =>
        [\A c \in Workers :
           kind[c] = "logoutAll" /\ got[c] # NoTokens /\ got'[c] = NoTokens =>
             \/ AllEnded(owner[got[c][1]])
             \/ at[c] = "retry" /\ got[c] \in expired
             \/ lost' + aborts' > 0]_allVars
  <2> SUFFICES ASSUME IInv, HeldInv, CalmInv, ClientTypeOK, ClientTypeOK', ReachInv, [ClientNext]_allVars,
                      NEW c \in Workers, kind[c] = "logoutAll", got[c] # NoTokens, got'[c] = NoTokens,
                      ~(lost' + aborts' > 0)
               PROVE  AllEnded(owner[got[c][1]]) \/ (at[c] = "retry" /\ got[c] \in expired)
    OBVIOUS
  <2>1. lost' \in Nat /\ aborts' \in Nat
    BY WebClientAssumption, SessionAssumption DEF ClientTypeOK, TypeOK
  <2>2. Undisturbed'
    <3>1. lost' = 0 /\ aborts' = 0
      BY <2>1, NoneOfBoth
    <3> QED BY <3>1 DEF Undisturbed
  <2>3. Undisturbed
    BY <2>2, UndisturbedBefore DEF ClientTypeOK
  <2>4. SoloInv /\ Reaching(c)
    BY <2>3 DEF CalmInv, ReachInv, Undisturbed
  <2> QED BY <2>2, <2>3, <2>4, ReachAction
<1> QED
  BY <1>1, <1>2, <1>3, <1>4, ClientInitHolds, CalmInit, ClientTypes, PTL DEF ClientSpec, LogoutAllEnds

-----------------------------------------------------------------------------
(* Any number of calls at a time, one refresh at a time: what a remedy for  *)
(* the alarm of MCWebClientParallel has to provide.                         *)

\* From the choice of the refresh token to the storing of the new pair.
Refreshing(c) ==
  \/ at[c] = "sendRefresh"
  \/ at[c] = "answer" /\ req[c].op \in {"rotate", "replay", "reuse"}
  \/ at[c] \in {"storeAccess", "storeRefresh"} /\ kind[c] # "login"

SingleFlight == \A c, d \in Workers : Refreshing(c) /\ Refreshing(d) => c = d

LoggingIn(c) == kind[c] = "login" /\ at[c] \in {"answer", "storeAccess", "storeRefresh"}

\* The session that such a call is about.
Subject(c) == IF at[c] = "answer" THEN req[c].sess ELSE got[c][1]

\* The stored refresh token is, or is about to be, replaced at the server.
Replacing(c) ==
  \/ at[c] = "answer" /\ req[c].op = "rotate"
  \/ at[c] \in {"storeAccess", "storeRefresh"} /\ kind[c] # "login"

\* The token a call has in hand is current when it matters.
CallOK(c) ==
  /\ at[c] = "answer" <=> pc[c] # "idle"
  /\ at[c] = "answer" =>
       /\ req[c].client = NoClient
       /\ req[c].op \in {"issue", "rotate", "replay", "revoke", "revokeAll"}
       /\ req[c].op = "issue" <=> kind[c] = "login"
       /\ pc[c] \in {"emitCreated", "respond"} => Current(<<req[c].sess, req[c].new>>)
  /\ at[c] \in {"sendRefresh", "storeAccess", "storeRefresh"} => Current(got[c])
  /\ at[c] \in {"readRefresh", "sendRefresh"} => kind[c] # "login"

Apart(s) == refreshItem = NoTokens \/ refreshItem[1] # s

FlightInv ==
  /\ NeverSelfRevoked
  /\ \A c \in Workers : CallOK(c)
  /\ refreshItem = NoTokens \/ Current(refreshItem) \/ \E c \in Workers : Replacing(c)
  /\ \A c \in Workers : LoggingIn(c) =>
       /\ Apart(Subject(c))
       /\ \A d \in Workers : d # c /\ (LoggingIn(d) \/ Refreshing(d)) => Subject(d) # Subject(c)

\* A step of call c leaves the others where they are.
Others(c) ==
  \A d \in Workers : d # c =>
    /\ pc'[d] = pc[d] /\ req'[d] = req[d]
    /\ at'[d] = at[d] /\ got'[d] = got[d] /\ kind'[d] = kind[d]

LEMMA OthersStay ==
  ASSUME IInv, HeldInv, NEW c \in Workers, Start(c) \/ Proceed(c) \/ NetworkFails(c)
  PROVE  Others(c)
<1>1. /\ pc \in [Workers -> Steps] /\ DOMAIN req = Workers
      /\ at \in [Workers -> Places] /\ got \in [Workers -> Pairs] /\ kind \in [Workers -> Kinds]
  BY DEF IInv, TypeOK, HeldInv
<1>2. CASE Start(c)
  <2>1. kind' = [kind EXCEPT ![c] = kind'[c]] /\ at' = [at EXCEPT ![c] = at'[c]] /\ got' = [got EXCEPT ![c] = got'[c]]
    BY <1>1, <1>2 DEF Start, Login, Fetch, RefreshCall, Logout, RevokeSession, LogoutAll, Call
  <2>2. \A d \in Workers : d # c => pc'[d] = pc[d] /\ req'[d] = req[d]
    BY <1>1, <1>2 DEF Start, Login, Fetch, RefreshCall, Logout, RevokeSession, LogoutAll, CreateSession,
       Begin, Goto, vars
  <2> QED BY <1>1, <2>1, <2>2 DEF Others
<1>3. CASE Proceed(c) \/ NetworkFails(c)
  <2>1. /\ kind' = kind
        /\ \A d \in Workers : d # c => at'[d] = at[d] /\ got'[d] = got[d]
    BY <1>1, <1>3 DEF Proceed, NetworkFails, Fetched, ReadRefresh, SendRefresh, SendLogout, SendRevoke,
       ServerStep, StoreAccess, StoreRefresh, ClearAccess, ClearRefresh, Rejected, Removed, Answered,
       GiveUp, With, GoOn, calls
  <2>2. \A d \in Workers : d # c => pc'[d] = pc[d] /\ req'[d] = req[d]
    <3>1. CASE ServerStep(c)
      BY <1>1, <3>1 DEF ServerStep, Continue, EmitCreated, Respond, Rotate, RevokeOne, RevokeAll,
         EmitRevoked, EmitAll, EmitHijack, FindAccess, CreateAccess, AuditAccess, Return, Goto
    <3>2. CASE SendRefresh(c) \/ SendLogout(c) \/ SendRevoke(c)
      BY <1>1, <3>2 DEF SendRefresh, SendLogout, SendRevoke, Refresh, Revoke, RevokeAllSessions, Begin, Goto
    <3>3. CASE ~(ServerStep(c) \/ SendRefresh(c) \/ SendLogout(c) \/ SendRevoke(c))
      <4>1. UNCHANGED vars
        BY <1>3, <3>3 DEF Proceed, NetworkFails, Fetched, ReadRefresh, StoreAccess, StoreRefresh,
           ClearAccess, ClearRefresh
      <4> QED BY <4>1 DEF vars
    <3> QED BY <3>1, <3>2, <3>3
  <2> QED BY <2>1, <2>2 DEF Others
<1> QED BY <1>2, <1>3

\* Logins and refreshes are about sessions that have a row.
LEMMA SubjectsOpen ==
  ASSUME IInv, HeldInv, FlightInv, NEW c \in Workers, LoggingIn(c) \/ Refreshing(c)
  PROVE  Subject(c) \in Sessions /\ owner[Subject(c)] # NoUser
<1>1. CASE at[c] = "answer"
  <2>1. pc[c] # "idle" /\ req[c].op # "revokeAll"
    BY <1>1 DEF FlightInv, CallOK, LoggingIn, Refreshing
  <2>2. req[c] \in Requests
    BY <2>1 DEF IInv, TypeOK
  <2>3. req[c].sess \in Sessions /\ owner[req[c].sess] = req[c].user /\ req[c].user \in Users
    BY <2>1, <2>2 DEF IInv, StepInv, Requests
  <2> QED BY <1>1, <2>3, SessionAssumption DEF Subject
<1>2. CASE at[c] # "answer"
  <2>1. got[c] \in known
    BY <1>2 DEF HeldInv, LoggingIn, Refreshing
  <2>2. got[c][1] \in Sessions /\ owner[got[c][1]] # NoUser
    BY <2>1 DEF IInv, TypeOK, TokenInv
  <2> QED BY <1>2, <2>2 DEF Subject
<1> QED BY <1>1, <1>2

\* A step of call c that stores at most the token of session x.
LEMMA FlightMoves ==
  ASSUME IInv, HeldInv, FlightInv, NEW c \in Workers, Others(c), NEW x,
         \A s \in Sessions : s # x => hash'[s] = hash[s],
         \A d \in Workers : d # c /\ (LoggingIn(d) \/ Refreshing(d)) => Subject(d) # x,
         NeverSelfRevoked', CallOK(c)',
         (refreshItem = NoTokens \/ Current(refreshItem) \/ \E d \in Workers : Replacing(d))',
         \A d \in Workers : d # c /\ LoggingIn(d) => Apart(Subject(d))',
         LoggingIn(c)' => /\ Apart(Subject(c))'
                          /\ \A d \in Workers : d # c /\ (LoggingIn(d) \/ Refreshing(d)) => Subject(d) # Subject(c)',
         Refreshing(c)' => \A d \in Workers : d # c /\ LoggingIn(d) => Subject(d) # Subject(c)'
  PROVE  FlightInv'
<1>1. ASSUME NEW d \in Workers, d # c
      PROVE  /\ LoggingIn(d)' = LoggingIn(d) /\ Refreshing(d)' = Refreshing(d)
             /\ Subject(d)' = Subject(d)
  BY <1>1 DEF Others, LoggingIn, Refreshing, Subject
<1>2. ASSUME NEW d \in Workers, d # c
      PROVE  CallOK(d)'
  <2>1. /\ pc'[d] = pc[d] /\ req'[d] = req[d]
        /\ at'[d] = at[d] /\ got'[d] = got[d] /\ kind'[d] = kind[d]
    BY <1>2 DEF Others
  <2>2. CallOK(d)
    BY DEF FlightInv
  <2>3. ASSUME LoggingIn(d) \/ Refreshing(d)
        PROVE  hash'[Subject(d)] = hash[Subject(d)]
    BY <1>2, <2>3, SubjectsOpen
  <2>4. ASSUME at[d] \in {"sendRefresh", "storeAccess", "storeRefresh"}
        PROVE  Current(got[d])'
    <3>1. LoggingIn(d) \/ Refreshing(d)
      BY <2>4 DEF LoggingIn, Refreshing
    <3>2. Subject(d) = got[d][1] /\ Current(got[d])
      BY <2>2, <2>4 DEF Subject, CallOK
    <3> QED BY <2>1, <2>3, <3>1, <3>2 DEF Current
  <2>5. ASSUME at[d] = "answer", pc[d] \in {"emitCreated", "respond"}
        PROVE  Current(<<req[d].sess, req[d].new>>)'
    <3>1. req[d].op \in {"issue", "rotate"}
      BY <2>5 DEF IInv, StepInv
    <3>2. LoggingIn(d) \/ Refreshing(d)
      BY <2>2, <2>5, <3>1 DEF LoggingIn, Refreshing, CallOK
    <3>3. Subject(d) = req[d].sess /\ Current(<<req[d].sess, req[d].new>>)
      BY <2>2, <2>5 DEF Subject, CallOK
    <3> QED BY <2>1, <2>3, <3>2, <3>3 DEF Current
  <2> QED BY <2>1, <2>2, <2>4, <2>5 DEF CallOK
<1>3. ASSUME NEW d \in Workers, LoggingIn(d)'
      PROVE  /\ Apart(Subject(d))'
             /\ \A e \in Workers : e # d /\ (LoggingIn(e) \/ Refreshing(e))' => Subject(e)' # Subject(d)'
  <2>1. CASE d = c
    BY <1>1, <1>3, <2>1
  <2>2. CASE d # c
    <3>1. LoggingIn(d) /\ Subject(d)' = Subject(d)
      BY <1>1, <1>3, <2>2
    <3>2. Apart(Subject(d))'
      BY <2>2, <3>1
    <3>3. ASSUME NEW e \in Workers, e # d, (LoggingIn(e) \/ Refreshing(e))'
          PROVE  Subject(e)' # Subject(d)'
      <4>1. CASE e = c
        BY <2>2, <3>1, <3>3, <4>1
      <4>2. CASE e # c
        <5>1. LoggingIn(e) \/ Refreshing(e)
          BY <1>1, <3>3, <4>2
        <5>2. Subject(e)' = Subject(e)
          BY <1>1, <4>2
        <5> QED BY <3>1, <3>3, <5>1, <5>2 DEF FlightInv
      <4> QED BY <4>1, <4>2
    <3> QED BY <3>2, <3>3
  <2> QED BY <2>1, <2>2
<1>4. \A d \in Workers : CallOK(d)'
  BY <1>2
<1> QED BY <1>3, <1>4 DEF FlightInv

\* A step after which the call is at none of the places that matter, or at the
\* sending of the stored refresh token.
LEMMA FlightRests ==
  ASSUME IInv, HeldInv, FlightInv, NEW c \in Workers, Others(c), hash' = hash, NeverSelfRevoked',
         pc'[c] = "idle", at'[c] \notin {"answer", "storeAccess", "storeRefresh"},
         at'[c] \in {"readRefresh", "sendRefresh"} => kind'[c] # "login",
         at'[c] = "sendRefresh" => /\ got'[c] = refreshItem /\ refreshItem # NoTokens
                                   /\ Current(refreshItem),
         refreshItem' = NoTokens \/ (refreshItem' = refreshItem /\ ~Replacing(c))
  PROVE  FlightInv'
<1>1. ~LoggingIn(c)' /\ (Refreshing(c)' => at'[c] = "sendRefresh")
  BY DEF LoggingIn, Refreshing
<1>2. CallOK(c)'
  BY DEF CallOK, Current
<1>3. ASSUME NEW d \in Workers, d # c, LoggingIn(d)
      PROVE  Apart(Subject(d))'
  <2>1. Apart(Subject(d)) /\ Subject(d)' = Subject(d)
    BY <1>3 DEF FlightInv, Others, Subject
  <2> QED BY <2>1 DEF Apart
<1>4. ASSUME NEW d \in Workers, d # c, LoggingIn(d), Refreshing(c)'
      PROVE  Subject(d) # Subject(c)'
  <2>1. Subject(c)' = refreshItem[1] /\ refreshItem # NoTokens
    BY <1>1, <1>4 DEF Subject
  <2> QED BY <1>4, <2>1 DEF FlightInv, Apart
<1>5. (refreshItem = NoTokens \/ Current(refreshItem) \/ \E d \in Workers : Replacing(d))'
  <2>1. ASSUME refreshItem' = refreshItem, NEW d \in Workers, Replacing(d), ~Replacing(c)
        PROVE  Replacing(d)'
    BY <2>1 DEF Others, Replacing
  <2>2. ASSUME refreshItem' = refreshItem, Current(refreshItem) PROVE Current(refreshItem)'
    BY <2>2 DEF Current
  <2> QED BY <2>1, <2>2 DEF FlightInv
<1>6. \A d \in Workers : d # c /\ (LoggingIn(d) \/ Refreshing(d)) => Subject(d) # NoSession
  BY SubjectsOpen, SessionAssumption
<1> QED BY <1>1, <1>2, <1>3, <1>4, <1>5, <1>6, FlightMoves

\* Where the server's rows stay and nothing is stored, the alarm stays silent.
LEMMA SilentStays ==
  ASSUME FlightInv, outbox' = outbox PROVE NeverSelfRevoked'
  BY DEF FlightInv, NeverSelfRevoked

LEMMA OtherEvents ==
  ASSUME NeverSelfRevoked, NEW type \in {"SessionCreated", "SessionRevoked", "AllSessionsRevoked"}, NEW of,
         outbox' = outbox \union {<<type, of>>}
  PROVE  NeverSelfRevoked'
<1>1. ASSUME NEW s \in Sessions PROVE <<"SessionHijackDetected", s>> # <<type, of>>
  OBVIOUS
<1> QED BY <1>1 DEF NeverSelfRevoked

LEMMA FlightLogin ==
  ASSUME IInv, HeldInv, FlightInv, NEW c \in Workers, Login(c)
  PROVE  FlightInv'
<1>1. PICK u \in Users, s \in Sessions : CreateSession(c, u, s, NoClient)
  BY DEF Login
<1>2. /\ pc \in [Workers -> Steps] /\ DOMAIN req = Workers /\ at \in [Workers -> Places]
      /\ kind \in [Workers -> Kinds] /\ hash \in [Sessions -> 0..MaxToken]
  BY DEF IInv, TypeOK, HeldInv
<1>3. /\ owner[s] = NoUser /\ hash'[s] = next /\ outbox' = outbox
      /\ \A q \in Sessions : q # s => hash'[q] = hash[q]
      /\ pc'[c] = "emitCreated"
      /\ req'[c].client = NoClient /\ req'[c].op = "issue"
      /\ req'[c].sess = s /\ req'[c].new = next
  BY <1>1, <1>2 DEF CreateSession, Begin, Goto, Locals
<1>4. /\ at[c] \in Settled /\ at'[c] = "answer" /\ kind'[c] = "login"
      /\ UNCHANGED <<accessItem, refreshItem>>
  BY <1>2 DEF Login, Call, storage
<1>5. Others(c) /\ NeverSelfRevoked'
  BY <1>3, OthersStay, SilentStays DEF Start
<1>6. \A d \in Workers : d # c /\ (LoggingIn(d) \/ Refreshing(d)) => Subject(d) # s
  BY <1>3, SubjectsOpen
<1>7. Subject(c)' = s /\ ~Refreshing(c)'
  BY <1>3, <1>4 DEF Subject, Refreshing
<1>8. CallOK(c)'
  BY <1>3, <1>4 DEF CallOK, Current
<1>9. refreshItem = NoTokens \/ (refreshItem[1] \in Sessions /\ refreshItem[1] # s)
  <2>1. ASSUME refreshItem \in known PROVE refreshItem[1] \in Sessions /\ refreshItem[1] # s
    BY <1>3, <2>1 DEF IInv, TypeOK, TokenInv
  <2> QED BY <2>1 DEF HeldInv
<1>10. (refreshItem = NoTokens \/ Current(refreshItem) \/ \E d \in Workers : Replacing(d))'
  <2>1. ASSUME Current(refreshItem), refreshItem # NoTokens PROVE Current(refreshItem)'
    BY <1>3, <1>4, <1>9, <2>1 DEF Current
  <2>2. ASSUME NEW d \in Workers, Replacing(d) PROVE Replacing(d)'
    BY <1>4, <1>5, <2>2 DEF Others, Replacing, Settled
  <2> QED BY <1>4, <2>1, <2>2 DEF FlightInv
<1>11. \A d \in Workers : d # c /\ LoggingIn(d) => Apart(Subject(d))'
  BY <1>4, <1>5 DEF FlightInv, Others, Subject, Apart
<1>12. Apart(Subject(c))'
  BY <1>4, <1>7, <1>9 DEF Apart
<1> HIDE DEF FlightInv
<1> QED BY <1>3, <1>5, <1>6, <1>7, <1>8, <1>10, <1>11, <1>12, FlightMoves

\* The other calls, and the answer of an endpoint that is not asked to revoke.
LEMMA FlightLocal ==
  ASSUME IInv, HeldInv, FlightInv, SingleFlight', NEW c \in Workers,
         \/ Fetch(c) \/ RefreshCall(c) \/ Logout(c) \/ RevokeSession(c) \/ LogoutAll(c)
         \/ Fetched(c) \/ ReadRefresh(c) \/ NetworkFails(c) \/ ClearAccess(c) \/ ClearRefresh(c)
  PROVE  FlightInv'
<1>1. /\ at \in [Workers -> Places] /\ got \in [Workers -> Pairs] /\ kind \in [Workers -> Kinds]
  BY DEF HeldInv
<1>2. /\ UNCHANGED vars
      /\ at[c] \notin {"answer", "storeAccess", "storeRefresh"}
      /\ at'[c] \notin {"answer", "storeAccess", "storeRefresh"}
      /\ at'[c] = "sendRefresh" => got'[c] = refreshItem /\ refreshItem # NoTokens /\ at[c] # "sendRefresh"
      /\ refreshItem' \in {NoTokens, refreshItem}
      /\ at'[c] \in {"readRefresh", "sendRefresh"} => kind'[c] # "login"
  <2>1. CASE Fetch(c) \/ RefreshCall(c) \/ Logout(c) \/ RevokeSession(c) \/ LogoutAll(c)
    BY <1>1, <2>1 DEF Fetch, RefreshCall, Logout, RevokeSession, LogoutAll, Call, Settled, storage
  <2>2. CASE Fetched(c) \/ ReadRefresh(c) \/ NetworkFails(c)
    BY <1>1, <2>2 DEF Fetched, ReadRefresh, NetworkFails, Rejected, GiveUp, With, GoOn, storage, Fetches,
       FlightInv, CallOK
  <2>3. CASE ClearAccess(c) \/ ClearRefresh(c)
    BY <1>1, <2>3 DEF ClearAccess, ClearRefresh, Removed, GiveUp, With, GoOn
  <2> QED BY <2>1, <2>2, <2>3
<1>3. Others(c)
  BY OthersStay DEF Start, Proceed
<1>4. hash' = hash /\ NeverSelfRevoked' /\ pc'[c] = "idle"
  BY <1>2, SilentStays DEF vars, rows, FlightInv, CallOK
<1>5. ~Replacing(c)
  BY <1>2 DEF Replacing
<1>6. ASSUME at'[c] = "sendRefresh" PROVE Current(refreshItem)
  <2>1. ASSUME NEW d \in Workers, Replacing(d) PROVE FALSE
    <3>1. d # c /\ Refreshing(d)
      BY <1>5, <2>1 DEF Replacing, Refreshing
    <3>2. Refreshing(d)' /\ Refreshing(c)'
      BY <1>3, <1>6, <3>1 DEF Others, Refreshing
    <3> QED BY <3>1, <3>2 DEF SingleFlight
  <2> QED BY <1>2, <1>6, <2>1 DEF FlightInv
<1> QED BY <1>2, <1>3, <1>4, <1>5, <1>6, FlightRests

\* Requests that arrive.
LEMMA FlightSend ==
  ASSUME IInv, HeldInv, FlightInv, NEW c \in Workers, SendRefresh(c) \/ SendLogout(c) \/ SendRevoke(c)
  PROVE  FlightInv'
<1>1. /\ pc \in [Workers -> Steps] /\ DOMAIN req = Workers /\ at \in [Workers -> Places]
  BY DEF IInv, TypeOK, HeldInv
<1>2. /\ at'[c] = "answer" /\ UNCHANGED <<rows, kind, got, accessItem, refreshItem>>
      /\ at[c] \in {"send", "retry", "sendRefresh"}
  BY <1>1 DEF SendRefresh, SendLogout, SendRevoke, GoOn, storage, Refresh, Revoke, RevokeAllSessions
<1>3. /\ req'[c].client = NoClient /\ pc'[c] \notin {"idle", "emitCreated", "respond"}
      /\ kind[c] # "login"
      /\ \/ req'[c].op \in {"revoke", "revokeAll"}
         \/ /\ req'[c].op \in {"rotate", "replay"} /\ req'[c].sess = got[c][1]
            /\ at[c] = "sendRefresh"
  <2>1. CASE SendRefresh(c)
    <3>1. at[c] = "sendRefresh" /\ hash[got[c][1]] = got[c][2] /\ kind[c] # "login"
      BY <2>1 DEF SendRefresh, FlightInv, CallOK, Current
    <3> QED BY <1>1, <2>1, <3>1 DEF SendRefresh, Refresh, Begin, Goto, Locals
  <2>2. CASE SendLogout(c) \/ SendRevoke(c)
    BY <1>1, <2>2 DEF SendLogout, SendRevoke, Revoke, RevokeAllSessions, Begin, Goto, Locals
  <2> QED BY <2>1, <2>2
<1>4. Others(c) /\ hash' = hash /\ NeverSelfRevoked'
  BY <1>2, OthersStay, SilentStays DEF Proceed, rows
<1>5. CallOK(c)'
  BY <1>2, <1>3 DEF CallOK
<1>6. ~LoggingIn(c)' /\ (Refreshing(c)' => Refreshing(c) /\ Subject(c)' = Subject(c))
  BY <1>2, <1>3 DEF LoggingIn, Refreshing, Subject
<1>7. (refreshItem = NoTokens \/ Current(refreshItem) \/ \E d \in Workers : Replacing(d))'
  <2>1. ASSUME NEW d \in Workers, Replacing(d) PROVE Replacing(d)'
    BY <1>2, <1>4, <2>1 DEF Others, Replacing
  <2> QED BY <1>2, <1>4, <2>1 DEF FlightInv, Current
<1>8. \A d \in Workers : d # c /\ LoggingIn(d) => Apart(Subject(d))'
  BY <1>2, <1>4 DEF FlightInv, Others, Subject, Apart
<1>9. \A d \in Workers : d # c /\ (LoggingIn(d) \/ Refreshing(d)) => Subject(d) # NoSession
  BY SubjectsOpen, SessionAssumption
<1>10. Refreshing(c)' => \A d \in Workers : d # c /\ LoggingIn(d) => Subject(d) # Subject(c)'
  BY <1>6 DEF FlightInv
<1> QED BY <1>4, <1>5, <1>6, <1>7, <1>8, <1>9, <1>10, FlightMoves

\* A step that keeps what the call is about, and the storage.
LEMMA FlightGoesOn ==
  ASSUME IInv, HeldInv, FlightInv, NEW c \in Workers, Others(c), NEW x,
         \A s \in Sessions : s # x => hash'[s] = hash[s],
         \A d \in Workers : d # c /\ (LoggingIn(d) \/ Refreshing(d)) => Subject(d) # x,
         NeverSelfRevoked', CallOK(c)',
         refreshItem' = refreshItem,
         hash' = hash \/ Replacing(c)', Replacing(c) => Replacing(c)',
         LoggingIn(c)' = LoggingIn(c), Refreshing(c)' = Refreshing(c), Subject(c)' = Subject(c)
  PROVE  FlightInv'
<1>1. (refreshItem = NoTokens \/ Current(refreshItem) \/ \E d \in Workers : Replacing(d))'
  <2>1. ASSUME NEW d \in Workers, Replacing(d) PROVE Replacing(d)'
    BY <2>1 DEF Others, Replacing
  <2> QED BY <2>1 DEF FlightInv, Current
<1>2. \A d \in Workers : d # c /\ LoggingIn(d) => Apart(Subject(d))'
  BY DEF FlightInv, Others, Subject, Apart
<1>3. LoggingIn(c)' => /\ Apart(Subject(c))'
                       /\ \A d \in Workers : d # c /\ (LoggingIn(d) \/ Refreshing(d)) => Subject(d) # Subject(c)'
  BY DEF FlightInv, Apart
<1>4. Refreshing(c)' => \A d \in Workers : d # c /\ LoggingIn(d) => Subject(d) # Subject(c)'
  BY DEF FlightInv
<1> QED BY <1>1, <1>2, <1>3, <1>4, FlightMoves

\* The server's handler goes on with the request of call c.
LEMMA FlightServerStep ==
  ASSUME IInv, HeldInv, FlightInv, SingleFlight, NEW c \in Workers, ServerStep(c)
  PROVE  FlightInv'
<1>1. /\ pc \in [Workers -> Steps] /\ at \in [Workers -> Places] /\ got \in [Workers -> Pairs]
      /\ kind \in [Workers -> Kinds] /\ DOMAIN req = Workers /\ hash \in [Sessions -> 0..MaxToken]
  BY DEF IInv, TypeOK, HeldInv
<1>2. /\ at[c] = "answer" /\ pc[c] # "idle" /\ req[c].client = NoClient
      /\ req[c].op \in {"issue", "rotate", "replay", "revoke", "revokeAll"}
      /\ (req[c].op = "issue" <=> kind[c] = "login")
      /\ pc[c] \in {"emitCreated", "respond"} => Current(<<req[c].sess, req[c].new>>)
  BY DEF ServerStep, FlightInv, CallOK
<1>3. Others(c) /\ UNCHANGED <<accessItem, refreshItem>>
  BY OthersStay DEF Proceed, ServerStep, storage
<1>4. \A d \in Workers : d # c /\ (LoggingIn(d) \/ Refreshing(d)) => Subject(d) # NoSession
  BY SubjectsOpen, SessionAssumption
<1>5. CASE Respond(c)
  <2>1. /\ UNCHANGED rows /\ pc[c] = "respond" /\ pc'[c] = "idle"
        /\ at'[c] = "storeAccess" /\ got'[c] = <<req[c].sess, req[c].new>> /\ kind' = kind
    BY <1>1, <1>5 DEF Respond, Return, Goto, ServerStep, With
  <2>2. CallOK(c)' /\ NeverSelfRevoked' /\ hash' = hash
    BY <1>2, <2>1, SilentStays DEF CallOK, Current, rows
  <2>3. req[c].op \in {"issue", "rotate"}
    BY <2>1 DEF IInv, StepInv
  <2>4. /\ LoggingIn(c)' = LoggingIn(c) /\ Refreshing(c)' = Refreshing(c) /\ Subject(c)' = Subject(c)
        /\ Replacing(c)' = Replacing(c)
    BY <1>2, <2>1, <2>3 DEF LoggingIn, Refreshing, Replacing, Subject
  <2> QED BY <1>3, <1>4, <2>2, <2>4, FlightGoesOn
<1>6. CASE EmitCreated(c)
  <2>1. /\ UNCHANGED <<hash, req>> /\ pc'[c] = "respond" /\ pc[c] = "emitCreated" /\ UNCHANGED calls
        /\ outbox' = outbox \union {<<"SessionCreated", req[c].sess>>}
    BY <1>1, <1>6 DEF EmitCreated, Emit, Goto, ServerStep
  <2>2. CallOK(c)'
    BY <1>2, <2>1 DEF CallOK, Current, calls
  <2>3. NeverSelfRevoked'
    BY <2>1, OtherEvents DEF FlightInv
  <2>4. /\ LoggingIn(c)' = LoggingIn(c) /\ Refreshing(c)' = Refreshing(c) /\ Subject(c)' = Subject(c)
        /\ Replacing(c)' = Replacing(c)
    BY <2>1 DEF LoggingIn, Refreshing, Replacing, Subject, calls
  <2> QED BY <1>3, <1>4, <2>1, <2>2, <2>3, <2>4, FlightGoesOn
<1>7. CASE Rotate(c)
  <2>1. /\ req[c].op = "rotate" /\ req[c].sess \in Sessions
        /\ UNCHANGED <<outbox, req, calls>> /\ pc'[c] = "respond"
        /\ hash' = [hash EXCEPT ![req[c].sess] = req[c].new]
    BY <1>1, <1>2, <1>7 DEF Rotate, Goto, ServerStep, IInv, StepInv
  <2>2. CallOK(c)' /\ NeverSelfRevoked'
    BY <1>1, <1>2, <2>1, SilentStays DEF CallOK, Current, calls
  <2>3. /\ LoggingIn(c)' = LoggingIn(c) /\ Refreshing(c)' = Refreshing(c) /\ Subject(c)' = Subject(c)
        /\ Replacing(c)' /\ Refreshing(c) /\ Subject(c) = req[c].sess
    BY <1>2, <2>1 DEF LoggingIn, Refreshing, Replacing, Subject, calls
  <2>4. ASSUME NEW d \in Workers, d # c, LoggingIn(d) \/ Refreshing(d)
        PROVE  Subject(d) # req[c].sess
    <3>1. LoggingIn(d)
      BY <2>3, <2>4 DEF SingleFlight
    <3> QED BY <2>3, <2>4, <3>1 DEF FlightInv
  <2>5. \A s \in Sessions : s # req[c].sess => hash'[s] = hash[s]
    BY <1>1, <2>1
  <2> QED BY <1>3, <2>2, <2>3, <2>4, <2>5, FlightGoesOn
<1>8. CASE RevokeOne(c) \/ RevokeAll(c)
  <2>1. /\ UNCHANGED <<outbox, hash, req, calls>> /\ pc'[c] \in {"revokeAll", "emitRevoked", "emitAll"}
    BY <1>1, <1>8 DEF RevokeOne, RevokeAll, Goto, ServerStep
  <2>2. CallOK(c)' /\ NeverSelfRevoked'
    BY <1>2, <2>1, SilentStays DEF CallOK, calls
  <2>3. /\ LoggingIn(c)' = LoggingIn(c) /\ Refreshing(c)' = Refreshing(c) /\ Subject(c)' = Subject(c)
        /\ Replacing(c)' = Replacing(c)
    BY <2>1 DEF LoggingIn, Refreshing, Replacing, Subject, calls
  <2> QED BY <1>3, <1>4, <2>1, <2>2, <2>3, FlightGoesOn
<1>9. CASE EmitRevoked(c) \/ EmitAll(c)
  <2>1. /\ req[c].op \in {"revoke", "replay", "revokeAll"} /\ pc[c] # "respond"
    BY <1>2, <1>9 DEF EmitRevoked, EmitAll, IInv, StepInv
  <2>2. pc'[c] = "idle" /\ hash' = hash
    BY <1>1, <1>9, <2>1 DEF EmitRevoked, EmitAll, Return, Goto
  <2>3. at'[c] \in {"ok", "clearAccess", "failed"}
    BY <1>1, <2>1, <2>2 DEF ServerStep, Answered, GiveUp, With, GoOn
  <2>4. NeverSelfRevoked'
    <3>1. \/ outbox' = outbox \union {<<"SessionRevoked", req[c].sess>>}
          \/ outbox' = outbox \union {<<"AllSessionsRevoked", req[c].user>>}
      BY <1>9 DEF EmitRevoked, EmitAll, Emit
    <3> QED BY <3>1, OtherEvents DEF FlightInv
  <2>5. ~Replacing(c)
    BY <1>2, <2>1 DEF Replacing
  <2> QED BY <1>3, <2>2, <2>3, <2>4, <2>5, FlightRests
<1>10. pc[c] \notin {"emitHijack", "findAccess", "access", "audit"}
  BY <1>2, SessionAssumption DEF IInv, StepInv
<1> QED
  BY <1>5, <1>6, <1>7, <1>8, <1>9, <1>10
  DEF ServerStep, Continue, EmitHijack, FindAccess, CreateAccess, AuditAccess

LEMMA FlightStore ==
  ASSUME IInv, HeldInv, FlightInv, NEW c \in Workers, StoreAccess(c) \/ StoreRefresh(c)
  PROVE  FlightInv'
<1>1. at \in [Workers -> Places]
  BY DEF HeldInv
<1>2. /\ at[c] \in {"storeAccess", "storeRefresh"} /\ UNCHANGED <<vars, kind, got>>
      /\ pc[c] = "idle" /\ Current(got[c])
  BY DEF StoreAccess, StoreRefresh, GoOn, FlightInv, CallOK
<1>3. Others(c) /\ NeverSelfRevoked' /\ hash' = hash
  BY <1>2, OthersStay, SilentStays DEF Proceed, vars, rows
<1>4. \A d \in Workers : d # c /\ (LoggingIn(d) \/ Refreshing(d)) => Subject(d) # NoSession
  BY SubjectsOpen, SessionAssumption
<1>5. CASE StoreAccess(c)
  <2>1. at[c] = "storeAccess" /\ at'[c] = "storeRefresh" /\ refreshItem' = refreshItem
    BY <1>1, <1>5 DEF StoreAccess, GoOn
  <2>2. CallOK(c)'
    BY <1>2, <2>1 DEF CallOK, Current, vars, rows
  <2>3. /\ LoggingIn(c)' = LoggingIn(c) /\ Refreshing(c)' = Refreshing(c) /\ Subject(c)' = Subject(c)
        /\ Replacing(c)' = Replacing(c)
    BY <1>2, <2>1 DEF LoggingIn, Refreshing, Replacing, Subject
  <2> QED BY <1>3, <1>4, <2>1, <2>2, <2>3, FlightGoesOn
<1>6. CASE StoreRefresh(c)
  <2>1. at[c] = "storeRefresh" /\ at'[c] \in {"retry", "ok"} /\ refreshItem' = got[c]
    BY <1>1, <1>6 DEF StoreRefresh, GoOn
  <2>2. CallOK(c)' /\ ~LoggingIn(c)' /\ ~Refreshing(c)'
    BY <1>2, <2>1 DEF CallOK, LoggingIn, Refreshing, vars
  <2>3. Current(refreshItem)'
    BY <1>2, <1>3, <2>1 DEF Current
  <2>4. Subject(c) = got[c][1] /\ (LoggingIn(c) \/ Refreshing(c))
    BY <2>1 DEF Subject, LoggingIn, Refreshing
  <2>5. ASSUME NEW d \in Workers, d # c, LoggingIn(d)
        PROVE  Apart(Subject(d))'
    <3>1. Subject(d)' = Subject(d)
      BY <1>3, <2>5 DEF Others, Subject
    <3>2. Subject(c) # Subject(d)
      BY <2>4, <2>5 DEF FlightInv
    <3> QED BY <2>1, <2>4, <3>1, <3>2 DEF Apart
  <2> QED BY <1>3, <1>4, <2>2, <2>3, <2>5, FlightMoves
<1> QED BY <1>5, <1>6

LEMMA FlightStep ==
  ASSUME IInv, HeldInv, FlightInv, SingleFlight, SingleFlight', [ClientNext]_allVars, aborts' = 0
  PROVE  FlightInv'
<1>1. ASSUME NEW c \in Workers, Start(c) PROVE FlightInv'
  BY <1>1, FlightLogin, FlightLocal DEF Start
<1>2. ASSUME NEW c \in Workers, Proceed(c) PROVE FlightInv'
  BY <1>2, FlightLocal, FlightSend, FlightServerStep, FlightStore DEF Proceed
<1>3. ASSUME NEW c \in Workers, NetworkFails(c) PROVE FlightInv'
  BY <1>3, FlightLocal
<1>4. ASSUME NEW c \in Workers, HandlerDies(c) PROVE FlightInv'
  BY <1>4, SessionAssumption DEF HandlerDies, Abort, IInv, TypeOK
<1>5. ASSUME UNCHANGED <<hash, outbox, pc, req, refreshItem, calls>> PROVE FlightInv'
  BY <1>5 DEF FlightInv, NeverSelfRevoked, CallOK, Current, Apart, Subject, LoggingIn, Refreshing,
     Replacing, calls
<1>6. ASSUME NEW a \in Sessions \X Tokens, Expire(a) PROVE FlightInv'
  BY <1>5, <1>6 DEF Expire, vars, rows, storage
<1>7. ASSUME NEW s \in Sessions, AdminRevoke(s), UNCHANGED clientVars PROVE FlightInv'
  BY <1>5, <1>7 DEF AdminRevoke, clientVars, storage
<1>8. CASE UNCHANGED allVars
  BY <1>5, <1>8 DEF allVars, vars, rows, clientVars, storage
<1> QED
  BY <1>1, <1>2, <1>3, <1>4, <1>6, <1>7, <1>8 DEF ClientNext

\* It ends with the first answer that is lost.
CalmFlight == aborts = 0 => FlightInv

LEMMA CalmFlightInit == ClientInit => CalmFlight
  BY DEF ClientInit, Init, CalmFlight, FlightInv, NeverSelfRevoked, CallOK, LoggingIn

LEMMA CalmFlightStep ==
  ASSUME IInv, HeldInv, CalmFlight, SingleFlight, SingleFlight', [ClientNext]_allVars
  PROVE  CalmFlight'
<1> SUFFICES ASSUME aborts' = 0 PROVE FlightInv'
  BY DEF CalmFlight
<1>1. [Next]_vars
  BY ClientStepIsServerStep
<1>2. aborts = 0
  BY <1>1, AbortsOnlyGrow DEF IInv
<1> QED BY <1>2, FlightStep DEF CalmFlight

\* With any number of calls under way, among them logins, logouts and revocations, no
\* reuse alarm is raised while every answer comes back, if of those that refresh only
\* one at a time is between the reading of the stored token and the storing of the new
\* one: to share one refresh is all that authenticatedFetch lacks.
THEOREM OneRefreshIsSafe == ClientSpec /\ []SingleFlight => []OnlyLostAnswersAlarm
<1>1. IInv /\ HeldInv /\ [ClientNext]_allVars => IInv' /\ HeldInv'
  BY ClientStepIsServerStep, NextIInv, HeldStep
<1>2. IInv /\ HeldInv /\ CalmFlight /\ SingleFlight /\ SingleFlight' /\ [ClientNext]_allVars => CalmFlight'
  BY CalmFlightStep
<1>3. CalmFlight => OnlyLostAnswersAlarm
  BY DEF CalmFlight, FlightInv, OnlyLostAnswersAlarm
<1> QED
  BY <1>1, <1>2, <1>3, ClientInitHolds, CalmFlightInit, PTL DEF ClientSpec

\* A handler runs only for a call that awaits its answer.
AnswerInv == \A c \in Workers : pc[c] # "idle" => at[c] = "answer"

LEMMA AnswerStep ==
  ASSUME IInv, HeldInv, AnswerInv, [ClientNext]_allVars
  PROVE  AnswerInv'
<1>1. /\ pc \in [Workers -> Steps] /\ at \in [Workers -> Places]
  BY DEF IInv, TypeOK, HeldInv
<1>2. ASSUME NEW c \in Workers, Start(c) \/ Proceed(c) \/ NetworkFails(c)
      PROVE  AnswerInv'
  <2>1. Others(c)
    BY <1>2, OthersStay
  <2>2. pc'[c] # "idle" => at'[c] = "answer"
    <3>1. CASE Login(c) \/ SendRefresh(c) \/ SendLogout(c) \/ SendRevoke(c)
      BY <1>1, <3>1 DEF Login, Call, SendRefresh, SendLogout, SendRevoke, GoOn
    <3>2. CASE ServerStep(c)
      <4>1. pc[c] = "respond" => pc'[c] = "idle"
        BY <1>1, <3>2 DEF ServerStep, Continue, EmitCreated, Respond, Rotate, RevokeOne, RevokeAll,
           EmitRevoked, EmitAll, EmitHijack, FindAccess, CreateAccess, AuditAccess, Return, Goto
      <4> QED BY <3>2, <4>1 DEF ServerStep, calls
    <3>3. CASE ~(Login(c) \/ SendRefresh(c) \/ SendLogout(c) \/ SendRevoke(c) \/ ServerStep(c))
      <4>1. UNCHANGED vars /\ at[c] # "answer"
        BY <1>2, <3>3 DEF Start, Fetch, RefreshCall, Logout, RevokeSession, LogoutAll, Call, Settled,
           Proceed, Fetched, ReadRefresh, StoreAccess, StoreRefresh, ClearAccess, ClearRefresh, NetworkFails
      <4> QED BY <4>1 DEF AnswerInv, vars
    <3> QED BY <3>1, <3>2, <3>3
  <2> QED BY <2>1, <2>2 DEF AnswerInv, Others
<1>3. ASSUME NEW c \in Workers, HandlerDies(c)
      PROVE  AnswerInv'
  BY <1>1, <1>3 DEF HandlerDies, Abort, Return, Goto, Rejected, GiveUp, With, GoOn, AnswerInv
<1>4. ASSUME UNCHANGED <<pc, calls>> PROVE AnswerInv'
  BY <1>4 DEF AnswerInv, calls
<1>5. ASSUME NEW a \in Sessions \X Tokens, Expire(a) PROVE AnswerInv'
  BY <1>4, <1>5 DEF Expire, vars
<1>6. ASSUME NEW s \in Sessions, AdminRevoke(s), UNCHANGED clientVars PROVE AnswerInv'
  BY <1>4, <1>6 DEF AdminRevoke, clientVars
<1>7. CASE UNCHANGED allVars
  BY <1>4, <1>7 DEF allVars, vars, clientVars
<1> QED
  BY <1>2, <1>3, <1>5, <1>6, <1>7 DEF ClientNext

\* Below such a client the server honours every refresh token once, whatever is lost.
THEOREM OneRefreshHonouredOnce == ClientSpec /\ []SingleFlight => HonouredOnce
<1>1. ClientInit => AnswerInv
  BY DEF ClientInit, Init, AnswerInv
<1>2. IInv /\ HeldInv /\ AnswerInv /\ [ClientNext]_allVars => IInv' /\ HeldInv' /\ AnswerInv'
  BY ClientStepIsServerStep, NextIInv, HeldStep, AnswerStep
<1>3. IInv /\ AnswerInv /\ SingleFlight => NoOverlap
  <2> SUFFICES ASSUME IInv, AnswerInv, SingleFlight, NEW v \in Workers, NEW w \in Workers,
                      pc[v] = "rotate", pc[w] = "rotate"
               PROVE  v = w
    BY DEF NoOverlap
  <2>1. Refreshing(v) /\ Refreshing(w)
    BY DEF Refreshing, AnswerInv, IInv, StepInv
  <2> QED BY <2>1 DEF SingleFlight
<1> QED
  BY <1>1, <1>2, <1>3, ClientInitHolds, ImplementsSession, ApartHonouredOnce, PTL DEF ClientSpec

\* What sessions promise to the holder of a token they promise to the SDK's users: with
\* any number of calls, clients and server together implement SessionContract.
THEOREM ClientImplementsContract == ClientSpec => ImplementsContract
  BY ImplementsSession, Refinement, PTL
=============================================================================
