----------------------------- MODULE WebClient -----------------------------
(***************************************************************************)
(* The browser SDK, sdks/kavach-web/src/index.ts, together with the server *)
(* of Session.                                                             *)
(*                                                                         *)
(* The calls of one KavachClient share two storage items and run as async  *)
(* functions: JavaScript runs one at a time, but any of them may run while *)
(* another awaits.  A call has at most one request at the server, so calls *)
(* and Session's workers are the same set.  An access token is named by    *)
(* the session and the refresh token it was issued with.                   *)
(***************************************************************************)
EXTENDS Session

CONSTANT MaxLost   \* bound: how many requests never arrive

ASSUME WebClientAssumption == MaxLost \in Nat

VARIABLES
  accessItem,   \* storage: kavach_access_token
  refreshItem,  \* storage: kavach_refresh_token
  kind,         \* the method each call runs
  at,           \* where it is; "ok" and "failed" when its promise is settled
  got,          \* the token it works with
  expired,      \* the access tokens whose 15 minutes are over
  lost          \* how many requests never arrived

storage == <<accessItem, refreshItem>>
calls == <<kind, at, got>>
clientVars == <<storage, calls, expired, lost>>
allVars == <<vars, clientVars>>

NoTokens == <<NoSession, 0>>
Pairs == (Sessions \X Tokens) \union {NoTokens}
\* The methods that go through authenticatedFetch; "fetch" stands for all that
\* only read: getProfile, getSessions, getDevices and the application's own.
Fetches == {"fetch", "revoke", "logoutAll"}
Kinds == Fetches \union {"login", "refresh", "logout"}
Settled == {"ok", "failed"}
Places == Settled \union {"send", "retry", "readRefresh", "sendRefresh", "answer",
                          "storeAccess", "storeRefresh", "clearAccess", "clearRefresh"}

ClientTypeOK ==
  /\ TypeOK
  /\ accessItem \in Pairs /\ refreshItem \in Pairs
  /\ kind \in [Workers -> Kinds]
  /\ at \in [Workers -> Places]
  /\ got \in [Workers -> Pairs]
  /\ expired \subseteq Sessions \X Tokens
  /\ lost \in 0..MaxLost
  /\ \A c \in Workers : at[c] = "sendRefresh" => got[c] # NoTokens

ClientInit ==
  /\ Init
  /\ accessItem = NoTokens /\ refreshItem = NoTokens
  /\ kind = [c \in Workers |-> "login"]
  /\ at = [c \in Workers |-> "ok"]
  /\ got = [c \in Workers |-> NoTokens]
  /\ expired = {}
  /\ lost = 0

-----------------------------------------------------------------------------
GoOn(c, p) == at' = [at EXCEPT ![c] = p] /\ UNCHANGED <<kind, got>>

With(c, tokens, p) ==
  at' = [at EXCEPT ![c] = p] /\ got' = [got EXCEPT ![c] = tokens] /\ UNCHANGED kind

\* A call is made, while there are tokens left for it and every call under way
\* (MaxToken bounds the model): each uses at most one.
Call(c, k, tokens, p) ==
  /\ at[c] \in Settled
  /\ next + Cardinality({d \in Workers : at[d] \notin Settled}) <= MaxToken
  /\ kind' = [kind EXCEPT ![c] = k]
  /\ at' = [at EXCEPT ![c] = p]
  /\ got' = [got EXCEPT ![c] = tokens]

\* login, the password being right.
Login(c) ==
  /\ \E u \in Users, s \in Sessions : CreateSession(c, u, s, NoClient)
  /\ Call(c, "login", NoTokens, "answer")
  /\ UNCHANGED <<storage, expired, lost>>

\* authenticatedFetch; without an access token it throws at once.
Fetch(c) ==
  /\ accessItem # NoTokens
  /\ Call(c, "fetch", accessItem, "send")
  /\ UNCHANGED <<vars, storage, expired, lost>>

\* refresh, called by the application.
RefreshCall(c) ==
  /\ refreshItem # NoTokens
  /\ Call(c, "refresh", refreshItem, "sendRefresh")
  /\ UNCHANGED <<vars, storage, expired, lost>>

\* logout; without a refresh token it returns at once.
Logout(c) ==
  /\ refreshItem # NoTokens
  /\ Call(c, "logout", refreshItem, "send")
  /\ UNCHANGED <<vars, storage, expired, lost>>

\* revokeSession and logoutAll.  Without an access token the fetch throws: the first
\* hands that on, the second removes the tokens whatever happened.
RevokeSession(c) ==
  /\ accessItem # NoTokens
  /\ Call(c, "revoke", accessItem, "send")
  /\ UNCHANGED <<vars, storage, expired, lost>>

LogoutAll(c) ==
  /\ Call(c, "logoutAll", accessItem, IF accessItem = NoTokens THEN "clearAccess" ELSE "send")
  /\ UNCHANGED <<vars, storage, expired, lost>>

\* A call that throws; logoutAll swallows that and removes the tokens.
GiveUp(c) ==
  IF kind[c] = "logoutAll" THEN With(c, NoTokens, "clearAccess") ELSE GoOn(c, "failed")

-----------------------------------------------------------------------------
(* Definitions named Slip... are plausible mistakes in the definition that   *)
(* follows; no action uses them, the checks put them in its place.           *)

\* The retry is signed with the token of the first attempt.
SlipFetched(c) ==
  /\ kind[c] \in Fetches /\ at[c] \in {"send", "retry"}
  /\ \/ got[c] \notin expired /\ at[c] = "send" /\ kind[c] = "fetch" /\ GoOn(c, "ok")
     \/ got[c] \in expired /\ at[c] = "send" /\ GoOn(c, "readRefresh")
     \/ at[c] = "retry" /\ GiveUp(c)
  /\ UNCHANGED <<vars, storage, expired, lost>>

\* The answer of the protected endpoint: the signature and the expiry of the access
\* token are checked, not its session.  A first 401 starts the silent refresh, a
\* second is handed to the caller; logoutAll does not look at it.
Fetched(c) ==
  /\ kind[c] \in Fetches /\ at[c] \in {"send", "retry"}
  /\ \/ got[c] \notin expired /\ kind[c] = "fetch" /\ GoOn(c, "ok")
     \/ got[c] \in expired /\ at[c] = "send" /\ GoOn(c, "readRefresh")
     \/ got[c] \in expired /\ at[c] = "retry" /\ GiveUp(c)
  /\ UNCHANGED <<vars, storage, expired, lost>>

\* logoutAll is a logout of the session at hand.
SlipSendRevoke(c) ==
  /\ at[c] \in {"send", "retry"} /\ got[c] \notin expired
  /\ kind[c] \in {"revoke", "logoutAll"} /\ Revoke(c, got[c][1])
  /\ GoOn(c, "answer")
  /\ UNCHANGED <<storage, expired, lost>>

\* The token is accepted, and the server's handler revokes: a session of the user, or
\* all of them.
SendRevoke(c) ==
  /\ at[c] \in {"send", "retry"} /\ got[c] \notin expired
  /\ LET u == owner[got[c][1]]
     IN \/ kind[c] = "revoke" /\ \E s \in SessionsOf(u) : Revoke(c, s)
        \/ kind[c] = "logoutAll" /\ RevokeAllSessions(c, u)
  /\ GoOn(c, "answer")
  /\ UNCHANGED <<storage, expired, lost>>

\* refresh() inside authenticatedFetch: the token read here is not the one that
\* belongs to the rejected access token when another call was faster.
ReadRefresh(c) ==
  /\ at[c] = "readRefresh"
  /\ IF refreshItem = NoTokens THEN GiveUp(c)
     ELSE With(c, refreshItem, "sendRefresh")
  /\ UNCHANGED <<vars, storage, expired, lost>>

\* The request arrives: the server's handler makes its first read.
SendRefresh(c) ==
  /\ at[c] = "sendRefresh"
  /\ Refresh(c, got[c][1], got[c][2], NoClient)
  /\ GoOn(c, "answer")
  /\ UNCHANGED <<storage, expired, lost>>

SendLogout(c) ==
  /\ kind[c] = "logout" /\ at[c] = "send"
  /\ Revoke(c, got[c][1])
  /\ GoOn(c, "answer")
  /\ UNCHANGED <<storage, expired, lost>>

\* The handler has answered, and not with tokens: refresh removes what is stored and
\* throws, logout and logoutAll remove it, revokeSession is done.
Answered(c) ==
  IF kind[c] = "revoke" /\ req[c].op = "revoke" THEN GoOn(c, "ok")
  ELSE IF req[c].op = "revokeAll" THEN GiveUp(c)
  ELSE GoOn(c, "clearAccess")

\* Only an answer that is ok settles the request.
SlipServerStep(c) ==
  /\ at[c] = "answer"
  /\ Continue(c)
  /\ IF pc[c] = "respond" THEN With(c, <<req[c].sess, req[c].new>>, "storeAccess")
     ELSE UNCHANGED calls
  /\ UNCHANGED <<storage, expired, lost>>

\* The server's handler makes a step; its last one is the answer.
ServerStep(c) ==
  /\ at[c] = "answer"
  /\ Continue(c)
  /\ IF pc[c] = "respond" THEN With(c, <<req[c].sess, req[c].new>>, "storeAccess")
     ELSE IF pc'[c] = "idle" THEN Answered(c)
     ELSE UNCHANGED calls
  /\ UNCHANGED <<storage, expired, lost>>

StoreAccess(c) ==
  /\ at[c] = "storeAccess"
  /\ accessItem' = got[c]
  /\ GoOn(c, "storeRefresh")
  /\ UNCHANGED <<vars, refreshItem, expired, lost>>

\* The refresh token is stored by login only.
SlipStoreRefresh(c) ==
  /\ at[c] = "storeRefresh"
  /\ refreshItem' = IF kind[c] = "login" THEN got[c] ELSE refreshItem
  /\ GoOn(c, IF kind[c] \in Fetches THEN "retry" ELSE "ok")
  /\ UNCHANGED <<vars, accessItem, expired, lost>>

StoreRefresh(c) ==
  /\ at[c] = "storeRefresh"
  /\ refreshItem' = got[c]
  /\ GoOn(c, IF kind[c] \in Fetches THEN "retry" ELSE "ok")
  /\ UNCHANGED <<vars, accessItem, expired, lost>>

\* The tokens are removed.  logoutAll is done when it has nothing in hand: after a
\* refused refresh, which has removed them already, it removes them again.
Removed(c) ==
  IF kind[c] = "logout" \/ (kind[c] = "logoutAll" /\ got[c] = NoTokens) THEN GoOn(c, "ok")
  ELSE GiveUp(c)

\* One removeItem is forgotten.
SlipClearAccess(c) ==
  /\ at[c] = "clearAccess"
  /\ accessItem' = NoTokens
  /\ Removed(c)
  /\ UNCHANGED <<vars, refreshItem, expired, lost>>

ClearAccess(c) ==
  /\ at[c] = "clearAccess"
  /\ accessItem' = NoTokens
  /\ GoOn(c, "clearRefresh")
  /\ UNCHANGED <<vars, refreshItem, expired, lost>>

ClearRefresh(c) ==
  /\ at[c] = "clearRefresh"
  /\ refreshItem' = NoTokens
  /\ Removed(c)
  /\ UNCHANGED <<vars, accessItem, expired, lost>>

-----------------------------------------------------------------------------
(* The world: tokens expire, handlers die, requests and answers get lost.  *)

Expire(a) ==
  /\ a \in known \ expired
  /\ expired' = expired \union {a}
  /\ UNCHANGED <<vars, storage, calls, lost>>

\* fetch rejects: logout removes the tokens nevertheless, the others throw.
Rejected(c) == IF kind[c] = "logout" THEN GoOn(c, "clearAccess") ELSE GiveUp(c)

\* The request never arrives.
NetworkFails(c) ==
  /\ at[c] \in {"send", "retry", "sendRefresh"}
  /\ lost < MaxLost /\ lost' = lost + 1
  /\ Rejected(c)
  /\ UNCHANGED <<vars, storage, expired>>

\* The handler ends half-way, or its answer is lost: the client sees a broken
\* connection or a 500, and a refresh that is answered 500 removes the tokens.
HandlerDies(c) ==
  /\ at[c] = "answer"
  /\ Abort(c)
  /\ \/ Rejected(c)
     \/ req[c].op \in {"rotate", "replay", "reuse"} /\ GoOn(c, "clearAccess")
  /\ UNCHANGED <<storage, expired, lost>>

-----------------------------------------------------------------------------
Start(c) ==
  \/ Login(c)
  \/ Fetch(c)
  \/ RefreshCall(c)
  \/ Logout(c)
  \/ RevokeSession(c)
  \/ LogoutAll(c)

Proceed(c) ==
  \/ Fetched(c)
  \/ ReadRefresh(c)
  \/ SendRefresh(c)
  \/ SendLogout(c)
  \/ SendRevoke(c)
  \/ ServerStep(c)
  \/ StoreAccess(c)
  \/ StoreRefresh(c)
  \/ ClearAccess(c)
  \/ ClearRefresh(c)

ClientNext ==
  \/ \E c \in Workers : Start(c)
  \/ \E c \in Workers : Proceed(c)
  \/ \E c \in Workers : NetworkFails(c)
  \/ \E c \in Workers : HandlerDies(c)
  \/ \E a \in Sessions \X Tokens : Expire(a)
  \/ \E s \in Sessions : AdminRevoke(s) /\ UNCHANGED clientVars

ClientSpec == ClientInit /\ [][ClientNext]_allVars

\* Promises settle: the server answers and the event loop runs what is ready.
ClientFairness == \A c \in Workers : WF_allVars(Proceed(c))

FairClientSpec == ClientSpec /\ ClientFairness

-----------------------------------------------------------------------------
(* What the user of the SDK relies on.                                     *)

\* The tokens were given to this client alone, so a reuse alarm is always false:
\* the silent refresh must not trip it.
NeverSelfRevoked ==
  \A s \in Sessions : <<"SessionHijackDetected", s>> \notin outbox

\* It does not, as long as every answer of the server has come back, however
\* often access tokens expire and requests fail to arrive.
OnlyLostAnswersAlarm == aborts = 0 => NeverSelfRevoked

\* Between calls storage is empty or holds both tokens of one answer, and the
\* refresh token is the one the server's row holds now, as long as every answer
\* has come back.
StoredPairIsCurrent ==
  aborts = 0 /\ (\A c \in Workers : at[c] \in Settled) =>
    /\ accessItem = refreshItem
    /\ refreshItem # NoTokens => hash[refreshItem[1]] = refreshItem[2]

\* authenticatedFetch gets through although its access token has expired, unless
\* a session was revoked, the new access token expired on the way as well, or a
\* request or an answer was lost.
SilentRetry ==
  \A c \in Workers :
    kind[c] = "fetch" /\ at[c] = "send"
      ~> \/ at[c] = "ok"
         \/ \E s \in Sessions : revoked[s]
         \/ at[c] = "failed" /\ got[c] \in expired
         \/ lost + aborts > 0

\* logoutAll ends every session there is, although the access token has expired or the
\* session at hand was revoked before, unless the new access token expired on the way
\* as well (the answer is not looked at), or a request or an answer was lost.
LogoutAllReaches ==
  \A c \in Workers :
    kind[c] = "logoutAll" /\ at[c] = "send"
      ~> \/ \A s \in Sessions : owner[s] # NoUser => revoked[s]
         \/ at[c] = "retry" /\ got[c] \in expired
         \/ lost + aborts > 0

\* Every promise settles.
CallsEnd == \A c \in Workers : at[c] \notin Settled ~> at[c] \in Settled
=============================================================================
