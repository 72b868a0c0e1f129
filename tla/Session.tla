------------------------------ MODULE Session ------------------------------
(***************************************************************************)
(* Sessions, refresh-token rotation and revocation, session.service.ts.    *)
(*                                                                         *)
(* A handler runs as a sequence of awaited database calls; every call is   *)
(* one atomic step and any other request may run between two of them.      *)
(* A worker is a request in flight, in whichever process.  What a handler  *)
(* has read stays in its local variables (req) however stale it becomes.   *)
(*                                                                         *)
(* Refresh tokens are numbers, drawn from a counter because randomBytes(32)*)
(* does not repeat; the row stores the SHA-256 hash of the token, and as   *)
(* hashes are only compared for equality, hash[s] is the number itself.    *)
(***************************************************************************)
EXTENDS Naturals, FiniteSets

CONSTANTS
  Users, Sessions, Clients, Workers,
  NoUser, NoClient, NoSession,
  MaxToken,   \* bound: how many refresh tokens a behaviour issues
  MaxAborts   \* bound: how many handlers die half-way

ASSUME SessionAssumption ==
  /\ NoUser \notin Users
  /\ NoClient \notin Clients
  /\ NoSession \notin Sessions
  /\ MaxToken \in Nat /\ MaxAborts \in Nat

VARIABLES
  owner,    \* userId of the row; NoUser while there is no row
  hash,     \* refreshVerHash
  revoked,  \* is revokedAt set?
  access,   \* session_app_access: the app clients of each session
  audited,  \* audit_logs: the SSO_PRODUCT_ACCESS entries of each session
  outbox,   \* the events written, as <<type, session or user>>
  next,     \* the next token randomBytes will produce
  known,    \* the <<session, token>> pairs some client was given
  spent,    \* ghost: the tokens that have been rotated away
  pc,       \* the call each request awaits; "idle" when there is none
  req,      \* its local variables
  aborts    \* how many handlers died half-way

rows == <<owner, hash, revoked, access, audited, outbox>>
vars == <<rows, next, known, spent, pc, req, aborts>>

Tokens == 1..MaxToken

\* Stands for every value that is no token of the session it is presented for: made
\* up, truncated, or the token of another session.  No row stores its hash.
Unissued == 0

Ops == {"issue", "rotate", "replay", "reuse", "revoke", "revokeAll", "consent"}
Steps == {"idle", "findAccess", "access", "audit", "emitCreated", "respond",
          "rotate", "revokeOne", "revokeAll", "emitRevoked", "emitAll", "emitHijack"}

\* The locals of a handler: the decision its first read led to, the user and
\* the session it is about, the token presented, the token it generated, the
\* app client it names, and (ghost) the sessions the user had at the first read, for
\* the handlers that terminate them all.
Requests ==
  [op : Ops, user : Users, sess : Sessions \union {NoSession}, tok : 0..MaxToken, new : 0..MaxToken,
   client : Clients \union {NoClient}, seen : SUBSET Sessions]

NoRequest == [op |-> "none"]

Events ==
  ({"SessionCreated", "SessionRevoked", "SessionHijackDetected"} \X Sessions)
    \union ({"AllSessionsRevoked"} \X Users)

TypeOK ==
  /\ owner \in [Sessions -> Users \union {NoUser}]
  /\ hash \in [Sessions -> 0..MaxToken]
  /\ revoked \in [Sessions -> BOOLEAN]
  /\ access \in [Sessions -> SUBSET Clients]
  /\ audited \in [Sessions -> SUBSET Clients]
  /\ outbox \subseteq Events
  /\ next \in 1..(MaxToken + 1)
  /\ known \subseteq Sessions \X Tokens
  /\ spent \subseteq Tokens
  /\ pc \in [Workers -> Steps]
  /\ req \in [Workers -> Requests \union {NoRequest}]
  /\ \A w \in Workers : pc[w] # "idle" => req[w] \in Requests
  /\ aborts \in 0..MaxAborts

Init ==
  /\ owner = [s \in Sessions |-> NoUser]
  /\ hash = [s \in Sessions |-> 0]
  /\ revoked = [s \in Sessions |-> FALSE]
  /\ access = [s \in Sessions |-> {}]
  /\ audited = [s \in Sessions |-> {}]
  /\ outbox = {}
  /\ next = 1
  /\ known = {}
  /\ spent = {}
  /\ pc = [w \in Workers |-> "idle"]
  /\ req = [w \in Workers |-> NoRequest]
  /\ aborts = 0

-----------------------------------------------------------------------------
SessionsOf(u) == {s \in Sessions : owner[s] = u}

Goto(w, p) == pc' = [pc EXCEPT ![w] = p]

\* The handler is over: its locals are gone.
Return(w) == Goto(w, "idle") /\ req' = [req EXCEPT ![w] = NoRequest]

\* A request arrives, the first call is made with locals r, p is awaited next.
Begin(w, r, p) ==
  /\ pc[w] = "idle"
  /\ req' = [req EXCEPT ![w] = r]
  /\ Goto(w, p)

Locals(op, u, s, t, new, c) ==
  [op |-> op, user |-> u, sess |-> s, tok |-> t, new |-> new, client |-> c,
   seen |-> IF op \in {"replay", "reuse", "revokeAll"} THEN SessionsOf(u) ELSE {}]

\* randomBytes(32); MaxToken bounds the model, not the program.
FreshToken == next <= MaxToken /\ next' = next + 1

Emit(type, of) == outbox' = outbox \union {<<type, of>>}

-----------------------------------------------------------------------------
(* issueTokensAndSession, once the caller has authenticated user u.        *)

CreateSession(w, u, s, c) ==
  /\ owner[s] = NoUser
  /\ FreshToken
  /\ owner' = [owner EXCEPT ![s] = u]
  /\ hash' = [hash EXCEPT ![s] = next]
  /\ Begin(w, Locals("issue", u, s, 0, next, c),
           IF c = NoClient THEN "emitCreated" ELSE "access")
  /\ UNCHANGED <<revoked, access, audited, outbox, known, spent, aborts>>

EmitCreated(w) ==
  /\ pc[w] = "emitCreated"
  /\ Emit("SessionCreated", req[w].sess)
  /\ Goto(w, "respond")
  /\ UNCHANGED <<owner, hash, revoked, access, audited, next, known, spent, req, aborts>>

\* The answer reaches the client, which now has the new refresh token.
Respond(w) ==
  /\ pc[w] = "respond"
  /\ known' = known \union {<<req[w].sess, req[w].new>>}
  /\ Return(w)
  /\ UNCHANGED <<rows, next, spent, aborts>>

-----------------------------------------------------------------------------
(* refresh.  The session id finds the row, whatever value comes with it.   *)

\* What may be presented for s: a token some client was given, perhaps long ago, or
\* any other value.
Presented(s) == {t \in Tokens : <<s, t>> \in known} \union {Unissued}

(* Definitions named Slip... are plausible mistakes in the definition that   *)
(* follows; no action uses them, the checks put them in its place.           *)

\* The comparison of the hashes is the wrong way round.
SlipRefresh(w, s, t, c) ==
  /\ owner[s] # NoUser /\ t \in Presented(s) /\ ~revoked[s]
  /\ \/ hash[s] = t /\ Begin(w, Locals("reuse", owner[s], s, t, 0, NoClient), "revokeOne") /\ UNCHANGED next
     \/ hash[s] # t /\ FreshToken /\ Begin(w, Locals("rotate", owner[s], s, t, next, c), "rotate")
  /\ UNCHANGED <<rows, known, spent, aborts>>

\* findUnique, and the decisions taken on the row it returned.  A token that
\* matches makes the handler generate its successor.
Refresh(w, s, t, c) ==
  /\ owner[s] # NoUser /\ t \in Presented(s)
  /\ \/ /\ revoked[s]
        /\ Begin(w, Locals("replay", owner[s], s, Unissued, 0, NoClient), "revokeAll")
        /\ UNCHANGED next
     \/ /\ ~revoked[s] /\ hash[s] # t
        /\ Begin(w, Locals("reuse", owner[s], s, t, 0, NoClient), "revokeOne")
        /\ UNCHANGED next
     \/ /\ ~revoked[s] /\ hash[s] = t
        /\ FreshToken
        /\ Begin(w, Locals("rotate", owner[s], s, t, next, c), "rotate")
  /\ UNCHANGED <<rows, known, spent, aborts>>

\* The update renews the whole row, revokedAt included.
SlipRenews(w) ==
  /\ pc[w] = "rotate"
  /\ hash' = [hash EXCEPT ![req[w].sess] = req[w].new]
  /\ revoked' = [revoked EXCEPT ![req[w].sess] = FALSE]
  /\ spent' = spent \union {hash[req[w].sess]}
  /\ Goto(w, "respond")
  /\ UNCHANGED <<owner, access, audited, outbox, next, known, req, aborts>>

\* The update that stores the new hash, whatever the row holds by now.
Rotate(w) ==
  /\ pc[w] = "rotate"
  /\ hash' = [hash EXCEPT ![req[w].sess] = req[w].new]
  /\ spent' = spent \union {hash[req[w].sess]}
  /\ Goto(w, IF req[w].client = NoClient THEN "respond" ELSE "findAccess")
  /\ UNCHANGED <<owner, revoked, access, audited, outbox, next, known, req, aborts>>

\* Reuse: this session first, ...
RevokeOne(w) ==
  /\ pc[w] = "revokeOne"
  /\ revoked' = [revoked EXCEPT ![req[w].sess] = TRUE]
  /\ Goto(w, IF req[w].op = "reuse" THEN "revokeAll" ELSE "emitRevoked")
  /\ UNCHANGED <<owner, hash, access, audited, outbox, next, known, spent, req, aborts>>

\* One row is updated where all of the user's should be.
SlipRevokeAll(w) ==
  /\ pc[w] = "revokeAll"
  /\ revoked' = [s \in Sessions |-> revoked[s] \/ s = req[w].sess]
  /\ Goto(w, "emitAll")
  /\ UNCHANGED <<owner, hash, access, audited, outbox, next, known, spent, req, aborts>>

\* ... then the updateMany of revokeAllUserSessions, on the rows there are now.
RevokeAll(w) ==
  /\ pc[w] = "revokeAll"
  /\ revoked' = [s \in Sessions |-> revoked[s] \/ owner[s] = req[w].user]
  /\ Goto(w, "emitAll")
  /\ UNCHANGED <<owner, hash, access, audited, outbox, next, known, spent, req, aborts>>

\* SessionRevoked, the end of revoke and of revokeSpecificSession.
EmitRevoked(w) ==
  /\ pc[w] = "emitRevoked"
  /\ Emit("SessionRevoked", req[w].sess)
  /\ Return(w)
  /\ UNCHANGED <<owner, hash, revoked, access, audited, next, known, spent, aborts>>

\* AllSessionsRevoked; for a reuse the alarm comes next.
EmitAll(w) ==
  /\ pc[w] = "emitAll"
  /\ Emit("AllSessionsRevoked", req[w].user)
  /\ IF req[w].op = "reuse" THEN Goto(w, "emitHijack") /\ UNCHANGED req ELSE Return(w)
  /\ UNCHANGED <<owner, hash, revoked, access, audited, next, known, spent, aborts>>

\* ... and the 401.
EmitHijack(w) ==
  /\ pc[w] = "emitHijack"
  /\ Emit("SessionHijackDetected", req[w].sess)
  /\ Return(w)
  /\ UNCHANGED <<owner, hash, revoked, access, audited, next, known, spent, aborts>>

-----------------------------------------------------------------------------
(* Access of an app client, recorded by issue, refresh and recordSsoConsent.*)

\* findUnique: nothing to do when the access is already recorded.
FindAccess(w) ==
  /\ pc[w] = "findAccess"
  /\ IF req[w].client \notin access[req[w].sess] THEN Goto(w, "access") /\ UNCHANGED req
     ELSE IF req[w].op = "rotate" THEN Goto(w, "respond") /\ UNCHANGED req
     ELSE Return(w)
  /\ UNCHANGED <<rows, next, known, spent, aborts>>

\* The row is unique: a second create throws and the handler ends in a 500,
\* after what it has already written.
CreateAccess(w) ==
  /\ pc[w] = "access"
  /\ LET s == req[w].sess
         c == req[w].client
     IN \/ c \in access[s] /\ Return(w) /\ UNCHANGED access
        \/ /\ c \notin access[s]
           /\ access' = [access EXCEPT ![s] = @ \union {c}]
           /\ Goto(w, "audit") /\ UNCHANGED req
  /\ UNCHANGED <<owner, hash, revoked, audited, outbox, next, known, spent, aborts>>

AuditAccess(w) ==
  /\ pc[w] = "audit"
  /\ audited' = [audited EXCEPT ![req[w].sess] = @ \union {req[w].client}]
  /\ \/ req[w].op = "issue" /\ Goto(w, "emitCreated") /\ UNCHANGED req
     \/ req[w].op = "rotate" /\ Goto(w, "respond") /\ UNCHANGED req
     \/ req[w].op = "consent" /\ Return(w)
  /\ UNCHANGED <<owner, hash, revoked, access, outbox, next, known, spent, aborts>>

\* recordSsoConsent: the session exists, is the user's own and not revoked.
Consent(w, s, c) ==
  /\ owner[s] # NoUser /\ ~revoked[s]
  /\ Begin(w, Locals("consent", owner[s], s, 0, 0, c), "findAccess")
  /\ UNCHANGED <<rows, next, known, spent, aborts>>

-----------------------------------------------------------------------------
(* The ways to revoke.                                                     *)

\* The event is written first and the update forgotten.
SlipRevoke(w, s) ==
  /\ owner[s] # NoUser
  /\ Begin(w, Locals("revoke", owner[s], s, 0, 0, NoClient), "emitRevoked")
  /\ UNCHANGED <<rows, next, known, spent, aborts>>

\* revoke(refreshToken), the logout: only the session id of the token is used.
\* revokeSpecificSession reads the row first, but only to compare its owner,
\* which never changes; both then update and emit.
Revoke(w, s) ==
  /\ owner[s] # NoUser
  /\ Begin(w, Locals("revoke", owner[s], s, 0, 0, NoClient), "revokeOne")
  /\ UNCHANGED <<rows, next, known, spent, aborts>>

\* DELETE sessions/all.
RevokeAllSessions(w, u) ==
  /\ Begin(w, Locals("revokeAll", u, NoSession, 0, 0, NoClient), "revokeAll")
  /\ UNCHANGED <<rows, next, known, spent, aborts>>

\* The admin console revokes a row; AdminService writes no event.
AdminRevoke(s) ==
  /\ owner[s] # NoUser
  /\ revoked' = [revoked EXCEPT ![s] = TRUE]
  /\ UNCHANGED <<owner, hash, access, audited, outbox, next, known, spent, pc, req, aborts>>

\* The process dies, or the next awaited call throws: the handler ends where it
\* is, what it has written stays.  At "respond" the answer is lost.
Abort(w) ==
  /\ pc[w] # "idle"
  /\ aborts < MaxAborts
  /\ aborts' = aborts + 1
  /\ Return(w)
  /\ UNCHANGED <<rows, next, known, spent>>

-----------------------------------------------------------------------------
Arrive(w) ==
  \/ \E u \in Users, s \in Sessions, c \in Clients \union {NoClient} : CreateSession(w, u, s, c)
  \/ \E s \in Sessions, c \in Clients \union {NoClient} :
       \E t \in Tokens \union {Unissued} : Refresh(w, s, t, c)
  \/ \E s \in Sessions, c \in Clients : Consent(w, s, c)
  \/ \E s \in Sessions : Revoke(w, s)
  \/ \E u \in Users : RevokeAllSessions(w, u)

Continue(w) ==
  \/ EmitCreated(w)
  \/ Respond(w)
  \/ Rotate(w)
  \/ RevokeOne(w)
  \/ RevokeAll(w)
  \/ EmitRevoked(w)
  \/ EmitAll(w)
  \/ EmitHijack(w)
  \/ FindAccess(w)
  \/ CreateAccess(w)
  \/ AuditAccess(w)

Next ==
  \/ \E w \in Workers : Arrive(w)
  \/ \E w \in Workers : Continue(w)
  \/ \E w \in Workers : Abort(w)
  \/ \E s \in Sessions : AdminRevoke(s)

Spec == Init /\ [][Next]_vars

\* Awaited calls return; nobody is obliged to send a request.
Fairness == \A w \in Workers : WF_vars(Continue(w))

FairSpec == Spec /\ Fairness

-----------------------------------------------------------------------------
(* What makes sessions correct.                                            *)

\* Everything the server announced to the outside is true in the database, in
\* every interleaving: no handler emits before it has written.
AnnouncedIsTrue ==
  \A s \in Sessions :
    /\ <<"SessionCreated", s>> \in outbox => owner[s] # NoUser
    /\ <<"SessionRevoked", s>> \in outbox => revoked[s]
    /\ <<"SessionHijackDetected", s>> \in outbox => revoked[s]
    /\ audited[s] \subseteq access[s]

\* When the server reports that all sessions of a user were terminated, none of
\* those the user had when the request was read is alive, although the session
\* itself and the others are revoked by two statements and sessions open and
\* rotate in between.
TerminatedMeansAll ==
  \A w \in Workers :
    pc[w] \in {"emitAll", "emitHijack"} => \A s \in req[w].seen : revoked[s]

\* No client holds a token the server never stored: each is the one the row
\* holds now, or one that was rotated away.
KnownTokensWereStored ==
  \A p \in known : p[2] = hash[p[1]] \/ p[2] \in spent

\* The reuse branch is entered only with a token that another refresh has rotated
\* away or with a value that never was a token of the session (the code tells the two
\* apart nowhere): whatever is in flight, a client's current token raises no alarm.
AlarmMeansReuse ==
  \A w \in Workers :
    pc[w] # "idle" /\ req[w].op = "reuse" => req[w].tok \in spent \union {Unissued}

\* A refresh stores its new hash over the hash of the token it was given, so one
\* token is honoured once ("strict RTR").
HonouredOnce ==
  [][\A w \in Workers : Rotate(w) => hash[req[w].sess] = req[w].tok]_vars

\* What the rows mean to the holder of a token.
Opened == {s \in Sessions : owner[s] # NoUser}
Closed == {s \in Sessions : revoked[s]}
Valid  == [s \in Sessions |-> IF revoked[s] THEN 0 ELSE hash[s]]
Used   == {t \in Tokens : t \in spent \/ \E s \in Sessions : hash[s] = t}

Contract == INSTANCE SessionContract
  WITH NoToken <- 0, opened <- Opened, closed <- Closed, valid <- Valid, used <- Used

\* At most one token opens a session, a token that stopped being valid never is
\* valid again, and a session that was closed stays closed, whichever handlers
\* are in flight: rotation and revocation implement SessionContract.
ImplementsContract == Contract!Spec
=============================================================================
