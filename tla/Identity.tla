------------------------------ MODULE Identity ------------------------------
(***************************************************************************)
(* Who a tenant's users are: registration and just-in-time migration       *)
(* (user.service.ts), federated sign-in (federation.service.ts) and        *)
(* password sign-in (session.service.ts), statement by statement.          *)
(*                                                                         *)
(* A worker is a request in flight.  A request whose first read refuses it *)
(* changes nothing and is no step.  A unique key that is violated makes a  *)
(* create throw: the request ends in a 500, what it wrote before stays.    *)
(* Opening the session is one step here; Session has its own.              *)
(***************************************************************************)
EXTENDS Naturals, FiniteSets

CONSTANTS
  MaxUsers,       \* bound: how many rows table users may get
  Mails, Names,   \* e-mail addresses and usernames
  LocalPart,      \* email.split('@')[0]
  Subjects,       \* the accounts at identity providers, <<provider, subject>>
  ProfileMail,    \* the e-mail address in their profiles
  Passwords,
  LegacyAccepts,  \* the passwords the legacy system's webhook accepts
  Workers, None,
  MaxRequests,    \* bound: how many requests a behaviour has
  MaxAborts       \* bound: how many of them die half-way

ASSUME IdentityAssumption ==
  /\ None \notin Nat \union Mails \union Names \union Passwords \union Subjects
  /\ "password" \notin Subjects \union {None}
  /\ LocalPart \in [Mails -> Names]
  /\ ProfileMail \in [Subjects -> Mails]
  /\ LegacyAccepts \subseteq Passwords
  /\ MaxUsers \in Nat /\ MaxRequests \in Nat /\ MaxAborts \in Nat

VARIABLES
  mail, name, hash,  \* the columns email, username and passwordHash
  migration,         \* migrationStatus; "absent" while there is no row
  locked,            \* the users with status LOCKED
  link,              \* user_federations: the user of each subject
  events,            \* the outbox
  opened,            \* <<user, means>>: the sessions opened, and by what
  pc, req,           \* the call each request awaits, and its locals
  started, aborts,
  graced             \* ghost: the requests in flight when a user was locked

\* Rows are numbered as they are created.
Users == 1..MaxUsers

userRows == <<mail, name, hash, migration>>
tables == <<userRows, locked, link, events, opened>>
idVars == <<tables, pc, req, started, aborts, graced>>

Absent == {u \in Users : migration[u] = "absent"}
Rows == Users \ Absent

\* The locals of a request: what it runs, the user it works on, and its input.
Blank ==
  [op |-> "none", user |-> None, mail |-> None, name |-> None, pw |-> None, by |-> None]

IdInit ==
  /\ mail = [u \in Users |-> None] /\ name = [u \in Users |-> None]
  /\ hash = [u \in Users |-> None]
  /\ migration = [u \in Users |-> "absent"]
  /\ locked = {}
  /\ link = [s \in Subjects |-> None]
  /\ events = {} /\ opened = {}
  /\ pc = [w \in Workers |-> "idle"]
  /\ req = [w \in Workers |-> Blank]
  /\ started = 0 /\ aborts = 0
  /\ graced = {}

-----------------------------------------------------------------------------
Goto(w, p) == pc' = [pc EXCEPT ![w] = p]

\* The answer, whichever: the locals are gone.
Return(w) == Goto(w, "idle") /\ req' = [req EXCEPT ![w] = Blank] /\ graced' = graced \ {w}

Stay == UNCHANGED <<started, aborts, graced>>

\* Users bounds the model: what may create a row starts while one is left.
RoomForUser ==
  Cardinality(Rows) + Cardinality({w \in Workers : req[w].op \in {"register", "callback"}})
    < MaxUsers

\* A request with locals r arrives and gets to its call p.
Begin(w, r, p) ==
  /\ pc[w] = "idle"
  /\ started < MaxRequests /\ started' = started + 1
  /\ req' = [req EXCEPT ![w] = r]
  /\ Goto(w, p)
  /\ UNCHANGED <<aborts, graced>>

\* findFirst({ OR: [{ email }, { username }] }), which may be two rows.
Called(id) == {u \in Rows : mail[u] = id \/ name[u] = id}

\* The unique keys (tenant, email) and (tenant, username); null is no value.
MailTaken(m) == m # None /\ \E u \in Rows : mail[u] = m
NameTaken(n) == n # None /\ \E u \in Rows : name[u] = n

\* user.create adds row u with password p and migration status g.
NextUser == Cardinality(Rows) + 1

Create(u, m, n, p, g) ==
  /\ u \in Users /\ u = NextUser
  /\ mail' = [mail EXCEPT ![u] = m] /\ name' = [name EXCEPT ![u] = n]
  /\ hash' = [hash EXCEPT ![u] = p]
  /\ migration' = [migration EXCEPT ![u] = g]

Emit(type, u) == events' = events \union {<<type, u>>}

\* runArgonWorker: the worker's first message, error or bad exit settles the
\* promise; the request goes on to p, or ends in a 500.
Argon(w, p) ==
  /\ \/ Goto(w, p) /\ UNCHANGED <<req, graced>>
     \/ Return(w)
  /\ UNCHANGED <<tables, started, aborts>>

-----------------------------------------------------------------------------
(* Registration.                                                           *)

Register(w, m, n, p) ==
  /\ RoomForUser /\ ~MailTaken(m)
  /\ Begin(w, [Blank EXCEPT !.op = "register", !.mail = m, !.name = n, !.pw = p],
           IF n # None THEN "checkName" ELSE IF p # None THEN "hash" ELSE "register")
  /\ UNCHANGED tables

CheckName(w) ==
  /\ pc[w] = "checkName"
  /\ IF NameTaken(req[w].name) THEN Return(w)
     ELSE Goto(w, IF req[w].pw # None THEN "hash" ELSE "register") /\ UNCHANGED <<req, graced>>
  /\ UNCHANGED <<tables, started, aborts>>

HashPassword(w) ==
  /\ pc[w] = "hash"
  /\ Argon(w, IF req[w].op = "register" THEN "register" ELSE "migrate")

(* Definitions named Slip... are plausible mistakes in the definition that   *)
(* follows; no action uses them, the checks put them in its place.           *)

\* The event is written outside the transaction, with whatever id comes to hand.
SlipCreateUser(w) ==
  /\ pc[w] = "register"
  /\ \E u \in Users : u = NextUser /\
       IF MailTaken(req[w].mail) \/ NameTaken(req[w].name)
       THEN Emit("UserCreated", u) /\ UNCHANGED userRows
       ELSE Create(u, req[w].mail, req[w].name, req[w].pw, "active") /\ Emit("UserCreated", u)
  /\ Return(w)
  /\ UNCHANGED <<locked, link, opened, started, aborts>>

\* The transaction: the row and its event, or neither.
CreateUser(w) ==
  /\ pc[w] = "register"
  /\ IF MailTaken(req[w].mail) \/ NameTaken(req[w].name) THEN UNCHANGED <<userRows, events>>
     ELSE \E u \in Users :
            Create(u, req[w].mail, req[w].name, req[w].pw, "active") /\ Emit("UserCreated", u)
  /\ Return(w)
  /\ UNCHANGED <<locked, link, opened, started, aborts>>

-----------------------------------------------------------------------------
(* Just-in-time migration.                                                 *)

\* Rows of the old system are imported, with an e-mail and no hash, before the
\* service is opened.
Import(u, m) ==
  /\ started = 0 /\ ~MailTaken(m)
  /\ Create(u, m, None, None, "legacy")
  /\ UNCHANGED <<locked, link, events, opened, pc, req, started, aborts, graced>>

\* verifyCredentials; a user who is not legacy is verified without a change.
VerifyCredentials(w, u, id, p) ==
  /\ u \in Called(id)
  /\ migration[u] = "legacy" /\ p \in LegacyAccepts
  /\ Begin(w, [Blank EXCEPT !.op = "verify", !.user = u, !.pw = p], "hash")
  /\ UNCHANGED tables

Migrate(w) ==
  /\ pc[w] = "migrate"
  /\ hash' = [hash EXCEPT ![req[w].user] = req[w].pw]
  /\ migration' = [migration EXCEPT ![req[w].user] = "migrated"]
  /\ Goto(w, "emitMigrated")
  /\ UNCHANGED <<mail, name, locked, link, events, opened, req>> /\ Stay

EmitMigrated(w) ==
  /\ pc[w] = "emitMigrated"
  /\ Emit("UserMigrated", req[w].user)
  /\ Return(w)
  /\ UNCHANGED <<userRows, locked, link, opened, started, aborts>>

-----------------------------------------------------------------------------
(* Federated sign-in.                                                      *)

\* The link is looked up by its provider alone.
SlipCallback(w, s) ==
  /\ RoomForUser
  /\ \E t \in Subjects :
       Begin(w, [Blank EXCEPT !.op = "callback", !.user = link[t], !.mail = ProfileMail[s],
                              !.name = LocalPart[ProfileMail[s]], !.by = s],
             IF link[t] = None THEN "findMail" ELSE "open")
  /\ UNCHANGED tables

\* handleCallback once the code has been exchanged for the profile of s.
Callback(w, s) ==
  /\ RoomForUser
  /\ Begin(w, [Blank EXCEPT !.op = "callback", !.user = link[s], !.mail = ProfileMail[s],
                            !.name = LocalPart[ProfileMail[s]], !.by = s],
           IF link[s] = None THEN "findMail" ELSE "open")
  /\ UNCHANGED tables

\* The user that was found is not kept.
SlipFindMail(w) ==
  /\ pc[w] = "findMail"
  /\ Goto(w, IF MailTaken(req[w].mail) THEN "link" ELSE "provision")
  /\ UNCHANGED <<tables, req>> /\ Stay

FindMail(w) ==
  /\ pc[w] = "findMail"
  /\ IF MailTaken(req[w].mail)
     THEN /\ Goto(w, "link")
          /\ \E u \in Rows : mail[u] = req[w].mail /\ req' = [req EXCEPT ![w].user = u]
     ELSE Goto(w, "provision") /\ UNCHANGED req
  /\ UNCHANGED tables /\ Stay

\* JIT provisioning: the local part of the e-mail becomes the username, taken
\* or not; no event.
Provision(w) ==
  /\ pc[w] = "provision"
  /\ IF MailTaken(req[w].mail) \/ NameTaken(req[w].name)
     THEN Return(w) /\ UNCHANGED userRows
     ELSE /\ \E u \in Users : /\ Create(u, req[w].mail, req[w].name, None, "active")
                              /\ req' = [req EXCEPT ![w].user = u]
          /\ Goto(w, "link") /\ UNCHANGED graced
  /\ UNCHANGED <<locked, link, events, opened, started, aborts>>

\* userFederation.create, unique for (tenant, provider, subject).
CreateLink(w) ==
  /\ pc[w] = "link"
  /\ IF link[req[w].by] # None THEN Return(w) /\ UNCHANGED link
     ELSE /\ link' = [link EXCEPT ![req[w].by] = req[w].user]
          /\ Goto(w, "open") /\ UNCHANGED <<req, graced>>
  /\ UNCHANGED <<userRows, locked, events, opened, started, aborts>>

-----------------------------------------------------------------------------
(* Password sign-in, and the session every way in ends with.               *)

\* The status is not read.
SlipLogin(w, u, id, p) ==
  /\ u \in Called(id)
  /\ migration[u] = "legacy" \/ hash[u] # None
  /\ Begin(w, [Blank EXCEPT !.op = "login", !.user = u, !.pw = p, !.by = "password"],
           IF migration[u] = "legacy" THEN "open" ELSE "verify")
  /\ migration[u] = "legacy" => p \in LegacyAccepts
  /\ UNCHANGED tables

\* SessionService.login: a legacy password is accepted but not migrated.
Login(w, u, id, p) ==
  /\ u \in Called(id) \ locked
  /\ IF migration[u] = "legacy" THEN p \in LegacyAccepts ELSE hash[u] = p
  /\ Begin(w, [Blank EXCEPT !.op = "login", !.user = u, !.pw = p, !.by = "password"],
           IF migration[u] = "legacy" THEN "open" ELSE "verify")
  /\ UNCHANGED tables

VerifyPassword(w) == pc[w] = "verify" /\ Argon(w, "open")

\* createSessionForUser, whatever the user's status.
Open(w) ==
  /\ pc[w] = "open"
  /\ opened' = opened \union {<<req[w].user, req[w].by>>}
  /\ Return(w)
  /\ UNCHANGED <<userRows, locked, link, events, started, aborts>>

\* The threat-detection job locks a user.
Lock(u) ==
  /\ u \in Rows \ locked
  /\ locked' = locked \union {u}
  /\ graced' = graced \union {w \in Workers : req[w].user = u}
  /\ UNCHANGED <<userRows, link, events, opened, pc, req, started, aborts>>

\* The process dies, or the next statement throws.
Abort(w) ==
  /\ pc[w] # "idle"
  /\ aborts < MaxAborts /\ aborts' = aborts + 1
  /\ Return(w)
  /\ UNCHANGED <<tables, started>>

-----------------------------------------------------------------------------
IdArrive(w) ==
  \/ \E m \in Mails \union {None}, n \in Names \union {None}, p \in Passwords \union {None} :
       Register(w, m, n, p)
  \/ \E u \in Users, id \in Mails \union Names, p \in Passwords :
       VerifyCredentials(w, u, id, p) \/ Login(w, u, id, p)
  \/ \E s \in Subjects : Callback(w, s)

IdContinue(w) ==
  \/ CheckName(w)
  \/ HashPassword(w)
  \/ CreateUser(w)
  \/ Migrate(w)
  \/ EmitMigrated(w)
  \/ FindMail(w)
  \/ Provision(w)
  \/ CreateLink(w)
  \/ VerifyPassword(w)
  \/ Open(w)

IdNext ==
  \/ \E w \in Workers : IdArrive(w)
  \/ \E w \in Workers : IdContinue(w)
  \/ \E w \in Workers : Abort(w)
  \/ \E u \in Users, m \in Mails : Import(u, m)
  \/ \E u \in Users : Lock(u)

IdSpec == IdInit /\ [][IdNext]_idVars /\ \A w \in Workers : WF_idVars(IdContinue(w))

-----------------------------------------------------------------------------
(* What makes identities correct.                                          *)

\* What the outbox says of users is so: a UserCreated names a row (they are one
\* transaction), a UserMigrated a row that holds a hash of a password the legacy
\* system accepted, however many requests migrate it at once.
UserEventsAreTrue ==
  \A u \in Users :
    /\ <<"UserCreated", u>> \in events => migration[u] = "active"
    /\ <<"UserMigrated", u>> \in events => migration[u] = "migrated" /\ hash[u] \in LegacyAccepts

\* A session opened with an account of a provider belongs to the user linked to
\* it, and to the owner of its e-mail address, whichever callbacks and
\* registrations for this address ran at the same time.
FederatedSessionIsLinked ==
  \A p \in opened : p[2] \in Subjects => link[p[2]] = p[1] /\ mail[p[1]] = ProfileMail[p[2]]

\* Once a user is locked only the password sign-ins that were under way can
\* still open a session.
LockStopsPasswords ==
  \A w \in Workers : req[w].by = "password" /\ req[w].user \in locked => w \in graced
=============================================================================
