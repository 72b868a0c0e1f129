# KavachID in TLA+

KavachID is a multi-tenant identity server (NestJS and Prisma over PostgreSQL, `src/src`) with a
browser SDK (`src/sdks/kavach-web`), a Kubernetes operator (`src/kubernetes/operator`), an admin
console and a few stub SDKs.  This directory holds TLA+ models of its stateful parts, the TLC
configurations that check them on small instances, and proofs, checked by TLAPS, of what holds for
every instance.  Paths below are relative to the repository, line numbers are in `PROJECT.json`.

## 1. Inventory

Everything below runs as asynchronous handlers in one or more Node processes ("replicas"; the Helm
chart has a `replicaCount`).  Handlers share nothing but the database, and almost every handler is
a sequence of single awaited statements without a transaction around them.  This is where the
hard behaviour of the system lies: what a handler has read may be stale when it writes, and it may
die between two statements.

| Component | State | Operations | Talks to | Hard behaviour | Correct when |
|---|---|---|---|---|---|
| Transactional outbox (`modules/outbox`) | `outbox_events`; per process `isPolling` and a 5 s interval | `createEvent`, `processOutbox` | every component that emits events; the webhook receiver | several pollers, stale `retryCount`, backoff, timeouts, crashes | processed ⇒ delivered; failed ⇒ tried `MaxRetries` times; settled rows stay settled; each row is settled; older rows are tried first unless committed late; polls end |
| Sessions (`modules/session/session.service.ts`) | `sessions`, `session_app_access` | `issueTokensAndSession`, `refresh`, `recordSsoConsent`, `revoke`, `revokeSpecificSession`, `revokeAllUserSessions` | outbox, audit log, signing keys; called by login, passkeys, federation | read-compare-write rotation, reuse handling in several statements | a token is honoured once, a closed session stays closed, alarms are true and complete |
| Browser SDK (`sdks/kavach-web/src/index.ts`, `storage.ts`) | two storage items, the DPoP key | `login`, `refresh`, `logout`, `authenticatedFetch`, `revokeSession`, `logoutAll`, `registerPasskey`, `loginWithPasskey` | session endpoints | parallel calls over shared storage, lost answers, silent refresh | the client never trips the reuse alarm itself; storage holds the current pair; promises settle; logging out everywhere does |
| Rate limiter (`modules/database/prisma-throttler.storage.ts`) | `rate_limits` | `increment` | the guard of `@nestjs/throttler` | delete, upsert, decide and reset are separate statements of concurrent requests | a burst stays within the limit, nobody is blocked by an expired row |
| Signing keys (`modules/keypair`) | `key_pairs` | `getActiveKeyPair`, `rotateKeys`, `getPublicJwks` | sessions, AuthGuard | rotation in two statements, several handlers finding no key, ten published keys, rotations without a limit | a token that is alive can be verified until rotations crowd its key out |
| Token verification (`modules/auth/auth.guard.ts`, `session.controller.ts:resolveUserId`) | – | `canActivate`, `resolveUserId`, `getProfile` | signing keys, sessions | tokens signed by demoted keys, two ways to find the key | a live token is refused only once a newer key is in use |
| Login and threat detection (`session.service.ts:22-81`, `modules/threat-detection`) | `login_attempts`, `users.status` | `login`, `logAttempt`, the cron job | outbox, audit log | runs overlap, act on old groups, one failing group ends a run, an identifier may name two users | no lock without cause, no false alert, a burst locks somebody it names |
| Kubernetes operator (`kubernetes/operator`) | the resource's status, `tenants`, users | `watchTenants`, `reconcile`, `updateStatus` | Kubernetes, database, `users/register` | unserialised handlers, three systems per reconciliation, watches that end, a CRD that refuses status updates | the tenant the status names is complete; a tenant is provisioned; the resource becomes Active where its status can be written |
| Users, legacy migration (`modules/user`) | `users` | `register`, `verifyCredentials` | outbox, legacy webhook, Argon2 workers | check-then-create; hash and event of a migration are two statements | events about users are true |
| Federation (`modules/federation`) | `user_federations` | callback: find link, else user, else create both, then a session | users, sessions | four statements, two callbacks for one new user | the session belongs to the linked user |
| Passkeys (`session/webauthn.service.ts`) | `passkey_credentials`, one challenge slot per user | options and verification, for registration and sign-in | sessions, browser SDK | options asked for twice, an answer delivered twice, challenge cleared last, ids encoded twice | what was verified is stored; a retired challenge stays retired |
| Roles and permissions (`modules/role`, `auth/permissions.guard.ts`) | `roles`, `permissions`, `role_permissions`, `user_roles` | create, assign, guard, the admin's revocation | audit log | check-then-create, a guard of two queries, a catch-all 409 | only entitled admins end sessions; a 409 is true |
| Shield engine (`modules/kse`, the middleware in `sdks`) | `devices`, `user_risk_profiles`, `policy_rules` | evaluation, enforcement | sign-in, audit log | three queries, `findFirst` without an order, two rows for a device | what passes was tolerated by a rule |
| Audit log (`modules/audit-log`) | `audit_logs` | interceptor | all | written beside the answer, failure swallowed | an entry is true; what was answered as done has one unless a fault struck |
| Argon2 workers, DPoP (`modules/crypto`, `sdks/kavach-web/src/dpop.ts`) | a worker thread per call; a key shared by a page's calls | `runArgonWorker`, `ensureKey`, `createProof`, `verifyDpop` | users; SDK | message, error and exit events; parallel first calls, exports that complete in any order | header and signature of proofs are of one key unless an export overtook |
| Admin API and console, tenant context, schema, configuration, other SDKs and samples, deployment | – | – | – | – | no protocol of their own |

The hazards, each at its line, are listed in `PROJECT.json` with the properties that watch them.
One has none: nothing can be promised of passkey sign-ins, which never succeed (section 4).

## 2. Modules

    Outbox ──implements──> OutboxContract                    (while polls do not overlap)
    WebClient ──EXTENDS──> Session ──implements──> SessionContract
    Passkey ──EXTENDS──> Identity, DpopKey                   (accounts)
    Access  ──EXTENDS──> Rbac, Shield ──EXTENDS──> Audit     (authorisation)
    RateLimit     KeyPair (with AuthGuard)     ThreatDetection (with login)     Operator

`MC…` modules give definitions to constants and symmetry sets or nothing at all and are the roots
of the runs; `…Proofs` modules EXTEND the component and hold its theorems (LoginGuardsProofs those
of RateLimit and ThreatDetection, whose variables are apart).

Conventions shared by all modules:

- **One step per awaited statement.**  JavaScript is not interrupted between two `await`s, so the
  code between them is one atomic action; everything else may happen at an `await`.  A handler's
  place is `pc` (or a field `at`), its local variables are kept however stale they become.
- **Workers are requests under way** in any process, so replicas need no variable of their own
  except in Outbox, whose `isPolling` and timer are per process.
- **Time** is either relative and saturating (Outbox, ThreatDetection) or a small bounded clock
  (RateLimit, KeyPair), and advances only where an `await` may take that long.
- **Data** is reduced to what the properties tell apart: a refresh token is a number from a counter
  (32 random bytes do not repeat), its hash is the number itself (hashes are only compared); an
  access token is named by the pair it was issued with; a key by the rank of its `createdAt`.
- **Faults** (a statement that throws, an answer that is lost, a process that dies) are actions,
  bounded by `MaxFaults`, `MaxAborts` or `MaxLost`, never forced by fairness.
- **A request refused by its first read** changes nothing and is no step.  A violated unique key makes
  `create` throw: the request is over, what it wrote before stays.
- Every constant named `Max…` that is not one of the source's parameters is a bound of the model
  and says so where it is declared.
- **One tenant**: no modelled query crosses tenants.
- A definition named `Slip…` is a plausible mistake in the definition that follows it.  No action
  uses it; it shows, when put in that definition's place, that a property would notice.

### Outbox

`status`, `retryCount`, `seq` are columns of the rows (`seq` is the rank in `createdAt` order),
`age` the time since `createdAt`.  `pc[r] = "idle"` is `isPolling = false`; `batch`, `snap`, `event`
are the eligible events the loop has still to visit, their `retryCount` as `findMany` returned it,
and the loop variable.  `Poll` is the timer's callback up to the first POST: the query for the
`BatchSize` oldest pending rows, then the backoff filter.  `Post` is the axios call with either
outcome, `Ack` the acknowledging update, `Nack` the catch block.  `PollFails`, `AckFails` and
`NackFails` are the statements that throw (with `LostDbAcks`, after having been committed); the
failure of the catch block leaves the whole loop.  `Crash` loses the process and its locals.
`attempts` and `delivered` describe the receiver.  `createEvent` runs in its caller's transaction, so
a row takes two steps: `Insert` gives it its `createdAt`, `Commit` makes it visible to queries
(`status` is `none` until then), and rows may be committed in another order than they were
inserted, or never.  `missed` is a ghost: the younger events some poll had taken up when the row
became visible.

### Session and SessionContract

`owner`, `hash`, `revoked`, `access` are the columns of `sessions` and `session_app_access`,
`outbox` and `audited` what was emitted, `known` the tokens clients were given, `spent` (a ghost)
those rotated away.  `CreateSession`, `Refresh`, `Consent`, `Revoke`, `RevokeAllSessions` are the
first statement of a handler and the decision it leads to (the reuse branches of `refresh`
included); the other actions are the statements after it, shared by the handlers that execute the
same ones.  `AdminRevoke` is the console's update.  A refresh finds its row by the session id alone,
so besides the tokens clients were given (`known`) any other value may come with the id of a
session (`Unissued` stands for all of them); it takes the branch of reuse like a replaced token
does.  An id of no session is answered 401 and is no step.
DPoP binding is left out, device rows likewise.  A session row may be created for any user: the
ways to get there (password, passkey, federation) are other components.

SessionContract is the holder's view: a session is opened once, has one valid token at a time, no
token becomes valid twice, and closing is final.  `Opened`, `Closed`, `Valid` and `Used` map the
rows to it.

### WebClient

Composes the SDK with Session: a call of the SDK has at most one request at the server, so calls
and Session's workers are one set and `ServerStep` is a step of Session's `Continue`.
`accessItem` and `refreshItem` are the two storage items; writing them are two awaits and two steps.
`kind`, `at`, `got` are the method, the place and the token in the hands of a call.  `NetworkFails`
is a request that never arrives, `HandlerDies` a handler that ends half-way or an answer that is
lost, `Expire` the end of an access token's 15 minutes.  Login is modelled from the point where
the password is verified.  `RevokeSession` and `LogoutAll` are calls of `authenticatedFetch` like
`Fetch`, whose requests run `Revoke` and `RevokeAllSessions` at the server; `logoutAll` removes the
two items whatever the answer was.

### RateLimit

One key.  `hits`, `until` are its row, `pc`, `arrived`, `record` the place and locals of a request.
`Clean`, `Upsert`, `Decide`, `Reset` are the three statements of `increment` and the decision
between them.  `counted` and `passed` are ghosts: the instants of the upserts and of the requests
let through, in their order.

### KeyPair

`count`, `status`, `born`, `to` are the rows, `tokens` the access tokens that have not expired.
`Find` and `Generate` are `getActiveKeyPair`; a handler uses the key to sign (`GiveToken`) or to
verify the token it was `shown` (`Verify`; `getProfile` does so twice).  `ExpireActive` and
`CreateRotated` are a rotation.  `Published` is `getPublicJwks`, `AuthGuard` the guard's lookup by
`kid`.  No handler holds a key across a tick, because nothing is awaited between its query and its
use, and an instant stands for minutes.  `Rotate` may be asked for at any time and as often as the
administrator likes; `crowded` is a history variable that remembers whether one was asked for while
`MaxRecent` keys were young or about to be made, until these have aged (`Tick`).  The model follows
`MaxTokens` of the tokens given out, any of them.

### ThreatDetection

`fails` counts `login_attempts` by identifier and age in minutes.  `Names` says whom an identifier is
the address or the name of: nobody, one user or two, of whom `findFirst` takes either (`FindUser`,
`FindTarget`).
`FindUser`, `VerifyPassword`, `LogAttempt` are the login up to where Session takes over.
`StartRun` is the job's grouped query, `FindTarget`, `Lock`, `EmitLocked`, `Audit` its statements
for a group, `RunFails` its catch block or a crash.  `earned` is a ghost: the identifiers that
had reached the threshold within the window.  The job locks at `MaxFailedLogins` failures, as
line 47 does.

### Operator

One resource.  `phase` and `tenantId` are its status, `events` the watch, `tenants` and `admins` the
rows made.  `Receive` is the watch callback with `reconcile`'s early return, `Insert`, `Register`,
`PatchActive` and `PatchFailed` its calls.  `Rewatch` is a watch that ended and was reopened, `Crash`
a restart of the operator.  `subresource` says whether the CRD declares the status subresource that
`updateStatus` patches: the one in the repository does not, and then `UpdateStatus` is refused each
time and the refusal swallowed.  Both kinds of cluster are initial states.

### Identity, DpopKey and Passkey

Identity is the table of users with everything that writes it.  `mail`, `name`, `hash`, `migration`
are columns; `link` is `user_federations`; a row is named by the rank of its creation.  `Register`,
`CheckName`, `HashPassword`, `CreateUser` are the registration, `VerifyCredentials`, `HashPassword`,
`Migrate`, `EmitMigrated` the migration, `Callback`, `FindMail`, `Provision`, `CreateLink` the
federation, `Login` and `VerifyPassword` the sign-in; all ways in end in `Open`.  `Argon` is a worker
thread: the first of its message, error and exit settles the promise, either way.  `Import` puts
rows of the old system there before the service is opened.  `MailTaken` and `NameTaken` are the
unique keys.  A username may be somebody else's e-mail address, since `register` does not compare
across columns, and `Called` is then two users, of whom `findFirst` takes either.

DpopKey is the key manager of a page: `Generated` and `Exported` are the completions of two of the
three WebCrypto calls `ensureKey` awaits, in any order among parallel calls; `Proof` is what
`createProof` makes of the two fields and `ProofVerifies` what `verifyDpop` wants of it as far as keys
go (its comparisons of method, URL and time are outside: a request that needs a proof may also be
refused, `Refuse`).  `overtaken` is a ghost: the export of the newest key completed before an older one.

Passkey adds the challenge slot and credentials, and joins the SDK's call to the handlers that
serve it: a worker is at `sign`, `generate`, `export`, `digest`, `store` or `send` while the browser has
it or its request arrives.  `Attest` and `SignChallenge` are the authenticator, `Decline` its refusal,
`Redeliver` a second delivery of the request with a registration's answer.  `StoredId` is the column
`credentialId`: the base64url string that the WebAuthn library returns, encoded once more
(webauthn.service.ts:70).  It is the id of no credential, so `Listed` names none that an
authenticator has, and `FindPasskey`, which looks for the id of the answer, always refuses.  The rest
of a sign-in (counter, session) is never executed and has no actions.

### Audit, Rbac, Shield and Access

Audit is the interceptor: `Answer` is a handler that returns, `WriteEntry` the entry written beside
the answer, `Refuse` an exception.  `Intercepted` is the entry as the interceptor builds it, without an
actor; `LoggedDecision` is the one an evaluation writes itself, also beside its answer.
Rbac is `role.service.ts`, the guard's two queries (`ReadRoles`, `ReadPermissions`) and the admin
endpoint behind it.  Shield is an evaluation:
`Enforce` rates device and network, `ReadProfile` and `ReadPolicy` are the other queries, the
latter with the decision and the middleware that goes on only when it is neither DENY nor STEP_UP.
`SignIn` and `CreateDevice` are the only code that makes a device known; trust, risk profiles and
rules are written by no code, so trust is an action of its own and the others are arbitrary initial
states.  Access composes them over one audit log.

## 3. What the runs show

| Run | Instance | Question and answer |
|---|---|---|
| `outbox_lone` | 1 replica, 2 events, `MaxRetries` 3, window 1, 2 faults, fair | A lone replica implements OutboxContract including its fairness, delivers what it calls processed, gives up only after `MaxRetries` attempts, tries events in the order of `createdAt` except for rows committed too late to be seen, and settles everything. |
| `outbox_two_pollers` | 2 replicas, 1 event, the source's parameters | **Violated**: a stale failure reopens a processed event. |
| `session` | 2 sessions, 2 requests, 1 app client, 3 tokens, 1 abort | Sessions implement SessionContract; announcements are true, termination is complete, no current token raises the alarm. |
| `session_parallel_refresh` | 1 session, 2 requests | **Violated**: one token is honoured twice. |
| `web_one_call` | 1 call at a time, 2 sessions, 4 tokens, 1 lost request, 1 lost answer, fair | Only lost answers can trip the alarm; storage holds the current pair; an expired access token is refreshed silently; promises settle; a `logoutAll` that nothing disturbs ends every session. |
| `web_parallel` | 2 parallel calls | **Violated**: the client revokes all its user's sessions by itself. |
| `rate_limit` | 3 requests at a time, 4 in all, limit 1, window 1 | A first burst stays within the limit; a block is always earned. |
| `keys` | 2 handlers, 5 keys, 1 token followed, any number of rotations within these keys, 1 abort, fair | Session endpoints refuse a live token only when a newer key is in use; AuthGuard accepts every live token, and the JWKS verifies it unless rotations crowded; handlers end. |
| `threat` | 2 users, one identifier of both and one of either, threshold 2, 4 failures, window 2, 2 overlapping runs, 1 failing run, fair | No unearned lock, no false alert, a burst locks a user it names, although a run fails at another group. |
| `operator` | with and without the subresource, 2 overlapping handlers, 1 early end of a watch, 6 tenants, 2 faults, fair | The tenant named is complete; some tenant is provisioned; with the subresource the resource ends up Active. |
| `accounts` | 2 users, 1 e-mail, 2 usernames (one of them that e-mail), 2 provider accounts, 2 credentials, 2 requests at a time, 3 in all, 1 abort | Events about users are true, a federated session is the linked user's, a lock stops passwords, retired challenges stay retired, a verified registration is stored, header and signature of DPoP proofs are of one key unless an export overtook. |
| `access` | 2 accounts, 1 role, 1 permission, 2 rules of one level, 2 requests at a time, 3 in all, 1 fault | Entries are true and written, a 409 is true, only entitled admins end sessions, what passes Shield was tolerated. |

**Bounds.**  Two pollers, requests or handlers suffice for every read-write race between two
actors; RateLimit has three, so that a third request is counted while one resets a row that
another has deleted and made anew.  `MaxRetries` 3 reaches the give-up branch and two different
backoffs.  A window of one row makes `BatchSize` bite with two events.  The outbox with several
replicas is left to the proofs, which hold for any number.
Three tokens allow an issue, a rotation and either a second rotation or a second session; four let
the SDK log in, refresh, refresh again and log in anew.  In `keys` a key lives as long as a token
(30 days against 15 minutes in the source), so that within the few instants of the model keys run
out by themselves and tokens outlive their key's activity.  `JwksSize` is 4 and `MaxRecent` 1: until
rotations count as crowded, up to three newer keys can appear within the life of a token (one from a
handler that had found none before the token's key was there, one from a handler that finds none
once that key's life is over, one from a rotation).  It is the smallest size that `JwksSuffices` of
KeyPairProofs allows for two handlers and one rotation, and with 3 the oldest live token's key drops
out of the JWKS before they are crowded.  The source has ten rows, which by the theorem are
enough for five handlers that find no key at once and one rotation within 15 minutes, or for three
handlers and three rotations.  Nothing in the code keeps an administrator to that, so the
property excepts the histories in which more were asked for, and the run has such histories.
One token followed at a time is enough, as every property is about one token; five keys push it
out of a JWKS of four.
In `threat` four failures put two groups at the threshold of two, or one well above it, so a run
that fails at one group leaves another waiting.  In `operator` tenants are bounded because without
the subresource each new watch makes another one; with it the bound is not reached.
Three requests in
`accounts` and `access` are what the longest stories need: an import or a registration of a user, a
passkey registered, its answer delivered twice or other options asked for meanwhile; a permission
given, a role given, a session revoked, or a sign-in and two evaluations.  `MaxUsers` 2 lets an
identifier name two users.
Symmetry is used only in runs without liveness properties.

**Deadlock** is checked except in `web_*`, `rate_limit`, `keys`, `accounts` and `access`, where the
bounds on tokens, requests, keys and time let a behaviour stop.

**Fairness** is weak everywhere and is put on: the clock and timers; the next statement of a handler
under way (the driver answers or throws, the POST has a 5 s timeout); the SDK's next step.  Nobody
is obliged to send a request, no fault is forced, and nothing is assumed of the receiver.  The
operator's runs also assume that no watch lasts for ever, which Kubernetes ensures by its
timeout.  The promises need no more: in particular `EventuallySettled` does not need a
receiver that ever answers.  The runs `session`, `rate_limit`, `accounts` and `access` check safety only
and assume no fairness.

## 4. Disagreements with the documents

1. **Outbox with several replicas** (`outbox_two_pollers`).  The catch block updates by id from a
   stale read; ADR 0003 says events are retried *until* processed or failed.
2. **Parallel refreshes** (`session_parallel_refresh`).  Compare and replace are two statements; the
   parity analysis and ADR 0002 speak of strict rotation and immediate invalidation on reuse.
3. **Parallel calls of one client** (`web_parallel`).  Each 401 starts a refresh of its own with
   the stored token; the slower one is taken for a thief, although the sample helper makes three
   calls in one `Promise.all`.

Observed while modelling and true of the models, without a run of their own:

- The backoff is measured from `createdAt`, not from the last attempt, so retries come closer
  together than the 2^n seconds of ADR 0003 (the timer's 5 s dominates).
- A row and the event about it are separate statements in sessions, threat detection and
  migration; a handler that dies in between loses the event, while ADR 0003 describes one
  transaction.  A lock that was not announced is never announced later.
- `createdAt` is given inside the caller's transaction (user.service.ts:44-70), so a row that is
  committed late is posted after younger ones: the order of `createdAt` is not the order of delivery.
- Any value presented with the id of an open session takes the branch of reuse (session.service.ts:261):
  a token cut short or mixed up by a client ends all sessions of the user and is reported as
  `SessionHijackDetected`, although nothing was rotated away.
- The endpoint for rotations has no limit (keypair.controller.ts:39-47): eleven rotations within the
  15 minutes of a token push its key out of the ten rows of the JWKS, and whoever verifies with the JWKS
  refuses it.  AuthGuard reads the table and still accepts it.
- The job of the threat detection locks at `maxFailedLogins` failures (worker.ts:47 has `>=`), while the
  comment on line 17 says `> maxFailedLogins`.  When an identifier is one user's address and another's
  name, the other may be the one who is locked.
- The CRD in the repository (kavach-tenant-crd.yaml:7-40) declares no status subresource, so the
  API server refuses every patch of `.../status` (operator.ts:111) and line 124 swallows it: the
  resource never becomes Active, and every watch provisions another tenant for it.
  `EventuallyActive` therefore speaks of clusters whose CRD has the subresource.
- Passkey sign-in never works: webauthn.service.ts:70 encodes an id that is base64url already, and
  line 137 looks for the id of the answer.  For the same reason `excludeCredentials` excludes
  nothing, and an authenticator that is not discoverable finds nothing it can sign with.  All that
  a sign-in leaves behind is a new challenge in the user's slot, which voids a registration under way.
- Two calls of a fresh page that make keys in parallel may leave `cachedJwk` of one key and `keyPair`
  another (dpop.ts:44-58), if the older export completes last; all proofs of the page are then
  refused until it is loaded anew.
- A refresh under way stores its tokens after a logout has removed them (parallel calls).
- An answer that is lost leaves the SDK with a replaced token, and its next refresh raises the
  alarm (hence the condition in `OnlyLostAnswersAlarm`).
- A late reset of a rate-limit row may hit a row made anew and shrink its count; `BurstWithinLimit`
  therefore speaks of the first window.
- The session endpoints verify a token with the active key only (`resolveUserId`), so they refuse
  tokens signed before a rotation that AuthGuard accepts; `getProfile` verifies twice and answers
  500 when a rotation comes in between.
- `logoutAll` does not look at the answer: when the silent refresh fails, or the second answer is a
  401 as well, the page is logged out and the other devices are not.
- `LOCKED` is read by password sign-ins only: passkeys and federation open sessions for locked users.
- A legacy user may sign in with whatever password the rule built into `login` accepts, and is not
  migrated by it; only `verifyCredentials` asks the webhook and migrates.
- A late verification clears the challenge slot whatever is in it, so newer options become invalid.
- The username a federated user gets is the local part of the e-mail; if it is taken, the unique key
  makes every sign-in of this user fail.
- A session without a password (federation, and passkeys if they worked) would compare a DPoP proof
  with a fixed `http://localhost:3000` URL (session.service.ts:218) and ignores the device
  fingerprint the SDK sends.
- Audit entries of sign-ins and administration name no actor, because the interceptor reads fields
  AuthGuard does not set; requests whose tenant is in the path only have no entry at all.
- Whatever keeps an assignment's row from being created is answered as a 409.
- The operator may make two complete tenants for one resource; the status names one of them.

## 5. What is proved

TLAPS checks the theorems for every value of the constants allowed by the modules' assumptions
(`OutboxAssumption`, `SessionAssumption`, `WebClientAssumption`, `RateLimitAssumption`,
`KeyPairAssumption`, `ThreatAssumption`, `OperatorAssumption`, `AuditAssumption`, `RbacAssumption`,
`ShieldAssumption`, `IdentityAssumption`, `PasskeyAssumption`); the counters'
bounds are part of the models, but arbitrary.  Every invariant and action property that a passing run
checks is the conclusion of a theorem.  Where the code breaks a promise, or keeps it only for a
careful caller, a theorem names the condition under which it is kept; such a condition is a
state predicate, assumed of a behaviour as `[]Condition`.

- **OutboxProofs.**  `IInv == TypeOK /\ LoopInv /\ DeliveryInv /\ CountInv` is inductive.  The
  invariants alone are not: that a processed event was delivered needs that a poller about to
  acknowledge has delivered (`DeliveryInv`); that a failed one was tried often enough needs that
  every snapshot and every count about to be written is at most the number of calls made
  (`CountInv`), which also bounds `retryCount`.  `TypeCorrect`, `ProcessedSafe`, `FailedSafe`
  follow for any number of replicas.  `OrderHolds` is the order of first attempts, for any window,
  number of replicas and order of commits: `OrderInv` says that what a poller has still to visit is
  untouched only if everything older was attempted, comes first in its window or was committed
  too late, which rests on the query returning the oldest visible rows (`WindowIsClosed`).  `SettledStays` and `Refinement` (every step is one of
  OutboxContract or a stutter) hold under `SolePoller`: one replica and no uncertain commit; they
  rest on `SoleInv`, that the rows in the poller's hands are pending with the count it has read.
  `ApartRefinement` and `ApartSettledStays` say more: any number of replicas will do as long as no
  two are inside `processOutbox` at once (`PollsApart`, what a leader or an advisory lock provides).
- **SessionProofs.**  `IInv == TypeOK /\ StepInv /\ AnnounceInv /\ TokenInv`: the handler fits the
  statement it awaits, what it is about to announce is true already, and every token is stored,
  rotated away or not yet written.  It gives `TypeCorrect`, `AnnouncementsHold`,
  `TerminationHolds`, `KnownTokensHold`, `NoFalseAlarm` (no token that is
  current raises the alarm, whatever values are presented).  `FreshInv` (tokens in flight are
  distinct and unused) then gives `Refinement`: SessionContract is implemented for any number of
  concurrent requests.  `ApartHonouredOnce` is what remains of the refuted `HonouredOnce`: if no
  two rotations of one session are between their read and their write (`NoOverlap`), every token is
  honoured at most once, since the row a rotation writes still holds what it has compared (`ReadInv`).
- **WebClientProofs.**  `ImplementsSession`: client and server together do only what Session
  describes, so everything proved of Session holds beneath the SDK.  For a client with one call at
  a time (`Solo`) `OneCallIsSafe` and `OneCallStoresCurrent`, from `HeldInv` (tokens held were
  given), `SoloInv` and `CalmInv` (while no answer was lost, the token stored or about to be stored
  is the current one).  `OneCallFailsForACause` is the safety half of `SilentRetry`: such a call is
  rejected only because its new access token expired as well, a session was revoked or a message
  was lost (`QuietInv`: until then whoever is sent to refresh finds a token that is accepted).
  `LogoutReachesAll` is that of `LogoutAllReaches`, for any number of users: `logoutAll` lets go of its
  token only once all sessions of the token's user have ended, or for one of two causes (`ReachInv`:
  whatever the server does for the call it does to that user).  For parallel calls: `ClientTypes`; `ClientImplementsContract`; and, if one refresh is under way at a
  time (`SingleFlight`, what the usual remedy of a shared promise provides), `OneRefreshIsSafe` and
  `OneRefreshHonouredOnce`, from `FlightInv`, which adds to each call in which case the token in
  its hands is current, and keeps logins apart from refreshes by their session.
- **KeyPairProofs.**  `RefusalsAreExplained`: whatever the number of handlers, rotations and keys, a
  session endpoint refuses a live token only when a newer key is in use.  A handler compares the
  kid of the token with the newest active key, found by a query; that the comparison fails only
  this way needs that keys are numbered in the order of their birth (`AgeInv`), that a token's key
  is a row (`TokenInv`), and what a handler at each place still has before it (`PlaceInv`,
  `RoomInv`).  `TypeCorrect` comes with it.  `LiveTokensHold`: AuthGuard accepts every live
  token, and the JWKS verifies it unless rotations crowded, under `JwksSuffices`: the JWKS has room for
  the keys that `MaxRecent` rotations and all handlers beside them may bring, and a key lives at least
  as long as a token.  Rotations are not assumed to be rare; crowding is recorded by the model.  Keys newer than a token's were born
  after it was signed (`LaterInv`), so the token's key can drop out only if that many were born
  within a token's life; `CrowdInv` bounds them, together with the keys that handlers under way and
  rotations still to finish may bring, by a sum that no step raises above the room until `crowded` is set.
- **LoginGuardsProofs.**  For the rate limiter `RateTypes`, `BurstHolds` and `BlocksAreEarned`, for any
  number of replicas and requests, any limit and window.  `RateInv` ties rows to the logs of upserts
  and passes: a row, and the copy of it that a request decides by, counts no request older than its
  window (`RowInv`, `SeenInv`), although rows are deleted, made anew and reset in between; and as long
  as no window can have ended, whoever was let in is in the row's count (`FirstInv`).  For the
  detection `NoUnearnedLock`, `AlertsHold` from `Inv`, whomever identifiers name: what a run holds was
  earned when it was read and stays so; it emits after it has locked.  `TypeCorrect` likewise.
- **OperatorProofs.**  `CompleteTenant` from `Inv`: a handler about to report success has made its
  admin.  `TypeCorrect` adds the bounds.
- **AccessProofs.**  All five properties of the run `access`, for any number of requests, accounts,
  roles, devices and rules: `EntriesHold`, `DoneHasEntry`, `ConflictHolds`, `OnlyEntitledEnd`,
  `ToleranceHolds`.  None is inductive.  `LocalInv` says what each request has established at its
  place (the row it has created, the role it has read, the risk and the rule it goes by) and is
  stable because rows of roles, permissions and assignments are only added (`Grows`) and trust
  only lowers a risk (`RiskShrinks`); `LogInv` ties entries and owed entries to what was done.
- **PasskeyProofs.**  All properties of the run `accounts`, for any number of users, requests,
  credentials and provider accounts.  `UserEventsHold`, `LinkHolds` and `LockHolds` come from `Inv`: rows
  fill the table from the first (`RowsInv`), so that no `create` hits a row that is there; and what a
  request has established at its place (`Fits`) is stable, because links and credentials are
  made once, the e-mail of a row does not change and a migrated user stays migrated (`Grows`).
  `StoredHolds` rests on `MintInv`: a credential is made for one call, so two requests that carry
  it, being deliveries of one answer, are of one user, and if the unique key stops the second, the
  row is there for the right user.  `RetiredHolds` needs that a challenge is in one slot at most
  (`SlotInv`).  `KeysHold` makes no assumption on the order of exports: `ExportInv` ties exports to the
  calls that wait for them, at most one of which is of the newest key, and if none is while others
  are under way it has overtaken them.

**Model-checked only**: the liveness properties (`EventuallySettled`, `SilentRetry`, `LogoutAllReaches`,
`CallsEnd`, `HandlersEnd`, `BurstIsLocked`, `EventuallyProvisioned`, `EventuallyActive`) and the fairness
part of the contract refinement of Outbox, because the prover does not reason about fairness and
ENABLED.  The three refuted properties have nothing to prove; the theorems with `PollsApart`,
`NoOverlap` and `SingleFlight` say what would have to be provided for them to hold.

## 6. Not modelled, and why

- **Cryptography**: password hashes, signatures, JWTs, thumbprints, PEM and JWK conversions and the
  encryption of private keys (`modules/crypto` but for the worker protocol and which key a proof needs).  Two hashes are equal
  when what was hashed is.
- **Tenant context, configuration, schema**: the context carries a value through a request, the
  configuration is read once, the defaults and unique keys of the schema are initial states and
  guards of the modules above.
- **The admin console**: pages that list and forms that post.  The one write of theirs that meets
  another protocol, the revocation of a session, is `AdminRevoke` in Session and `EndSession` in Rbac.
- **The end of a passkey sign-in** (webauthn.service.ts:142-178): unreachable, as said in section 4.
- **Of the browser SDK**: the page's registration of a user, which is one call to the server, and
  the in-memory storage, which is the persistent one without a second tab.
- **Other SDKs, samples, deployment and seed scripts**: stubs and one-shot scripts without state
  that lasts.  The device fingerprint is an input.

## 7. Plan

The order was: Outbox and Session, which carry the product's promises; WebClient over Session;
RateLimit, KeyPair, ThreatDetection, Operator; Identity, DpopKey and Passkey, composed as
`accounts`; Audit, Rbac and Shield, composed as `access`.  All of them stand, and every safety
property the passing runs check is proved.  What is left are the conditions of the theorems above,
to be proved of the code that provides them once it exists: a lease for the poller, a conditional
update in `refresh`, a shared promise in the SDK and in its key manager; and the sign-in with
passkeys, once the id is stored as it is.

The number of runs is kept at a dozen: a new module shares a run with what it meets, and a
question that a theorem answers for every instance needs none of its own.
