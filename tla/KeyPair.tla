------------------------------ MODULE KeyPair ------------------------------
(***************************************************************************)
(* Signing keys: keypair.service.ts, and the two ways the server verifies  *)
(* the access tokens signed with them (AuthGuard, and resolveUserId of     *)
(* session.controller.ts).                                                 *)
(*                                                                         *)
(* Keys are numbered in the order their rows are created (createdAt); a    *)
(* token is the number of its key and the instant it was signed.  Workers  *)
(* are handlers that sign, that resolve the user of a token, or that rotate*)
(* the keys.                                                               *)
(***************************************************************************)
EXTENDS Integers, FiniteSetsExt

CONSTANTS
  Workers,
  KeyLife,     \* how long a key is active, 30 days in the code
  TokenLife,   \* how long an access token is valid, 15 minutes in the code
  JwksSize,    \* "take: 10"
  MaxRecent,   \* rotations per TokenLife from which the history counts as crowded
  MaxTokens,   \* bound: how many tokens are followed at a time
  MaxKeys,     \* bound: how many keys a behaviour creates
  MaxTime,     \* bound: the last instant of the model
  MaxAborts    \* bound: how many handlers die half-way

ASSUME KeyPairAssumption ==
  /\ IsFiniteSet(Workers)
  /\ KeyLife \in Nat \ {0} /\ TokenLife \in Nat \ {0} /\ JwksSize \in Nat \ {0}
  /\ MaxRecent \in Nat /\ MaxTokens \in Nat /\ MaxKeys \in Nat /\ MaxTime \in Nat /\ MaxAborts \in Nat

VARIABLES
  now,      \* the clock
  count,    \* how many rows key_pairs has
  status,   \* "active" or "expired", of each row
  born,     \* createdAt, which is also activeFrom
  to,       \* activeTo
  tokens,   \* access tokens given out that have not expired
  pc,       \* the call each handler awaits
  key,      \* the key it is about to use; 0 while it has none
  shown,    \* the bearer token it was called with; NoToken for the others
  op,       \* what it was called for: "sign", "resolve", "profile", "rotate"
  aborts,   \* how many handlers died half-way
  crowded   \* history: a rotation was asked for although others were recent

rows == <<count, status, born, to>>
call == <<key, shown, op>>
vars == <<now, rows, tokens, pc, call, aborts, crowded>>

Keys == 1..MaxKeys
Times == 0..MaxTime
Steps == {"idle", "find", "generate", "use", "expire", "rotate"}
Ops == {"none", "sign", "resolve", "profile", "rotate"}
NoToken == <<0, 0>>

TypeOK ==
  /\ now \in Times
  /\ count \in 0..MaxKeys
  /\ status \in [Keys -> {"none", "active", "expired"}]
  /\ \A k \in Keys : status[k] = "none" <=> k > count
  /\ born \in [Keys -> Times]
  /\ to \in [Keys -> 0..(MaxTime + KeyLife)]
  /\ tokens \subseteq Keys \X Times
  /\ pc \in [Workers -> Steps]
  /\ key \in [Workers -> 0..MaxKeys]
  /\ shown \in [Workers -> (Keys \X Times) \union {NoToken}]
  /\ op \in [Workers -> Ops]
  /\ \A w \in Workers : pc[w] = "use" => key[w] \in 1..count
  /\ aborts \in 0..MaxAborts
  /\ crowded \in BOOLEAN

Init ==
  /\ now = 0
  /\ count = 0
  /\ status = [k \in Keys |-> "none"]
  /\ born = [k \in Keys |-> 0]
  /\ to = [k \in Keys |-> 0]
  /\ tokens = {}
  /\ pc = [w \in Workers |-> "idle"]
  /\ key = [w \in Workers |-> 0]
  /\ shown = [w \in Workers |-> NoToken]
  /\ op = [w \in Workers |-> "none"]
  /\ aborts = 0
  /\ crowded = FALSE

-----------------------------------------------------------------------------
Rows == 1..count

Goto(w, p) == pc' = [pc EXCEPT ![w] = p]

Locals(w, k, t, o) ==
  /\ key' = [key EXCEPT ![w] = k]
  /\ shown' = [shown EXCEPT ![w] = t]
  /\ op' = [op EXCEPT ![w] = o]

Return(w) == Goto(w, "idle") /\ Locals(w, 0, NoToken, "none")

\* Handlers that may still create a row; the profile asks for the key twice.
Creating == {w \in Workers : pc[w] \in {"find", "generate", "expire", "rotate"}}
Twice == {w \in Workers : op[w] = "profile"}

\* A handler starts while rows are left for it (MaxKeys bounds the model).
Start(w, p, t, o) ==
  /\ pc[w] = "idle"
  /\ count + Cardinality(Creating) + Cardinality(Twice) + (IF o = "profile" THEN 2 ELSE 1) <= MaxKeys
  /\ Goto(w, p)
  /\ Locals(w, 0, t, o)
  /\ UNCHANGED <<now, rows, tokens, aborts>>

\* issueTokensAndSession or refresh comes to its token.
Sign(w) == Start(w, "find", NoToken, "sign") /\ UNCHANGED crowded

\* resolveUserId, before the session endpoints do their work; getProfile resolves
\* the user and then verifies the token once more.
Resolve(w, t, o) ==
  t \in tokens /\ o \in {"resolve", "profile"} /\ Start(w, "find", t, o) /\ UNCHANGED crowded

\* Keys that are not older than a token may be, and rotations under way.
Born(when) == {k \in Rows : born[k] + TokenLife >= when}
Recent == Born(now)
Rotators == {w \in Workers : pc[w] \in {"expire", "rotate"}}
Makers == {w \in Workers : pc[w] \in {"generate", "expire", "rotate"}}

\* POST admin/keys/rotate, at any time and as often as the administrator likes.
\* crowded remembers that MaxRecent keys were recent or about to be made already.
Rotate(w) ==
  /\ crowded' = (crowded \/ Cardinality(Recent) + Cardinality(Rotators) >= MaxRecent)
  /\ Start(w, "expire", NoToken, "rotate")

(* Definitions named Slip... are plausible mistakes in the definition that   *)
(* follows; no action uses them, the checks put them in its place.           *)

\* The keys getActiveKeyPair looks for.
Candidates == {k \in Rows : status[k] = "active" /\ born[k] <= now /\ now <= to[k]}

\* No key is made, the handler waits for a rotation.
SlipFindWaits(w) ==
  /\ pc[w] = "find"
  /\ Candidates # {}
  /\ Goto(w, "use") /\ key' = [key EXCEPT ![w] = Max(Candidates)]
  /\ UNCHANGED <<now, rows, tokens, shown, op, aborts, crowded>>

\* orderBy is forgotten, and the oldest row comes first.
SlipFindOldest(w) ==
  /\ pc[w] = "find"
  /\ IF Candidates = {} THEN Goto(w, "generate") /\ UNCHANGED key
     ELSE Goto(w, "use") /\ key' = [key EXCEPT ![w] = Min(Candidates)]
  /\ UNCHANGED <<now, rows, tokens, shown, op, aborts, crowded>>

\* getActiveKeyPair: findFirst, the newest first.
Find(w) ==
  /\ pc[w] = "find"
  /\ IF Candidates = {} THEN Goto(w, "generate") /\ UNCHANGED key
     ELSE Goto(w, "use") /\ key' = [key EXCEPT ![w] = Max(Candidates)]
  /\ UNCHANGED <<now, rows, tokens, shown, op, aborts, crowded>>

CreateKey ==
  /\ count' = count + 1
  /\ status' = [status EXCEPT ![count + 1] = "active"]
  /\ born' = [born EXCEPT ![count + 1] = now]
  /\ to' = [to EXCEPT ![count + 1] = now + KeyLife]

\* The token is signed before the key is stored, and the create may fail.
SlipGenerate(w) ==
  /\ pc[w] = "generate"
  /\ key' = [key EXCEPT ![w] = count + 1]
  /\ Goto(w, "use")
  /\ UNCHANGED <<now, rows, tokens, shown, op, aborts, crowded>>

\* No key is active: this handler stores one, whatever others do meanwhile.
Generate(w) ==
  /\ pc[w] = "generate"
  /\ CreateKey
  /\ key' = [key EXCEPT ![w] = count + 1]
  /\ Goto(w, "use")
  /\ UNCHANGED <<now, tokens, shown, op, aborts, crowded>>

\* verifyJwt with the public key k: the token is signed with it and has not expired.
UnexpiredAt(t, when) == when < t[2] + TokenLife
Accepts(k, t) == k = t[1] /\ UnexpiredAt(t, now)

\* signJwt, and the answer; the model follows MaxTokens tokens at a time, any of those
\* that are given out.
GiveToken(w) ==
  /\ pc[w] = "use" /\ op[w] = "sign"
  /\ \/ UNCHANGED tokens
     \/ Cardinality(tokens) < MaxTokens /\ tokens' = tokens \union {<<key[w], now>>}
  /\ Return(w)
  /\ UNCHANGED <<now, rows, aborts, crowded>>

\* The token is verified with the key that is active now, whatever its kid says.
\* Refused, the handler answers 401, or 500 the second time; accepted, the profile
\* verifies again, and the others go on with the user of the token.
Verify(w) ==
  /\ pc[w] = "use" /\ op[w] \in {"resolve", "profile"}
  /\ IF op[w] = "profile" /\ Accepts(key[w], shown[w])
     THEN Goto(w, "find") /\ Locals(w, 0, shown[w], "resolve")
     ELSE Return(w)
  /\ UNCHANGED <<now, rows, tokens, aborts, crowded>>

\* rotateKeys: updateMany, ...
ExpireActive(w) ==
  /\ pc[w] = "expire"
  /\ status' = [k \in Keys |-> IF status[k] = "active" THEN "expired" ELSE status[k]]
  /\ to' = [k \in Keys |-> IF status[k] = "active" THEN now ELSE to[k]]
  /\ Goto(w, "rotate")
  /\ UNCHANGED <<now, count, born, tokens, call, aborts, crowded>>

\* ... then the new key.
CreateRotated(w) ==
  /\ pc[w] = "rotate"
  /\ CreateKey
  /\ Return(w)
  /\ UNCHANGED <<now, tokens, aborts, crowded>>

\* The process dies or the next statement fails.
Abort(w) ==
  /\ pc[w] # "idle"
  /\ aborts < MaxAborts /\ aborts' = aborts + 1
  /\ Return(w)
  /\ UNCHANGED <<now, rows, tokens, crowded>>

\* An instant stands for minutes, and between the answer of findFirst or create
\* and the use of the key no statement is awaited: no handler holds one across a tick.
\* Expired tokens, which every verification refuses, are forgotten, and the crowd is
\* when its keys are older than any token and no handler is about to make another.
Tick ==
  /\ now < MaxTime /\ now' = now + 1
  /\ \A w \in Workers : pc[w] # "use"
  /\ tokens' = {t \in tokens : UnexpiredAt(t, now + 1)}
  /\ crowded' = (crowded /\ (Born(now + 1) # {} \/ Makers # {}))
  /\ UNCHANGED <<rows, pc, call, aborts>>

Arrive(w) ==
  \/ Sign(w)
  \/ \E t \in tokens, o \in {"resolve", "profile"} : Resolve(w, t, o)
  \/ Rotate(w)

Continue(w) ==
  \/ Find(w)
  \/ Generate(w)
  \/ GiveToken(w)
  \/ Verify(w)
  \/ ExpireActive(w)
  \/ CreateRotated(w)

Next ==
  \/ Tick
  \/ \E w \in Workers : Arrive(w) \/ Continue(w) \/ Abort(w)

Spec == Init /\ [][Next]_vars

\* Statements return.
FairSpec == Spec /\ \A w \in Workers : WF_vars(Continue(w))

-----------------------------------------------------------------------------
(* Who accepts a token.                                                    *)

\* getPublicJwks: the newest rows that are active or expired.
Published ==
  LET public == {k \in Rows : status[k] \in {"active", "expired"}}
  IN {k \in public : Cardinality({j \in public : j > k}) < JwksSize}

\* AuthGuard looks the key up by its kid, whatever its status.
AuthGuard(t) == t[1] \in Rows

\* Every token that has not expired can be verified by the server; and with the
\* published keys by everybody else, unless rotations crowded: the rows that one
\* rotation, the handlers it sends for a key of their own, and handlers that find a
\* key run out create in parallel push no key out of the JWKS too early.  Nothing in
\* the code keeps an administrator from rotating more often than that.
LiveTokensVerify ==
  \A t \in tokens : AuthGuard(t) /\ (t[1] \in Published \/ crowded)

\* A session endpoint never verifies a token with an older key than it was signed
\* with: that it refuses a token AuthGuard accepts (a live one) can only mean that a
\* newer key is in use since, by a rotation or by handlers that each made one.
RefusedMeansSuperseded ==
  \A w \in Workers : pc[w] = "use" /\ shown[w] # NoToken => key[w] >= shown[w][1]

\* Signing recovers: a handler that asks for a key ends with a token, although a
\* rotation may have died between demoting the old keys and creating the new.
HandlersEnd == \A w \in Workers : pc[w] # "idle" ~> pc[w] = "idle"
=============================================================================
