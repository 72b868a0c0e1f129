------------------------------ MODULE Passkey ------------------------------
(***************************************************************************)
(* Passkeys: registerPasskey and loginWithPasskey of the browser SDK, and  *)
(* webauthn.service.ts, which serves them, beside the other ways in of     *)
(* Identity.  A call of the SDK makes two requests, for the options and    *)
(* with the authenticator's answer; it is one worker throughout.  A user   *)
(* has one challenge at a time, for registrations and sign-ins alike.      *)
(* Challenges are numbers, as none is drawn twice; 0 is null.              *)
(*                                                                         *)
(* A sign-in never gets further than the look-up of its passkey, which the *)
(* table has under another id (StoredId): all it leaves is a new challenge *)
(* and, on a new page, a key.                                              *)
(***************************************************************************)
EXTENDS Identity, DpopKey

CONSTANT Creds  \* the credentials authenticators may make

ASSUME PasskeyAssumption == Creds \cap Subjects = {} /\ {None, "password"} \cap Creds = {}

VARIABLES
  challenge,  \* currentWebAuthnChallenge of each user
  drawn,      \* how many challenges were generated
  holder,     \* passkey_credentials: the user of each credential's row
  minted,     \* the credentials that authenticators have made
  options,    \* the options each call holds: the challenge, the ids listed
  retired     \* ghost: the challenges that have left their slot

pkVars == <<challenge, drawn, holder, minted, options, retired>>
allVars == <<idVars, keyVars, pkVars>>

PkPlaces == {"generate", "export", "digest", "store", "sign", "send", "createPasskey", "clear"}
Places == PkPlaces \union
  {"idle", "checkName", "hash", "register", "migrate", "emitMigrated", "findMail",
   "provision", "link", "verify", "open"}

Locals ==
  [op : {"none", "register", "verify", "callback", "login", "attest", "assert"},
   user : Users \union {None}, mail : Mails \union {None},
   name : Mails \union Names \union {None}, pw : Passwords \union {None},
   by : Subjects \union Creds \union {None, "password"}]

\* The column credentialId: Buffer.from(id).toString('base64url') encodes once more
\* what is base64url already, and yields the id of no credential.
StoredId(k) == <<"base64url", k>>

Listed(u) == {StoredId(k) : k \in {c \in Creds : holder[c] = u}}

NoOptions == [chal |-> 0, ids |-> {}]
Options == [chal : 0..drawn, ids : SUBSET {StoredId(k) : k \in Creds}]

TypeOK ==
  /\ mail \in [Users -> Mails \union {None}] /\ name \in [Users -> Names \union {None}]
  /\ hash \in [Users -> Passwords \union {None}]
  /\ migration \in [Users -> {"absent", "active", "legacy", "migrated"}]
  /\ locked \subseteq Users
  /\ link \in [Subjects -> Users \union {None}]
  /\ events \subseteq {"UserCreated", "UserMigrated"} \X Users
  /\ opened \subseteq Users \X (Subjects \union {"password"})
  /\ pc \in [Workers -> Places] /\ req \in [Workers -> Locals]
  /\ started \in 0..MaxRequests /\ aborts \in 0..MaxAborts
  /\ graced \subseteq Workers
  /\ challenge \in [Users -> 0..drawn] /\ retired \subseteq 1..drawn
  /\ holder \in [Creds -> Users \union {None}] /\ minted \subseteq Creds
  /\ options \in [Workers -> Options]
  /\ jwk <= pair

PkInit ==
  /\ IdInit /\ KeyInit
  /\ challenge = [u \in Users |-> 0]
  /\ drawn = 0
  /\ holder = [k \in Creds |-> None]
  /\ minted = {}
  /\ options = [w \in Workers |-> NoOptions]
  /\ retired = {}

-----------------------------------------------------------------------------
\* The place and the locals of w only.
Moves(w, p) == Goto(w, p) /\ UNCHANGED <<tables, req>> /\ Stay
Leaves(w) == Return(w) /\ UNCHANGED <<tables, started, aborts>>

(* The key, which a registration needs for both its requests and a sign-in *)
(* for the second.                                                         *)

GenerateKey(w) ==
  /\ pc[w] = "generate" /\ Generated(w) /\ Moves(w, "export") /\ UNCHANGED pkVars

ExportKey(w) ==
  /\ pc[w] = "export" /\ Exported(w) /\ Moves(w, "digest") /\ UNCHANGED pkVars

Digest(w) ==
  /\ pc[w] = "digest"
  /\ Moves(w, IF req[w].op = "attest" THEN "store" ELSE "send")
  /\ UNCHANGED <<keyVars, pkVars>>

\* The page is loaded anew, between its calls.
Reload ==
  /\ \A w \in Workers : pc[w] \notin {"generate", "export", "digest", "store", "sign", "send"}
  /\ KeyIsThere /\ Forgotten
  /\ UNCHANGED <<idVars, pkVars>>

-----------------------------------------------------------------------------
(* The options.                                                            *)

\* registerPasskey by a signed-in user.
RegisterPasskey(w, u) ==
  /\ u \in Rows
  /\ Begin(w, [Blank EXCEPT !.op = "attest", !.user = u],
           IF KeyIsThere THEN "store" ELSE "generate")
  /\ options' = [options EXCEPT ![w] = NoOptions]
  /\ UNCHANGED <<tables, keyVars, challenge, drawn, holder, minted, retired>>

\* loginWithPasskey: the user is found, with the ids of the passkeys.
LoginWithPasskey(w, u, id) ==
  /\ u \in Called(id)
  /\ Begin(w, [Blank EXCEPT !.op = "assert", !.user = u, !.name = id], "store")
  /\ options' = [options EXCEPT ![w] = [chal |-> 0, ids |-> Listed(u)]]
  /\ UNCHANGED <<tables, keyVars, challenge, drawn, holder, minted, retired>>

Retire(u) == retired' = retired \union ({challenge[u]} \ {0})

\* The user row gets a new challenge, the call the options with it.
StoreChallenge(w) ==
  /\ pc[w] = "store"
  /\ req[w].op = "attest" => ProofVerifies
  /\ drawn' = drawn + 1
  /\ challenge' = [challenge EXCEPT ![req[w].user] = drawn']
  /\ Retire(req[w].user)
  /\ options' = [options EXCEPT ![w].chal = drawn']
  /\ Moves(w, "sign")
  /\ UNCHANGED <<keyVars, holder, minted>>

\* AuthGuard refuses a request of a registration, for the proof or the token, also
\* after the silent refresh.
Refuse(w) ==
  /\ pc[w] \in {"store", "send"} /\ req[w].op = "attest"
  /\ Leaves(w)
  /\ UNCHANGED <<keyVars, pkVars>>

-----------------------------------------------------------------------------
(* The authenticator.                                                      *)

\* A credential is made for the user.
Attest(w) ==
  /\ pc[w] = "sign" /\ req[w].op = "attest"
  /\ \E k \in Creds \ minted :
       minted' = minted \union {k} /\ req' = [req EXCEPT ![w].by = k]
  /\ Goto(w, "send") /\ UNCHANGED tables /\ Stay
  /\ UNCHANGED <<keyVars, challenge, drawn, holder, options, retired>>

\* A credential signs that is listed or, when none is, any of this site.
SignChallenge(w) ==
  /\ pc[w] = "sign" /\ req[w].op = "assert"
  /\ \E k \in minted :
       /\ options[w].ids = {} \/ k \in options[w].ids
       /\ req' = [req EXCEPT ![w].by = k]
  /\ Goto(w, IF KeyIsThere THEN "send" ELSE "generate") /\ UNCHANGED tables /\ Stay
  /\ UNCHANGED <<keyVars, pkVars>>

\* NotAllowedError: no credential fits, or the user declines.
Decline(w) == pc[w] = "sign" /\ Leaves(w) /\ UNCHANGED <<keyVars, pkVars>>

-----------------------------------------------------------------------------
(* The verification.                                                       *)

\* The answer of a registration meets the challenge its handler finds.
SendAttestation(w) ==
  /\ pc[w] = "send" /\ req[w].op = "attest" /\ ProofVerifies
  /\ IF challenge[req[w].user] = options[w].chal THEN Moves(w, "createPasskey") ELSE Leaves(w)
  /\ UNCHANGED <<keyVars, pkVars>>

\* The answer of a sign-in: whichever user the identifier finds now, and whether
\* the challenge is there or not, no passkey is found under the id in the answer.
FindPasskey(w) ==
  /\ pc[w] = "send" /\ req[w].op = "assert"
  /\ \A k \in Creds : StoredId(k) # req[w].by
  /\ Leaves(w)
  /\ UNCHANGED <<keyVars, pkVars>>

\* The request of v is delivered a second time while the first is being served.
Redeliver(w, v) ==
  /\ pc[v] \in {"createPasskey", "clear"}
  /\ challenge[req[v].user] = options[v].chal
  /\ Begin(w, req[v], "createPasskey")
  /\ options' = [options EXCEPT ![w] = options[v]]
  /\ UNCHANGED <<tables, keyVars, challenge, drawn, holder, minted, retired>>

(* Definitions named Slip... are plausible mistakes in the definition that   *)
(* follows; no action uses them, the checks put them in its place.           *)

\* The challenge is read again before the row is written.
SlipCreatePasskey(w) ==
  /\ pc[w] = "createPasskey"
  /\ IF holder[req[w].by] # None \/ challenge[req[w].user] # options[w].chal
     THEN Leaves(w) /\ UNCHANGED holder
     ELSE holder' = [holder EXCEPT ![req[w].by] = req[w].user] /\ Moves(w, "clear")
  /\ UNCHANGED <<keyVars, challenge, drawn, minted, options, retired>>

\* credentialId is unique.
CreatePasskey(w) ==
  /\ pc[w] = "createPasskey"
  /\ IF holder[req[w].by] # None THEN Leaves(w) /\ UNCHANGED holder
     ELSE holder' = [holder EXCEPT ![req[w].by] = req[w].user] /\ Moves(w, "clear")
  /\ UNCHANGED <<keyVars, challenge, drawn, minted, options, retired>>

\* The row read at the beginning is saved.
SlipClear(w) ==
  /\ pc[w] = "clear"
  /\ challenge' = [challenge EXCEPT ![req[w].user] = options[w].chal]
  /\ Retire(req[w].user)
  /\ Leaves(w)
  /\ UNCHANGED <<keyVars, drawn, holder, minted, options>>

\* The slot is emptied, whatever challenge is in it by now.
ClearChallenge(w) ==
  /\ pc[w] = "clear"
  /\ challenge' = [challenge EXCEPT ![req[w].user] = 0]
  /\ Retire(req[w].user)
  /\ Leaves(w)
  /\ UNCHANGED <<keyVars, drawn, holder, minted, options>>

-----------------------------------------------------------------------------
PkArrive(w) ==
  \/ \E u \in Users : RegisterPasskey(w, u)
  \/ \E u \in Users, id \in Mails \union Names : LoginWithPasskey(w, u, id)
  \/ \E v \in Workers : Redeliver(w, v)

PkContinue(w) ==
  \/ GenerateKey(w)
  \/ ExportKey(w)
  \/ Digest(w)
  \/ StoreChallenge(w)
  \/ Refuse(w)
  \/ Attest(w)
  \/ SignChallenge(w)
  \/ Decline(w)
  \/ SendAttestation(w)
  \/ FindPasskey(w)
  \/ CreatePasskey(w)
  \/ ClearChallenge(w)

\* The steps of Identity.  A call that waits for WebCrypto does not die.
IdStep ==
  /\ \/ \E w \in Workers : IdArrive(w)
     \/ \E w \in Workers : IdContinue(w)
     \/ \E w \in Workers : pc[w] \notin {"generate", "export", "digest"} /\ Abort(w)
     \/ \E u \in Users, m \in Mails : Import(u, m)
     \/ \E u \in Users : Lock(u)
  /\ UNCHANGED <<keyVars, pkVars>>

Next ==
  \/ IdStep
  \/ \E w \in Workers : PkArrive(w)
  \/ \E w \in Workers : PkContinue(w)
  \/ Reload

Spec == PkInit /\ [][Next]_allVars

-----------------------------------------------------------------------------
(* What makes passkeys correct.                                            *)

\* A challenge that was answered or superseded never comes back: an answer that
\* arrives later is refused, so it is accepted twice only if both requests have
\* read the user before either has cleared the slot.
RetiredStaysRetired == \A u \in Users : challenge[u] \notin retired

\* What was verified is stored: an answer that met its challenge becomes a passkey
\* of the user who asked for it, although the slot may be refilled or emptied before
\* the row is written, by other options or a second delivery of this answer, unless
\* a request dies.
VerifiedIsStored ==
  [][\A w \in Workers :
       pc[w] = "createPasskey" /\ pc'[w] # "createPasskey"
         => holder'[req[w].by] = req[w].user \/ aborts' > aborts]_allVars
=============================================================================
