------------------------------ MODULE DpopKey ------------------------------
(***************************************************************************)
(* The DPoP key of one page, DPoPKeyManager of sdks/kavach-web/src/dpop.ts.*)
(* ensureKey awaits WebCrypto three times (generate, export, digest) and   *)
(* keeps its results in fields that every call of the page shares; a call  *)
(* that finds keyPair set goes straight on to its proof.  Keys are numbers *)
(* in the order they are generated, 0 is null.  WebCrypto's operations run *)
(* in parallel and complete in any order.                                  *)
(***************************************************************************)
EXTENDS Naturals

VARIABLES
  pair,      \* keyPair
  jwk,       \* cachedJwk: the key it is the public half of
  exports,   \* the exportKey calls under way, <<call, key>>
  overtaken  \* ghost: the newest key's export completed before an older one's

keyVars == <<pair, jwk, exports, overtaken>>

KeyInit == pair = 0 /\ jwk = 0 /\ exports = {} /\ overtaken = FALSE

\* ensureKey returns at once.
KeyIsThere == pair # 0

\* generateKey of call c completes, and exportKey of this key is started.
Generated(c) ==
  /\ pair' = pair + 1
  /\ exports' = exports \union {<<c, pair'>>}
  /\ overtaken' = FALSE
  /\ UNCHANGED jwk

\* if (!this.cachedJwk)
SlipExported(c) ==
  \E e \in exports :
    /\ e[1] = c
    /\ jwk' = IF jwk = 0 THEN e[2] ELSE jwk
    /\ exports' = exports \ {e}
    /\ overtaken' = IF e[2] = pair THEN exports' # {} ELSE overtaken
    /\ UNCHANGED pair

\* exportKey of call c completes.
Exported(c) ==
  \E e \in exports :
    /\ e[1] = c
    /\ jwk' = e[2]
    /\ exports' = exports \ {e}
    /\ overtaken' = IF e[2] = pair THEN exports' # {} ELSE overtaken
    /\ UNCHANGED pair

\* The page is loaded anew: its fields are null.
Forgotten == pair' = 0 /\ jwk' = 0 /\ overtaken' = FALSE /\ UNCHANGED exports

\* createProof puts one field in the header and signs with the other.
Proof == [header |-> jwk, signedBy |-> pair]

\* verifyDpop wants a header with a jwk and a signature of this jwk's key.  (It also
\* compares method, URL and time, which are no matter of keys: its callers may be
\* refused.)
ProofVerifies == Proof.header # 0 /\ Proof.signedBy = Proof.header

\* Once no export is under way, header and signature of every proof are of one key
\* again, however many calls have generated keys in parallel: unless the export of
\* the newest key overtook another, and then, for as long as the page lives and
\* makes no newer key, they are not.
KeysAgree == exports = {} => (jwk = pair <=> ~overtaken)
=============================================================================
