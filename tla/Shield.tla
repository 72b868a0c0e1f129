------------------------------- MODULE Shield -------------------------------
(***************************************************************************)
(* The Shield engine: an application's request passes kseEnforce (the SDK, *)
(* express.ts and kse.ts), which asks POST v1/kse/evaluate; the engine     *)
(* reads device, profile and policy by three queries.  Devices become      *)
(* known by password sign-ins (session.service.ts); they are trusted, and  *)
(* profiles and policies written, by hand: no code does.                   *)
(***************************************************************************)
EXTENDS Audit

CONSTANTS
  People, Devices,   \* users and device fingerprints
  Levels,            \* targetSecurityLevel of the guarded routes
  Rules,             \* the policy rules there may be, [level, max]
  BaseScores         \* the values of baseRiskScore there may be

ASSUME ShieldAssumption ==
  /\ Levels \subseteq 0..5 /\ BaseScores \subseteq 0..100
  /\ \A r \in Rules : r.level \in 0..5 /\ r.max \in Nat

VARIABLES
  known,           \* <<user, fingerprint>>: the rows of devices,
  twice, trusted,  \* ... those there are two of, and those of which one is trusted
  base,            \* user_risk_profiles
  rules,           \* the active policy_rules
  passed           \* ghost: the requests the application went on to serve

shieldVars == <<known, twice, trusted, base, rules, passed>>

ShieldInit ==
  /\ known = {} /\ twice = {} /\ trusted = {}
  /\ base \in [People -> BaseScores]
  /\ rules \in SUBSET Rules
  /\ passed = {}

-----------------------------------------------------------------------------
(* Sign-ins make devices known.                                            *)

\* A password sign-in from device d: the row is looked for.  Sign-ins with a
\* passkey or a provider pass no fingerprint on and are not of interest here.
\* Login is no authenticated route: the tenant may be in the path only.
SignIn(w, u, d, header) ==
  /\ Begin(w, [Blank EXCEPT !.op = "login", !.who = u, !.to = d, !.tenant = header],
           IF <<u, d>> \in known THEN "answer" ELSE "device")
  /\ UNCHANGED shieldVars

\* No fingerprint is unique: a parallel sign-in makes a second row.
CreateDevice(w) ==
  /\ pc[w] = "device"
  /\ LET d == <<req[w].who, req[w].to>>
     IN known' = known \union {d} /\ twice' = twice \union ({d} \cap known)
  /\ Step(w, "answer", {})
  /\ UNCHANGED <<trusted, base, rules, passed>>

SignedIn(w) == pc[w] = "answer" /\ Answer(w) /\ UNCHANGED shieldVars

Trust(p) ==
  /\ p \in known \ trusted
  /\ trusted' = trusted \union {p}
  /\ UNCHANGED <<auditVars, known, twice, base, rules, passed>>

-----------------------------------------------------------------------------
(* Risk, policy, decision.                                                 *)

\* What findFirst may make of the device.
DeviceRisks(u, d) ==
  IF <<u, d>> \notin known THEN {20}
  ELSE {10 : x \in {<<u, d>>} \ (trusted \ twice)} \union {0 : x \in {<<u, d>>} \cap trusted}

VpnRisk(vpn) == IF vpn THEN 40 ELSE 0
Capped(n) == IF n > 100 THEN 100 ELSE n

\* getEffectivePolicy: findFirst of the active rules of this level, in no order;
\* the default without one.  An override changes the controls only.
Limits(level) ==
  IF \E r \in rules : r.level = level THEN {r.max : r \in {x \in rules : x.level = level}}
  ELSE {IF level >= 3 THEN 50 ELSE 75}

\* makeDecision.
Decision(score, vpn, level, max) ==
  CASE score >= 90 -> "DENY"
    [] score < 90 /\ ((vpn /\ level >= 3) \/ score > max) -> "STEP_UP_REQUIRED"
    [] OTHER -> "ALLOW"

\* A request arrives at a route guarded at this level, and the engine is asked;
\* device and network are rated first.
Enforce(w, u, d, vpn, level) ==
  /\ \E n \in DeviceRisks(u, d) :
       Begin(w, [Blank EXCEPT !.op = "evaluate", !.who = u, !.to = d,
                              !.on = [level |-> level, vpn |-> vpn],
                              !.read = {n + VpnRisk(vpn)}],
             "profile")
  /\ UNCHANGED shieldVars

ReadProfile(w) ==
  /\ pc[w] = "profile"
  /\ \E n \in req[w].read : Step(w, "policy", {Capped(n + base[req[w].who])})
  /\ UNCHANGED shieldVars

(* Definitions named Slip... are plausible mistakes in the definition that   *)
(* follows; no action uses them, the checks put them in its place.           *)

\* An engine that cannot be reached does not stop the application.
SlipReadPolicy(w) ==
  /\ pc[w] = "policy"
  /\ passed' = passed \union {req[w]}
  /\ Answer(w)
  /\ UNCHANGED <<known, twice, trusted, base, rules>>

\* The decision, whose entry is written beside the answer.  The middleware goes on
\* when it is neither DENY nor STEP_UP_REQUIRED; a lost answer ends in a 500.
ReadPolicy(w) ==
  /\ pc[w] = "policy"
  /\ \E score \in req[w].read, max \in Limits(req[w].on.level) :
       \/ /\ Decision(score, req[w].on.vpn, req[w].on.level, max) = "ALLOW"
          /\ passed' = passed \union {req[w]}
       \/ UNCHANGED passed
  /\ Answer(w)
  /\ UNCHANGED <<known, twice, trusted, base, rules>>

-----------------------------------------------------------------------------
ShieldArrive(w) ==
  \E u \in People, d \in Devices :
    \/ \E header \in BOOLEAN : SignIn(w, u, d, header)
    \/ \E vpn \in BOOLEAN, level \in Levels : Enforce(w, u, d, vpn, level)

ShieldContinue(w) ==
  \/ CreateDevice(w)
  \/ SignedIn(w)
  \/ ReadProfile(w)
  \/ ReadPolicy(w)

-----------------------------------------------------------------------------
\* What the application served was within what some rule of its level tolerates,
\* by the whole of the user's risk as it is now: what three queries found, while
\* others signed in, is never less than what there is afterwards.  And nothing
\* passes without a decision: the middleware fails closed.
PassedWasTolerated ==
  \A r \in passed :
    /\ ~(r.on.vpn /\ r.on.level >= 3)
    /\ \E n \in DeviceRisks(r.who, r.to), max \in Limits(r.on.level) :
         n + VpnRisk(r.on.vpn) + base[r.who] <= IF max < 90 THEN max ELSE 89
=============================================================================
