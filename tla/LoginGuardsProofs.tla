------------------------- MODULE LoginGuardsProofs -------------------------
(* Proofs about the two guards of the sign-in endpoints, which share no    *)
(* state: ThreatDetection, for any number of users, logins, overlapping    *)
(* runs and recorded failures, and any threshold and window; and RateLimit,*)
(* for any number of requests in any replica, any limit and any window.    *)
EXTENDS ThreatDetection, RateLimit, FiniteSetTheorems, SequenceTheorems, TLAPS

(* ThreatDetection.                                                        *)

Runs == [at : {"idle", "find", "lock", "event", "audit"},
         groups : SUBSET Identifiers, user : Users \union {NoUser}]

Acting(d) == run[d].at \in {"lock", "event", "audit"}

Typed ==
  /\ locked \subseteq Users
  /\ run \in [Detectors -> Runs]
  /\ \A d \in Detectors : Acting(d) => run[d].user \in Users

EarnedUser(u) == \E i \in earned : u \in Names[i]

\* The strengthening: what a run holds was earned when it was read, and stays so.
HeldIsEarned ==
  /\ AtThreshold \subseteq earned
  /\ \A d \in Detectors : run[d].groups \subseteq earned
  /\ \A d \in Detectors : Acting(d) => EarnedUser(run[d].user)

\* A run emits after it has locked, and audits after it has emitted.
InOrder ==
  \A d \in Detectors :
    /\ run[d].at \in {"event", "audit"} => run[d].user \in locked
    /\ run[d].at = "audit" => run[d].user \in outbox

Inv == Typed /\ HeldIsEarned /\ InOrder /\ LockIsEarned /\ AlertsAreTrue

-----------------------------------------------------------------------------
LEMMA InitHolds == Init => Inv
  BY DEF Init, Inv, Typed, HeldIsEarned, InOrder, LockIsEarned, AlertsAreTrue, Acting, Runs, NoRun

\* Whatever is observed stays observed.
LEMMA ObserveRecords ==
  ASSUME Observe
  PROVE  AtThreshold' \subseteq earned' /\ earned \subseteq earned'
  BY DEF Observe

\* The steps that touch neither runs nor alerts: logins, the clock.
LEMMA OthersKeep ==
  ASSUME Inv, Observe, UNCHANGED <<alerts, run>>
  PROVE  Inv'
  BY ObserveRecords
     DEF Inv, Typed, HeldIsEarned, InOrder, LockIsEarned, AlertsAreTrue, Acting, EarnedUser, alerts

LEMMA StartRunKeeps ==
  ASSUME Inv, Observe, NEW d \in Detectors, StartRun(d)
  PROVE  Inv'
<1>1. OverThreshold \in SUBSET Identifiers /\ OverThreshold \subseteq earned
  BY DEF OverThreshold, AtThreshold, Inv, HeldIsEarned
<1>2. PICK r \in {NoRun, [at |-> "find", groups |-> OverThreshold, user |-> NoUser]} :
        run' = [run EXCEPT ![d] = r]
  BY DEF StartRun
<1>3. r \in Runs /\ r.groups \subseteq earned /\ r.at \in {"idle", "find"}
  BY <1>1, <1>2 DEF Runs, NoRun
<1>4. UNCHANGED alerts
  BY DEF StartRun
<1> QED
  BY <1>2, <1>3, <1>4, ObserveRecords
     DEF Inv, Typed, HeldIsEarned, InOrder, LockIsEarned, AlertsAreTrue, Acting, EarnedUser, alerts

LEMMA AfterIsSafe ==
  ASSUME NEW groups \in SUBSET Identifiers, groups \subseteq earned
  PROVE  /\ After(groups) \in Runs /\ After(groups).groups \subseteq earned
         /\ After(groups).at \in {"idle", "find"}
  BY DEF After, Runs, NoRun

LEMMA FindTargetKeeps ==
  ASSUME Inv, Observe, NEW d \in Detectors, FindTarget(d)
  PROVE  Inv'
<1>1. PICK i \in run[d].groups :
        \/ \E u \in Names[i] \ locked :
             run' = [run EXCEPT ![d] = [at |-> "lock", groups |-> run[d].groups \ {i}, user |-> u]]
        \/ run' = [run EXCEPT ![d] = After(run[d].groups \ {i})]
  BY DEF FindTarget
<1>2. /\ run[d].groups \in SUBSET Identifiers
      /\ run[d].groups \subseteq earned
      /\ i \in earned /\ i \in Identifiers
  BY <1>1 DEF Inv, Typed, HeldIsEarned, Runs
<1>3. /\ run[d].groups \ {i} \in SUBSET Identifiers
      /\ run[d].groups \ {i} \subseteq earned
  BY <1>2
<1>4. UNCHANGED alerts
  BY DEF FindTarget
<1>5. ASSUME NEW u \in Names[i] \ locked,
             run' = [run EXCEPT ![d] = [at |-> "lock", groups |-> run[d].groups \ {i}, user |-> u]]
      PROVE  Inv'
  <2>1. u \in Users
    BY <1>2, ThreatAssumption DEF ThreatAssumption
  <2>2. [at |-> "lock", groups |-> run[d].groups \ {i}, user |-> u] \in Runs
    BY <1>3, <2>1 DEF Runs
  <2>3. EarnedUser(u)
    BY <1>2 DEF EarnedUser
  <2> QED
    BY <1>3, <1>4, <1>5, <2>1, <2>2, <2>3, ObserveRecords
       DEF Inv, Typed, HeldIsEarned, InOrder, LockIsEarned, AlertsAreTrue, Acting, EarnedUser, alerts
<1>6. ASSUME run' = [run EXCEPT ![d] = After(run[d].groups \ {i})]
      PROVE  Inv'
  <2>1. PICK r : r = After(run[d].groups \ {i})
    OBVIOUS
  <2>2. r \in Runs /\ r.groups \subseteq earned /\ r.at \in {"idle", "find"}
    BY <1>3, <2>1, AfterIsSafe
  <2>3. run' = [run EXCEPT ![d] = r]
    BY <1>6, <2>1
  <2> QED
    BY <1>4, <2>2, <2>3, ObserveRecords
       DEF Inv, Typed, HeldIsEarned, InOrder, LockIsEarned, AlertsAreTrue, Acting, EarnedUser, alerts
<1> QED
  BY <1>1, <1>5, <1>6

LEMMA LockKeeps ==
  ASSUME Inv, Observe, NEW d \in Detectors, Lock(d)
  PROVE  Inv'
<1>1. run[d].user \in Users /\ EarnedUser(run[d].user)
  BY DEF Lock, Inv, Typed, HeldIsEarned, Acting
<1>2. run' = [run EXCEPT ![d] = [run[d] EXCEPT !.at = "event"]]
  BY DEF Lock
<1>3. run[d] \in Runs /\ [run[d] EXCEPT !.at = "event"] \in Runs
  BY DEF Inv, Typed, Runs
<1> QED
  BY <1>1, <1>2, <1>3, ObserveRecords
     DEF Lock, Inv, Typed, HeldIsEarned, InOrder, LockIsEarned, AlertsAreTrue, Acting, EarnedUser, Runs

LEMMA EmitLockedKeeps ==
  ASSUME Inv, Observe, NEW d \in Detectors, EmitLocked(d)
  PROVE  Inv'
<1>1. run[d].user \in locked /\ Acting(d)
  BY DEF EmitLocked, Inv, InOrder, Acting
<1>2. run' = [run EXCEPT ![d] = [run[d] EXCEPT !.at = "audit"]]
  BY DEF EmitLocked
<1>3. run[d] \in Runs /\ [run[d] EXCEPT !.at = "audit"] \in Runs
  BY DEF Inv, Typed, Runs
<1> QED
  BY <1>1, <1>2, <1>3, ObserveRecords
     DEF EmitLocked, Inv, Typed, HeldIsEarned, InOrder, LockIsEarned, AlertsAreTrue, Acting, EarnedUser, Runs

LEMMA AuditKeeps ==
  ASSUME Inv, Observe, NEW d \in Detectors, Audit(d)
  PROVE  Inv'
<1>1. run[d].user \in outbox
  BY DEF Audit, Inv, InOrder
<1>2. PICK r : r = After(run[d].groups) /\ run' = [run EXCEPT ![d] = r]
  BY DEF Audit
<1>3. r \in Runs /\ r.groups \subseteq earned /\ r.at \in {"idle", "find"}
  BY <1>2, AfterIsSafe DEF Inv, Typed, HeldIsEarned, Runs
<1> QED
  BY <1>1, <1>2, <1>3, ObserveRecords
     DEF Audit, Inv, Typed, HeldIsEarned, InOrder, LockIsEarned, AlertsAreTrue, Acting, EarnedUser

LEMMA RunFailsKeeps ==
  ASSUME Inv, Observe, NEW d \in Detectors, RunFails(d)
  PROVE  Inv'
<1>1. NoRun \in Runs /\ NoRun.groups = {} /\ NoRun.at = "idle"
  BY DEF NoRun, Runs
<1>2. run' = [run EXCEPT ![d] = NoRun] /\ UNCHANGED alerts
  BY DEF RunFails
<1> QED
  BY <1>1, <1>2, ObserveRecords
     DEF Inv, Typed, HeldIsEarned, InOrder, LockIsEarned, AlertsAreTrue, Acting, EarnedUser, alerts

LEMMA NextKeeps == Inv /\ [Next]_vars => Inv'
<1> SUFFICES ASSUME Inv, [Next]_vars PROVE Inv'
  OBVIOUS
<1>1. CASE Next
  <2> USE <1>1
  <2>1. Observe
    BY DEF Next
  <2>2. ASSUME NEW l \in Logins, (\E i \in Identifiers : FindUser(l, i)) \/ VerifyPassword(l) \/ LogAttempt(l)
        PROVE  Inv'
    BY <2>1, <2>2, OthersKeep DEF FindUser, VerifyPassword, LogAttempt
  <2>3. CASE Minute
    BY <2>1, <2>3, OthersKeep DEF Minute
  <2>4. ASSUME NEW d \in Detectors, StartRun(d) \/ Proceed(d) \/ RunFails(d)
        PROVE  Inv'
    BY <2>1, <2>4, StartRunKeeps, FindTargetKeeps, LockKeeps, EmitLockedKeeps, AuditKeeps, RunFailsKeeps
       DEF Proceed
  <2> QED
    BY <2>2, <2>3, <2>4 DEF Next, Step
<1>2. CASE UNCHANGED vars
  BY <1>2 DEF vars, alerts, Inv, Typed, HeldIsEarned, InOrder, LockIsEarned, AlertsAreTrue,
              Acting, EarnedUser, AtThreshold
<1> QED
  BY <1>1, <1>2

LEMMA InvHolds == Spec => []Inv
  BY InitHolds, NextKeeps, PTL DEF Spec

\* Only a user one of whose identifiers had reached the threshold is ever locked.
THEOREM NoUnearnedLock == Spec => []LockIsEarned
<1>1. Inv => LockIsEarned
  BY DEF Inv
<1> QED
  BY InvHolds, <1>1, PTL

\* What is announced has happened.
THEOREM AlertsHold == Spec => []AlertsAreTrue
<1>1. Inv => AlertsAreTrue
  BY DEF Inv
<1> QED
  BY InvHolds, <1>1, PTL

-----------------------------------------------------------------------------
(* Types.                                                                  *)

LEMMA InitTypes == Init => TypeOK
<1>1. NoLogin \in [at : {"idle", "verify", "logAttempt"}, id : Identifiers \union {{}}] /\ NoLogin.at = "idle"
  BY DEF NoLogin
<1>2. NoRun \in Runs /\ NoRun.at = "idle"
  BY DEF NoRun, Runs
<1>3. AtThreshold \subseteq Identifiers /\ 0 \in 0..MaxFaults
  BY ThreatAssumption DEF AtThreshold, ThreatAssumption
<1>4. ASSUME Init PROVE /\ locked \subseteq Users /\ outbox \subseteq Users /\ audited \subseteq Users
                        /\ due \in BOOLEAN /\ faults \in 0..MaxFaults /\ earned \subseteq Identifiers
  BY <1>3, <1>4 DEF Init
<1>5. ASSUME Init
      PROVE  /\ login \in [Logins -> [at : {"idle", "verify", "logAttempt"}, id : Identifiers \union {{}}]]
             /\ \A l \in Logins : login[l].at # "idle" => login[l].id \in Identifiers
  BY <1>1, <1>5 DEF Init
<1>6. ASSUME Init PROVE /\ run \in [Detectors -> Runs]
                        /\ \A d \in Detectors : run[d].at = "idle"
  BY <1>2, <1>6 DEF Init
<1>7. ASSUME Init PROVE fails \in [Identifiers -> [Ages -> Nat]]
  BY <1>7 DEF Init
<1> QED
  BY <1>4, <1>5, <1>6, <1>7 DEF TypeOK, Runs

LEMMA RunTypes ==
  ASSUME TypeOK, NEW d \in Detectors, StartRun(d) \/ Proceed(d) \/ RunFails(d)
  PROVE  /\ run' \in [Detectors -> Runs]
         /\ \A e \in Detectors : run'[e].at \in {"lock", "event", "audit"} => run'[e].user \in Users
         /\ locked' \subseteq Users /\ outbox' \subseteq Users /\ audited' \subseteq Users
<1>1. /\ run \in [Detectors -> Runs] /\ run[d] \in Runs
      /\ \A e \in Detectors : run[e].at \in {"lock", "event", "audit"} => run[e].user \in Users
      /\ locked \subseteq Users /\ outbox \subseteq Users /\ audited \subseteq Users
  BY DEF TypeOK, Runs
<1>2. ASSUME NEW r \in Runs, run' = [run EXCEPT ![d] = r],
             r.at \in {"lock", "event", "audit"} => r.user \in Users
      PROVE  /\ run' \in [Detectors -> Runs]
             /\ \A e \in Detectors : run'[e].at \in {"lock", "event", "audit"} => run'[e].user \in Users
  BY <1>1, <1>2
<1>3. \A groups \in SUBSET Identifiers :
        After(groups) \in Runs /\ After(groups).at \in {"idle", "find"}
  BY DEF After, Runs, NoRun
<1>4. ASSUME StartRun(d) PROVE alerts' = alerts /\ \E r \in Runs :
        run' = [run EXCEPT ![d] = r] /\ r.at \in {"idle", "find"}
  <2>1. NoRun \in Runs /\ NoRun.at = "idle" /\ OverThreshold \in SUBSET Identifiers
    BY DEF NoRun, Runs, OverThreshold
  <2>2. [at |-> "find", groups |-> OverThreshold, user |-> NoUser] \in Runs
    BY <2>1 DEF Runs
  <2> QED
    BY <1>4, <2>1, <2>2 DEF StartRun
<1>5. ASSUME FindTarget(d) PROVE alerts' = alerts /\ \E r \in Runs :
        run' = [run EXCEPT ![d] = r] /\ (r.at \in {"lock", "event", "audit"} => r.user \in Users)
  <2>1. PICK i \in run[d].groups :
          \/ \E u \in Names[i] \ locked :
               run' = [run EXCEPT ![d] = [at |-> "lock", groups |-> run[d].groups \ {i}, user |-> u]]
          \/ run' = [run EXCEPT ![d] = After(run[d].groups \ {i})]
    BY <1>5 DEF FindTarget
  <2>2. run[d].groups \ {i} \in SUBSET Identifiers /\ Names[i] \subseteq Users
    BY <1>1, ThreatAssumption DEF Runs, ThreatAssumption
  <2>3. \A u \in Names[i] : [at |-> "lock", groups |-> run[d].groups \ {i}, user |-> u] \in Runs
    BY <2>2 DEF Runs
  <2> QED
    BY <1>3, <1>5, <2>1, <2>2, <2>3 DEF FindTarget
<1>6. ASSUME Lock(d) \/ EmitLocked(d)
      PROVE  /\ \E r \in Runs : run' = [run EXCEPT ![d] = r] /\ r.user \in Users
             /\ locked' \subseteq Users /\ outbox' \subseteq Users /\ audited' \subseteq Users
  <2>1. run[d].user \in Users
    BY <1>1, <1>6 DEF Lock, EmitLocked
  <2>2. \A a \in {"event", "audit"} : /\ [run[d] EXCEPT !.at = a] \in Runs
                                     /\ [run[d] EXCEPT !.at = a].user = run[d].user
    BY <1>1 DEF Runs
  <2> QED
    BY <1>1, <1>6, <2>1, <2>2 DEF Lock, EmitLocked
<1>7. ASSUME Audit(d)
      PROVE  /\ \E r \in Runs : run' = [run EXCEPT ![d] = r] /\ r.at \in {"idle", "find"}
             /\ locked' \subseteq Users /\ outbox' \subseteq Users /\ audited' \subseteq Users
  <2>1. run[d].user \in Users /\ run[d].groups \in SUBSET Identifiers
    BY <1>1, <1>7 DEF Audit, Runs
  <2>2. After(run[d].groups) \in Runs /\ After(run[d].groups).at \in {"idle", "find"}
    BY <1>3, <2>1
  <2>3. run' = [run EXCEPT ![d] = After(run[d].groups)]
    BY <1>7 DEF Audit
  <2> QED
    BY <1>1, <1>7, <2>1, <2>2, <2>3 DEF Audit
<1>8. ASSUME RunFails(d) PROVE alerts' = alerts /\ \E r \in Runs :
        run' = [run EXCEPT ![d] = r] /\ r.at = "idle"
  <2>1. NoRun \in Runs /\ NoRun.at = "idle"
    BY DEF NoRun, Runs
  <2> QED
    BY <1>8, <2>1 DEF RunFails
<1> QED
  BY <1>1, <1>2, <1>4, <1>5, <1>6, <1>7, <1>8 DEF Proceed, alerts

LEMMA NextTypes == TypeOK /\ [Next]_vars => TypeOK'
<1> SUFFICES ASSUME TypeOK, [Next]_vars PROVE TypeOK'
  OBVIOUS
<1> DEFINE Logged == [at : {"idle", "verify", "logAttempt"}, id : Identifiers \union {{}}]
<1>1. CASE Next
  <2>1. earned' \subseteq Identifiers
    BY <1>1 DEF Next, Observe, AtThreshold, TypeOK
  <2>2. ASSUME NEW l \in Logins, (\E i \in Identifiers : FindUser(l, i)) \/ VerifyPassword(l) \/ LogAttempt(l)
        PROVE  TypeOK'
    <3>1. UNCHANGED <<alerts, due, run, faults>>
      BY <2>2 DEF FindUser, VerifyPassword, LogAttempt
    <3>2. login \in [Logins -> Logged] /\ fails \in [Identifiers -> [Ages -> Nat]] /\ 0 \in Ages
      BY ThreatAssumption DEF TypeOK, Ages, ThreatAssumption
    <3>3. /\ login' \in [Logins -> Logged]
          /\ \A m \in Logins : login'[m].at # "idle" => login'[m].id \in Identifiers
      <4>1. NoLogin \in Logged /\ NoLogin.at = "idle"
        BY DEF NoLogin
      <4>2. /\ [login[l] EXCEPT !.at = "logAttempt"] \in Logged
            /\ [login[l] EXCEPT !.at = "logAttempt"].id = login[l].id
        BY <3>2
      <4>3. \A i \in Identifiers, a \in {"verify", "logAttempt"} : [at |-> a, id |-> i] \in Logged
        OBVIOUS
      <4>4. \A m \in Logins : login[m].at # "idle" => login[m].id \in Identifiers
        BY DEF TypeOK
      <4>5. PICK e \in Logged : login' = [login EXCEPT ![l] = e] /\ (e.at # "idle" => e.id \in Identifiers)
        <5>1. CASE \E i \in Identifiers : FindUser(l, i)
          <6>1. PICK i \in Identifiers, a \in {"verify", "logAttempt"} :
                  login' = [login EXCEPT ![l] = [at |-> a, id |-> i]]
            BY <5>1 DEF FindUser
          <6>2. [at |-> a, id |-> i] \in Logged
            BY <4>3
          <6>3. [at |-> a, id |-> i].id \in Identifiers
            OBVIOUS
          <6> HIDE DEF Logged
          <6> QED
            BY <6>1, <6>2, <6>3
        <5>2. CASE VerifyPassword(l) \/ LogAttempt(l)
          <6>1. login' = [login EXCEPT ![l] = NoLogin]
                  \/ (login[l].at = "verify" /\ login' = [login EXCEPT ![l] = [login[l] EXCEPT !.at = "logAttempt"]])
            BY <5>2 DEF VerifyPassword, LogAttempt
          <6>2. login[l].at = "verify" => login[l].id \in Identifiers
            BY <4>4
          <6> QED
            BY <4>1, <4>2, <6>1, <6>2
        <5> QED
          BY <2>2, <5>1, <5>2
      <4> HIDE DEF Logged
      <4> QED
        BY <3>2, <4>4, <4>5
    <3>4. fails' \in [Identifiers -> [Ages -> Nat]]
      <4>1. CASE LogAttempt(l)
        <5>1. login[l].id \in Identifiers
          BY <4>1 DEF LogAttempt, TypeOK
        <5>2. fails[login[l].id] \in [Ages -> Nat] /\ fails[login[l].id][0] + 1 \in Nat
          BY <3>2, <5>1
        <5> QED
          BY <3>2, <4>1, <5>1, <5>2 DEF LogAttempt
      <4>2. CASE ~LogAttempt(l)
        BY <2>2, <3>2, <4>2 DEF FindUser, VerifyPassword
      <4> QED
        BY <4>1, <4>2
    <3> QED
      BY <2>1, <3>1, <3>3, <3>4 DEF TypeOK, alerts
  <2>3. CASE Minute
    <3>1. fails \in [Identifiers -> [Ages -> Nat]] /\ Window \in Nat \ {0}
      BY ThreatAssumption DEF TypeOK, ThreatAssumption
    <3>2. fails' \in [Identifiers -> [Ages -> Nat]]
      <4>1. \A i \in Identifiers : fails[i] \in [Ages -> Nat]
        BY <3>1
      <4>2. CASE Minute
        <5>1. \A a \in Ages : a # 0 /\ a <= Window => a - 1 \in Ages
          BY <3>1 DEF Ages
        <5>2. Window \in Ages /\ Window + 1 \in Ages
          BY <3>1 DEF Ages
        <5>3. \A i \in Identifiers, a \in Ages :
                (IF a = 0 THEN 0 ELSE IF a <= Window THEN fails[i][a - 1]
                 ELSE fails[i][Window] + fails[i][Window + 1]) \in Nat
          BY <4>1, <5>1, <5>2
        <5> QED
          BY <4>2, <5>3 DEF Minute
      <4> QED
        BY <2>3, <4>2
    <3> QED
      BY <2>1, <2>3, <3>2 DEF Minute, TypeOK, alerts
  <2>4. ASSUME NEW d \in Detectors, StartRun(d) \/ Proceed(d) \/ RunFails(d)
        PROVE  TypeOK'
    <3>1. fails' = fails /\ login' = login /\ due' \in BOOLEAN
      BY <2>4 DEF StartRun, Proceed, FindTarget, Lock, EmitLocked, Audit, RunFails, TypeOK
    <3>2. faults' = faults \/ (faults < MaxFaults /\ faults' = faults + 1)
      BY <2>4 DEF StartRun, Proceed, FindTarget, Lock, EmitLocked, Audit, RunFails
    <3>3. faults' \in 0..MaxFaults
      BY <3>2, ThreatAssumption DEF TypeOK, ThreatAssumption
    <3>4. /\ run' \in [Detectors -> Runs]
          /\ \A e \in Detectors : run'[e].at \in {"lock", "event", "audit"} => run'[e].user \in Users
          /\ locked' \subseteq Users /\ outbox' \subseteq Users /\ audited' \subseteq Users
      BY <2>4, RunTypes
    <3> QED
      BY <2>1, <3>1, <3>3, <3>4 DEF TypeOK, Runs
  <2> QED
    BY <1>1, <2>2, <2>3, <2>4 DEF Next, Step
<1>2. CASE UNCHANGED vars
  BY <1>2 DEF vars, alerts, TypeOK
<1> QED
  BY <1>1, <1>2

\* Logins and runs stay where they may be: a run that locks, announces or audits
\* has a user.
THEOREM TypeCorrect == Spec => []TypeOK
  BY InitTypes, NextTypes, PTL DEF Spec

-----------------------------------------------------------------------------
(* RateLimit: what the strengthening is made of.                           *)

Waiting == {w \in Workers : pc[w] \in {"clean", "upsert"}}
Served == {w \in Workers : pc[w] \in {"decide", "reset"}}
Admitted == {w \in Workers : pc[w] = "decide" /\ record[w].hits <= Limit}

\* Every request is counted once, and passes only after it was counted.
CountInv ==
  /\ Len(passed) + Cardinality(Served) <= Len(counted)
  /\ Len(counted) + Cardinality(Waiting) <= MaxRequests

\* The row counts no request that is older than its window.
RowInv ==
  hits > 0 =>
    /\ TTL <= until /\ until <= now + TTL
    /\ hits <= Cardinality(Since(counted, until - TTL))

\* Nor does the row a request was given, and the request itself was counted
\* since it arrived.
SeenInv ==
  \A w \in Workers :
    /\ arrived[w] <= now
    /\ pc[w] = "decide" =>
         /\ TTL <= record[w].until
         /\ record[w].hits <= Cardinality(Since(counted, record[w].until - TTL))
    /\ pc[w] \in {"decide", "reset"} => Since(counted, arrived[w]) # {}

\* In the first window no row expires, and whoever is let in is in its count.
FirstInv ==
  now <= TTL =>
    /\ \A w \in Workers : pc[w] # "reset"
    /\ Len(passed) + Cardinality(Admitted) <= hits
    /\ Len(passed) + Cardinality(Admitted) <= Limit

RateInv == RateTypeOK /\ CountInv /\ RowInv /\ SeenInv /\ FirstInv

LEMMA LogGrows ==
  ASSUME NEW log \in Seq(Times), NEW e \in Times
  PROVE  /\ Append(log, e) \in Seq(Times)
         /\ Len(log) \in Nat /\ Len(Append(log, e)) = Len(log) + 1
         /\ \A i \in 1..Len(log) : log[i] \in Times /\ Append(log, e)[i] = log[i]
         /\ Append(log, e)[Len(log) + 1] = e
  BY AppendProperties, LenProperties, ElementOfSeq

LEMMA SinceIsFinite ==
  ASSUME NEW log \in Seq(Times), NEW t \in Int
  PROVE  IsFiniteSet(Since(log, t)) /\ Cardinality(Since(log, t)) \in Nat
<1>1. Len(log) \in Nat
  BY LenProperties
<1>2. IsFiniteSet(1..Len(log)) /\ Since(log, t) \in SUBSET (1..Len(log))
  BY <1>1, FS_Interval DEF Since
<1> QED
  BY <1>2, FS_Subset, FS_CardinalityType

LEMMA SinceBounded ==
  ASSUME NEW log \in Seq(Times), NEW t \in Int
  PROVE  Cardinality(Since(log, t)) <= Len(log)
<1>1. PICK n \in Nat : n = Len(log)
  BY LenProperties
<1>2. IsFiniteSet(1..n) /\ Cardinality(1..n) = n
  BY FS_Interval
<1>3. Since(log, t) \in SUBSET (1..n)
  BY <1>1 DEF Since
<1> QED
  BY <1>1, <1>2, <1>3, FS_Subset

\* The longer one looks back, the more one finds.
LEMMA SinceEarlier ==
  ASSUME NEW log \in Seq(Times), NEW t \in Int, NEW u \in Int, t <= u
  PROVE  Cardinality(Since(log, u)) <= Cardinality(Since(log, t))
<1>1. \A i \in 1..Len(log) : log[i] \in Times
  BY ElementOfSeq
<1>2. Since(log, u) \in SUBSET Since(log, t)
  BY <1>1, RateLimitAssumption DEF Since, Times, RateLimitAssumption
<1> QED
  BY <1>2, SinceIsFinite, FS_Subset

\* One more entry is in every window that reaches it.
LEMMA SinceAppended ==
  ASSUME NEW log \in Seq(Times), NEW e \in Times, NEW t \in Int
  PROVE  /\ Cardinality(Since(log, t)) <= Cardinality(Since(Append(log, e), t))
         /\ Since(log, t) \subseteq Since(Append(log, e), t)
         /\ e >= t => /\ Cardinality(Since(Append(log, e), t)) = Cardinality(Since(log, t)) + 1
                      /\ Since(Append(log, e), t) # {}
<1> DEFINE more == Append(log, e)
           n == Len(log) + 1
<1>1. /\ more \in Seq(Times) /\ Len(log) \in Nat /\ Len(more) = n
      /\ \A i \in 1..Len(log) : more[i] = log[i]
      /\ more[n] = e
  BY LogGrows
<1>2. Since(log, t) \subseteq Since(more, t)
  BY <1>1 DEF Since
<1>3. n \notin Since(log, t)
  BY <1>1 DEF Since
<1>4. CASE e >= t
  <2>1. Since(more, t) = Since(log, t) \union {n}
    BY <1>1, <1>4 DEF Since
  <2>2. IsFiniteSet(Since(log, t)) /\ Cardinality(Since(log, t)) \in Nat
    BY SinceIsFinite
  <2>3. Cardinality(Since(more, t)) = Cardinality(Since(log, t)) + 1
    BY <1>3, <2>1, <2>2, FS_AddElement
  <2>4. Since(more, t) # {}
    BY <2>1
  <2> QED
    BY <1>2, <2>2, <2>3, <2>4
<1>5. CASE ~(e >= t)
  BY <1>1, <1>2, <1>5, SinceIsFinite, FS_Subset
<1> QED
  BY <1>4, <1>5

\* One request joins or leaves a set of requests.
LEMMA OneMoves ==
  ASSUME NEW A \in SUBSET Workers
  PROVE  /\ Cardinality(A) \in Nat
         /\ \A w : w \notin A => Cardinality(A \union {w}) = Cardinality(A) + 1
         /\ \A w : w \in A => Cardinality(A \ {w}) = Cardinality(A) - 1
<1>1. IsFiniteSet(A)
  BY FS_Subset, RateLimitAssumption DEF RateLimitAssumption
<1> QED
  BY <1>1, FS_CardinalityType, FS_AddElement, FS_RemoveElement

LEMMA NoneMoved == Cardinality({}) = 0
  BY FS_EmptySet

-----------------------------------------------------------------------------
LEMMA RateInitHolds == RateInit => RateInv
<1> SUFFICES ASSUME RateInit PROVE RateInv
  OBVIOUS
<1>1. RateTypeOK
  BY RateLimitAssumption, EmptySeq
     DEF RateInit, RateTypeOK, RateLimitAssumption, Times, Steps, NoRecord
<1>2. Waiting = {} /\ Served = {} /\ Admitted = {}
  BY DEF RateInit, Waiting, Served, Admitted
<1>3. Len(passed) = 0 /\ Len(counted) = 0
  BY EmptySeq DEF RateInit
<1>4. CountInv
  BY <1>2, <1>3, NoneMoved, RateLimitAssumption DEF CountInv, RateLimitAssumption
<1>5. RowInv /\ SeenInv
  BY DEF RateInit, RowInv, SeenInv
<1>6. FirstInv
  BY <1>2, <1>3, NoneMoved, RateLimitAssumption DEF FirstInv, RateInit, RateLimitAssumption
<1> QED
  BY <1>1, <1>4, <1>5, <1>6 DEF RateInv

LEMMA ArriveKeeps ==
  ASSUME RateInv, NEW w \in Workers, Arrive(w)
  PROVE  RateInv'
<1>1. /\ pc \in [Workers -> Steps] /\ pc[w] = "idle"
      /\ pc' = [pc EXCEPT ![w] = "clean"]
      /\ arrived' = [arrived EXCEPT ![w] = now]
      /\ UNCHANGED <<now, hits, until, record, counted, passed>>
  BY DEF Arrive, Goto, RateInv, RateTypeOK, table
<1>2. RateTypeOK'
  BY <1>1 DEF RateInv, RateTypeOK, Steps
<1>3. Waiting' = Waiting \union {w} /\ w \notin Waiting /\ Served' = Served
  BY <1>1 DEF Waiting, Served
<1>4. Waiting \in SUBSET Workers
  BY DEF Waiting
<1>5. Len(counted) \in Nat /\ MaxRequests \in Nat
  BY LenProperties, RateLimitAssumption DEF RateInv, RateTypeOK, RateLimitAssumption
<1>6. CountInv'
  <2>1. Cardinality(Waiting') = Cardinality(Waiting) + 1 /\ Cardinality(Waiting) \in Nat
    BY <1>3, <1>4, OneMoves
  <2>2. Len(counted) + Cardinality(Waiting) < MaxRequests
    BY DEF Arrive, Waiting
  <2> QED
    BY <1>1, <1>3, <1>5, <2>1, <2>2 DEF CountInv, RateInv
<1>7. RowInv'
  BY <1>1 DEF RowInv, RateInv
<1>8. SeenInv'
  BY <1>1 DEF SeenInv, RateInv, RateTypeOK, Times
<1>9. Admitted' = Admitted /\ \A v \in Workers : pc[v] # "reset" => pc'[v] # "reset"
  BY <1>1 DEF Admitted
<1>10. FirstInv'
  BY <1>1, <1>9 DEF FirstInv, RateInv
<1> QED
  BY <1>2, <1>6, <1>7, <1>8, <1>10 DEF RateInv

LEMMA CleanKeeps ==
  ASSUME RateInv, NEW w \in Workers, Clean(w)
  PROVE  RateInv'
<1>1. /\ pc \in [Workers -> Steps] /\ pc[w] = "clean"
      /\ pc' = [pc EXCEPT ![w] = "upsert"]
      /\ hits' = IF until < arrived[w] THEN 0 ELSE hits
      /\ UNCHANGED <<now, until, arrived, record, counted, passed>>
  BY DEF Clean, Goto, RateInv, RateTypeOK
<1>2. hits' \in 0..MaxRequests
  BY <1>1, RateLimitAssumption DEF RateInv, RateTypeOK, RateLimitAssumption
<1>3. RateTypeOK'
  BY <1>1, <1>2 DEF RateInv, RateTypeOK, Steps
<1>4. Waiting' = Waiting /\ Served' = Served
  BY <1>1 DEF Waiting, Served
<1>5. CountInv'
  BY <1>1, <1>4 DEF CountInv, RateInv
<1>6. RowInv'
  BY <1>1 DEF RowInv, RateInv
<1>7. SeenInv'
  BY <1>1 DEF SeenInv, RateInv
<1>8. now <= TTL => hits' = hits
  <2>1. arrived[w] <= now /\ arrived[w] \in Nat /\ now \in Nat /\ until \in Nat /\ hits \in Nat
    BY DEF RateInv, SeenInv, RateTypeOK, Times
  <2> QED
    BY <1>1, <2>1, RateLimitAssumption DEF RateInv, RowInv, RateLimitAssumption
<1>9. Admitted' = Admitted /\ \A v \in Workers : pc[v] # "reset" => pc'[v] # "reset"
  BY <1>1 DEF Admitted
<1>10. FirstInv'
  BY <1>1, <1>8, <1>9 DEF FirstInv, RateInv
<1> QED
  BY <1>3, <1>5, <1>6, <1>7, <1>10 DEF RateInv

\* What an upsert leaves behind: a row that counts no request older than its
\* window, this one included.
LEMMA UpsertCounts ==
  ASSUME RateInv, NEW w \in Workers, Upsert(w)
  PROVE  /\ until' \in 0..(MaxTime + TTL) /\ TTL <= until' /\ until' <= now + TTL
         /\ hits' = hits + 1 /\ hits' <= Cardinality(Since(counted', until' - TTL))
         /\ Since(counted', arrived[w]) # {}
<1>1. /\ now \in Times /\ arrived[w] \in Times /\ arrived[w] <= now
      /\ hits \in Nat /\ until \in 0..(MaxTime + TTL) /\ counted \in Seq(Times)
      /\ arrived[w] \in Int /\ now \in Int /\ arrived[w] >= 0
      /\ arrived[w] <= MaxTime /\ now <= MaxTime /\ MaxTime \in Nat /\ TTL \in Nat
  BY RateLimitAssumption DEF RateInv, RateTypeOK, SeenInv, Times, RateLimitAssumption
<1>2. hits' = hits + 1 /\ counted' = Append(counted, now)
  BY DEF Upsert
<1>3. Since(counted', arrived[w]) # {}
  BY <1>1, <1>2, SinceAppended
<1>4. CASE hits = 0
  <2>1. until' = arrived[w] + TTL
    BY <1>4 DEF Upsert, ExpiresAt
  <2>2. until' - TTL = arrived[w]
    BY <1>1, <2>1
  <2>3. /\ Cardinality(Since(counted', arrived[w])) = Cardinality(Since(counted, arrived[w])) + 1
        /\ Cardinality(Since(counted, arrived[w])) \in Nat
    BY <1>1, <1>2, SinceAppended, SinceIsFinite
  <2> QED
    BY <1>1, <1>2, <1>3, <1>4, <2>1, <2>2, <2>3
<1>5. CASE hits # 0
  <2>1. /\ until' = until /\ TTL <= until /\ until <= now + TTL
        /\ hits <= Cardinality(Since(counted, until - TTL))
    BY <1>1, <1>5 DEF Upsert, RateInv, RowInv
  <2>2. until - TTL \in Int /\ now >= until - TTL
    BY <1>1, <2>1
  <2>3. /\ Cardinality(Since(counted', until - TTL)) = Cardinality(Since(counted, until - TTL)) + 1
        /\ Cardinality(Since(counted, until - TTL)) \in Nat
    BY <1>1, <1>2, <2>2, SinceAppended, SinceIsFinite
  <2> QED
    BY <1>1, <1>2, <1>3, <2>1, <2>3
<1> QED
  BY <1>4, <1>5

LEMMA UpsertKeeps ==
  ASSUME RateInv, NEW w \in Workers, Upsert(w)
  PROVE  RateInv'
<1>1. /\ pc \in [Workers -> Steps] /\ pc[w] = "upsert"
      /\ pc' = [pc EXCEPT ![w] = "decide"]
      /\ record' = [record EXCEPT ![w] = [hits |-> hits', until |-> until']]
      /\ counted' = Append(counted, now)
      /\ UNCHANGED <<now, arrived, passed>>
      /\ now \in Times /\ counted \in Seq(Times) /\ Len(counted) \in Nat /\ hits \in Nat
      /\ passed \in Seq(Times) /\ Len(passed) \in Nat /\ MaxRequests \in Nat /\ TTL \in Nat
  BY LenProperties, RateLimitAssumption
     DEF Upsert, Goto, RateInv, RateTypeOK, RateLimitAssumption
<1>2. /\ Waiting' = Waiting \ {w} /\ w \in Waiting
      /\ Served' = Served \union {w} /\ w \notin Served
  BY <1>1 DEF Waiting, Served
<1>3. /\ Cardinality(Waiting') = Cardinality(Waiting) - 1
      /\ Cardinality(Served') = Cardinality(Served) + 1
      /\ Cardinality(Waiting) \in Nat /\ Cardinality(Served) \in Nat /\ Cardinality(Waiting') \in Nat
  <2>1. Waiting \in SUBSET Workers /\ Served \in SUBSET Workers /\ Waiting' \in SUBSET Workers
    BY <1>2 DEF Waiting, Served
  <2> QED
    BY <1>2, <2>1, OneMoves
<1>4. Len(counted') = Len(counted) + 1 /\ counted' \in Seq(Times)
  BY <1>1, LogGrows
<1>5. CountInv'
  BY <1>1, <1>3, <1>4 DEF CountInv, RateInv
<1>6. hits' <= MaxRequests /\ hits' \in Nat
  <2>1. /\ until' - TTL \in Int /\ hits' <= Cardinality(Since(counted', until' - TTL))
        /\ hits' = hits + 1
    BY <1>1, UpsertCounts, RateLimitAssumption DEF RateLimitAssumption
  <2>2. Cardinality(Since(counted', until' - TTL)) <= Len(counted')
    BY <1>4, <2>1, SinceBounded
  <2>3. Cardinality(Since(counted', until' - TTL)) \in Nat
    BY <1>4, <2>1, SinceIsFinite
  <2> QED
    BY <1>1, <1>3, <1>4, <1>5, <2>1, <2>2, <2>3 DEF CountInv
<1>7. RateTypeOK'
  <2>1. hits' \in 1..MaxRequests /\ until' \in 0..(MaxTime + TTL)
    BY <1>1, <1>6, UpsertCounts
  <2>2. Len(counted') <= MaxRequests /\ Len(passed) <= Len(counted')
    BY <1>1, <1>3, <1>4, <1>5 DEF CountInv, RateInv, RateTypeOK
  <2> QED
    BY <1>1, <1>4, <2>1, <2>2 DEF RateInv, RateTypeOK, Steps
<1>8. RowInv'
  BY <1>1, UpsertCounts DEF RowInv
<1>9. SeenInv'
  <2> SUFFICES ASSUME NEW v \in Workers
               PROVE  /\ arrived[v] <= now
                      /\ pc'[v] = "decide" =>
                           /\ TTL <= record'[v].until
                           /\ record'[v].hits <= Cardinality(Since(counted', record'[v].until - TTL))
                      /\ pc'[v] \in {"decide", "reset"} => Since(counted', arrived[v]) # {}
    BY <1>1 DEF SeenInv
  <2>1. /\ arrived[v] \in Int /\ record[v].until \in Nat /\ record[v].hits \in Nat
        /\ arrived[v] <= now /\ record[v].until - TTL \in Int
    BY <1>1 DEF RateInv, RateTypeOK, SeenInv, Times
  <2>2. CASE v = w
    <3>1. record'[w] = [hits |-> hits', until |-> until']
      BY <1>1 DEF RateInv, RateTypeOK
    <3> QED
      BY <2>1, <2>2, <3>1, UpsertCounts
  <2>3. CASE v # w
    <3>1. pc'[v] = pc[v] /\ record'[v] = record[v]
      BY <1>1, <2>3 DEF RateInv, RateTypeOK
    <3>2. /\ Cardinality(Since(counted, record[v].until - TTL))
               <= Cardinality(Since(counted', record[v].until - TTL))
          /\ Cardinality(Since(counted, record[v].until - TTL)) \in Nat
          /\ Cardinality(Since(counted', record[v].until - TTL)) \in Nat
          /\ Since(counted, arrived[v]) \subseteq Since(counted', arrived[v])
      BY <1>1, <1>4, <2>1, SinceAppended, SinceIsFinite
    <3> QED
      BY <2>1, <3>1, <3>2 DEF RateInv, SeenInv
  <2> QED
    BY <2>2, <2>3
<1>10. FirstInv'
  <2>1. hits' = hits + 1 /\ Limit \in Nat
    BY UpsertCounts, RateLimitAssumption DEF RateLimitAssumption
  <2>2. \A v \in Workers : pc[v] # "reset" => pc'[v] # "reset"
    BY <1>1
  <2>3. record'[w].hits = hits'
    BY <1>1 DEF RateInv, RateTypeOK
  <2>4. Admitted' = IF hits' <= Limit THEN Admitted \union {w} ELSE Admitted
    BY <1>1, <2>3 DEF Admitted
  <2>5. Admitted \in SUBSET Workers /\ w \notin Admitted
    BY <1>1 DEF Admitted
  <2>6. /\ Cardinality(Admitted) \in Nat
        /\ Cardinality(Admitted') = IF hits' <= Limit THEN Cardinality(Admitted) + 1 ELSE Cardinality(Admitted)
    BY <2>4, <2>5, OneMoves
  <2> QED
    BY <1>1, <2>1, <2>2, <2>6 DEF FirstInv, RateInv
<1> QED
  BY <1>5, <1>7, <1>8, <1>9, <1>10 DEF RateInv

\* A request that was counted has its verdict and leaves.
LEMMA VerdictKeeps ==
  ASSUME RateInv, NEW w \in Workers, w \in Served, Return(w), UNCHANGED <<now, counted>>,
         passed' = passed \/ passed' = Append(passed, now),
         hits' \in 0..MaxRequests, until' \in 0..(MaxTime + TTL)
  PROVE  RateTypeOK' /\ CountInv' /\ SeenInv'
<1>1. /\ pc \in [Workers -> Steps] /\ pc[w] \in {"decide", "reset"}
      /\ pc' = [pc EXCEPT ![w] = "idle"]
      /\ arrived' = [arrived EXCEPT ![w] = 0]
      /\ record' = [record EXCEPT ![w] = NoRecord]
      /\ now \in Times /\ passed \in Seq(Times) /\ counted \in Seq(Times)
      /\ Len(passed) \in Nat /\ Len(counted) \in Nat
  BY LenProperties DEF Return, Goto, Served, RateInv, RateTypeOK
<1>2. passed' \in Seq(Times) /\ Len(passed') \in Nat /\ Len(passed') <= Len(passed) + 1
  <2>1. /\ Append(passed, now) \in Seq(Times) /\ Len(Append(passed, now)) = Len(passed) + 1
    BY <1>1, LogGrows
  <2>2. CASE passed' = passed
    BY <1>1, <2>2
  <2>3. CASE passed' = Append(passed, now)
    BY <1>1, <2>1, <2>3
  <2> QED
    BY <2>2, <2>3
<1>3. Waiting' = Waiting /\ Served' = Served \ {w}
  BY <1>1 DEF Waiting, Served
<1>4. /\ Cardinality(Served') = Cardinality(Served) - 1
      /\ Cardinality(Served) \in Nat /\ Cardinality(Served') \in Nat
  <2>1. Served \in SUBSET Workers /\ Served' \in SUBSET Workers
    BY <1>3 DEF Served
  <2> QED
    BY <1>3, <2>1, OneMoves
<1>5. CountInv'
  BY <1>1, <1>2, <1>3, <1>4 DEF CountInv, RateInv
<1>6. NoRecord \in [hits : 0..MaxRequests, until : 0..(MaxTime + TTL)] /\ 0 \in Times
  BY RateLimitAssumption DEF NoRecord, Times, RateLimitAssumption
<1>7. RateTypeOK'
  <2>1. Len(passed') <= Len(counted')
    BY <1>1, <1>2, <1>4, <1>5 DEF CountInv
  <2> QED
    BY <1>1, <1>2, <1>6, <2>1 DEF RateInv, RateTypeOK, Steps
<1>8. SeenInv'
  BY <1>1 DEF SeenInv, RateInv, RateTypeOK, Times
<1> QED
  BY <1>5, <1>7, <1>8

LEMMA DecideKeeps ==
  ASSUME RateInv, NEW w \in Workers, Decide(w)
  PROVE  RateInv'
<1>1. /\ pc \in [Workers -> Steps] /\ pc[w] = "decide" /\ w \in Served
      /\ UNCHANGED <<now, hits, until, counted>>
      /\ now \in Nat /\ record[w].until \in Nat /\ record[w].hits \in Nat
      /\ passed \in Seq(Times) /\ now \in Times /\ Len(passed) \in Nat
      /\ hits \in 0..MaxRequests /\ until \in 0..(MaxTime + TTL)
      /\ Limit \in Nat /\ TTL \in Nat
  BY LenProperties, RateLimitAssumption
     DEF Decide, Served, RateInv, RateTypeOK, Times, table, RateLimitAssumption
<1>2. RowInv'
  BY <1>1 DEF RowInv, RateInv
<1>3. Admitted \in SUBSET Workers
  BY DEF Admitted
<1>4. CASE record[w].until < now /\ Goto(w, "reset") /\ UNCHANGED <<arrived, record, passed>>
  <2>1. pc' = [pc EXCEPT ![w] = "reset"]
    BY <1>4 DEF Goto
  <2>2. Waiting' = Waiting /\ Served' = Served
    BY <1>1, <2>1 DEF Waiting, Served
  <2>3. RateTypeOK'
    BY <1>1, <1>4, <2>1 DEF RateInv, RateTypeOK, Steps
  <2>4. CountInv'
    BY <1>1, <1>4, <2>2 DEF CountInv, RateInv
  <2>5. SeenInv'
    BY <1>1, <1>4, <2>1 DEF SeenInv, RateInv
  <2>6. ~(now <= TTL)
    BY <1>1, <1>4 DEF SeenInv, RateInv
  <2>7. FirstInv'
    BY <1>1, <2>6 DEF FirstInv
  <2> QED
    BY <1>2, <2>3, <2>4, <2>5, <2>7 DEF RateInv
<1>5. CASE record[w].until >= now /\ record[w].hits <= Limit /\ Pass(w)
  <2>1. Return(w) /\ passed' = Append(passed, now)
    BY <1>5 DEF Pass
  <2>2. RateTypeOK' /\ CountInv' /\ SeenInv'
    BY <1>1, <2>1, VerdictKeeps
  <2>3. /\ Admitted' = Admitted \ {w} /\ w \in Admitted
        /\ \A v \in Workers : pc[v] # "reset" => pc'[v] # "reset"
    BY <1>1, <1>5, <2>1 DEF Return, Goto, Admitted, RateInv, RateTypeOK
  <2>4. /\ Cardinality(Admitted') = Cardinality(Admitted) - 1 /\ Cardinality(Admitted) \in Nat
        /\ Len(passed') = Len(passed) + 1
    BY <1>1, <1>3, <2>1, <2>3, OneMoves, LogGrows
  <2>5. FirstInv'
    BY <1>1, <2>3, <2>4 DEF FirstInv, RateInv
  <2> QED
    BY <1>2, <2>2, <2>5 DEF RateInv
<1>6. CASE record[w].until >= now /\ record[w].hits > Limit /\ Block(w)
  <2>1. Return(w) /\ passed' = passed
    BY <1>6 DEF Block
  <2>2. RateTypeOK' /\ CountInv' /\ SeenInv'
    BY <1>1, <2>1, VerdictKeeps
  <2>3. /\ Admitted' = Admitted
        /\ \A v \in Workers : pc[v] # "reset" => pc'[v] # "reset"
    BY <1>1, <1>6, <2>1 DEF Return, Goto, Admitted, RateInv, RateTypeOK
  <2>4. FirstInv'
    BY <1>1, <2>1, <2>3 DEF FirstInv, RateInv
  <2> QED
    BY <1>2, <2>2, <2>4 DEF RateInv
<1> QED
  BY <1>4, <1>5, <1>6 DEF Decide

LEMMA ResetKeeps ==
  ASSUME RateInv, NEW w \in Workers, Reset(w)
  PROVE  RateInv'
<1>1. /\ pc[w] = "reset" /\ w \in Served /\ UNCHANGED <<now, counted>>
      /\ arrived[w] \in Nat /\ arrived[w] <= now /\ arrived[w] <= MaxTime /\ now \in Nat
      /\ counted \in Seq(Times) /\ Since(counted, arrived[w]) # {}
      /\ hits \in 0..MaxRequests /\ until \in 0..(MaxTime + TTL)
      /\ MaxTime \in Nat /\ TTL \in Nat /\ MaxRequests \in Nat
  BY RateLimitAssumption
     DEF Reset, Served, RateInv, RateTypeOK, SeenInv, Times, RateLimitAssumption
<1>2. FirstInv'
  BY <1>1 DEF FirstInv, RateInv
<1>3. CASE hits = 0 /\ Block(w) /\ UNCHANGED table
  <2>1. Return(w) /\ passed' = passed /\ hits' = hits /\ until' = until
    BY <1>3 DEF Block, table
  <2>2. RateTypeOK' /\ CountInv' /\ SeenInv'
    BY <1>1, <2>1, VerdictKeeps
  <2>3. RowInv'
    BY <1>3, <2>1 DEF RowInv
  <2> QED
    BY <1>2, <2>2, <2>3 DEF RateInv
<1>4. CASE hits # 0 /\ hits' = 1 /\ until' = ExpiresAt(w) /\ Pass(w)
  <2>1. Return(w) /\ passed' = Append(passed, now) /\ until' = arrived[w] + TTL
    BY <1>4 DEF Pass, ExpiresAt
  <2>2. hits' \in 0..MaxRequests /\ until' \in 0..(MaxTime + TTL)
    BY <1>1, <1>4, <2>1
  <2>3. RateTypeOK' /\ CountInv' /\ SeenInv'
    BY <1>1, <2>1, <2>2, VerdictKeeps
  <2>4. IsFiniteSet(Since(counted, arrived[w])) /\ Cardinality(Since(counted, arrived[w])) \in Nat
    BY <1>1, SinceIsFinite
  <2>5. Cardinality(Since(counted, arrived[w])) # 0
    BY <1>1, <2>4, FS_EmptySet
  <2>6. until' - TTL = arrived[w]
    BY <1>1, <2>1
  <2>7. RowInv'
    BY <1>1, <1>4, <2>1, <2>4, <2>5, <2>6 DEF RowInv
  <2> QED
    BY <1>2, <2>3, <2>7 DEF RateInv
<1> QED
  BY <1>3, <1>4 DEF Reset

LEMMA TickKeeps == ASSUME RateInv, Tick PROVE RateInv'
<1>1. /\ now' = now + 1 /\ now < MaxTime /\ now \in Nat /\ until \in Nat
      /\ MaxTime \in Nat /\ TTL \in Nat
      /\ UNCHANGED <<hits, until, pc, arrived, record, counted, passed>>
  BY RateLimitAssumption DEF Tick, table, RateInv, RateTypeOK, Times, RateLimitAssumption
<1>2. RateTypeOK'
  BY <1>1 DEF RateInv, RateTypeOK, Times
<1>3. CountInv'
  BY <1>1 DEF RateInv, CountInv, Waiting, Served
<1>4. RowInv'
  BY <1>1 DEF RateInv, RowInv
<1>5. SeenInv'
  BY <1>1 DEF RateInv, RateTypeOK, SeenInv, Times
<1>6. FirstInv'
  BY <1>1 DEF RateInv, FirstInv, Admitted
<1> QED
  BY <1>2, <1>3, <1>4, <1>5, <1>6 DEF RateInv

LEMMA RateNextKeeps == RateInv /\ [RateNext]_rateVars => RateInv'
<1> SUFFICES ASSUME RateInv, [RateNext]_rateVars PROVE RateInv'
  OBVIOUS
<1>1. ASSUME NEW w \in Workers, Continue(w) PROVE RateInv'
  BY <1>1, CleanKeeps, UpsertKeeps, DecideKeeps, ResetKeeps DEF Continue
<1>2. CASE UNCHANGED rateVars
  BY <1>2 DEF rateVars, table, RateInv, RateTypeOK, CountInv, RowInv, SeenInv, FirstInv,
              Waiting, Served, Admitted
<1> QED
  BY <1>1, <1>2, ArriveKeeps, TickKeeps DEF RateNext

LEMMA RateInvHolds == RateSpec => []RateInv
  BY RateInitHolds, RateNextKeeps, PTL DEF RateSpec

\* The row and the requests keep their types: no count exceeds the requests that
\* arrived, although each request is counted before anything is decided.
THEOREM RateTypes == RateSpec => []RateTypeOK
<1>1. RateInv => RateTypeOK
  BY DEF RateInv
<1> QED
  BY RateInvHolds, <1>1, PTL

\* No burst passes the limit before the first window ends.
THEOREM BurstHolds == RateSpec => []BurstWithinLimit
<1>1. RateInv => BurstWithinLimit
  <2> SUFFICES ASSUME RateInv, now <= TTL PROVE Len(passed) <= Limit
    BY DEF BurstWithinLimit
  <2>1. Admitted \in SUBSET Workers /\ Len(passed) \in Nat /\ Limit \in Nat
    BY LenProperties, RateLimitAssumption DEF Admitted, RateInv, RateTypeOK, RateLimitAssumption
  <2>2. Cardinality(Admitted) \in Nat
    BY <2>1, OneMoves
  <2> QED
    BY <2>1, <2>2 DEF RateInv, FirstInv
<1> QED
  BY RateInvHolds, <1>1, PTL

\* A request is blocked only when more than Limit were counted in the last TTL.
THEOREM BlocksAreEarned == RateSpec => NoFalseBlock
<1>1. ASSUME RateInv, NEW w \in Workers, Decide(w), Block(w)
      PROVE  Cardinality(Since(counted, now - TTL)) > Limit
  <2>1. /\ pc[w] = "decide" /\ record[w].until >= now /\ record[w].hits > Limit
    <3>1. pc[w] = "decide" /\ pc'[w] = "idle"
      BY <1>1 DEF Decide, Block, Return, Goto, RateInv, RateTypeOK
    <3>2. ~Goto(w, "reset")
      BY <1>1, <3>1 DEF Goto, RateInv, RateTypeOK
    <3>3. ~Pass(w)
      <4>1. passed \in Seq(Times) /\ now \in Times
        BY <1>1 DEF RateInv, RateTypeOK
      <4>2. Len(passed) \in Nat /\ Len(Append(passed, now)) = Len(passed) + 1
        BY <4>1, LogGrows
      <4> QED
        BY <1>1, <4>2 DEF Block, Pass
    <3> QED
      BY <1>1, <3>1, <3>2, <3>3 DEF Decide
  <2>2. /\ now \in Nat /\ record[w].until \in Nat /\ record[w].hits \in Nat
        /\ TTL \in Nat /\ Limit \in Nat /\ counted \in Seq(Times)
    BY <1>1, RateLimitAssumption DEF RateInv, RateTypeOK, Times, RateLimitAssumption
  <2>3. record[w].hits <= Cardinality(Since(counted, record[w].until - TTL))
    BY <1>1, <2>1 DEF RateInv, SeenInv
  <2>4. /\ now - TTL \in Int /\ record[w].until - TTL \in Int
        /\ now - TTL <= record[w].until - TTL
    BY <2>1, <2>2
  <2>5. /\ Cardinality(Since(counted, record[w].until - TTL)) <= Cardinality(Since(counted, now - TTL))
        /\ Cardinality(Since(counted, record[w].until - TTL)) \in Nat
        /\ Cardinality(Since(counted, now - TTL)) \in Nat
    BY <2>2, <2>4, SinceEarlier, SinceIsFinite
  <2> QED
    BY <2>1, <2>2, <2>3, <2>5
<1>2. RateInv /\ [RateNext]_rateVars
        => [\A w \in Workers :
              Decide(w) /\ Block(w) => Cardinality(Since(counted, now - TTL)) > Limit]_rateVars
  BY <1>1
<1> QED
  BY RateInvHolds, <1>2, PTL DEF RateSpec, NoFalseBlock
=============================================================================
