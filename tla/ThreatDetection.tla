-------------------------- MODULE ThreatDetection --------------------------
(***************************************************************************)
(* Failed logins and the job that locks accounts: SessionService.login up  *)
(* to the point where Session takes over, its logAttempt, and              *)
(* threat-detection.worker.ts.                                             *)
(*                                                                         *)
(* Failures are kept by the identifier that was typed and by their age in  *)
(* minutes.  Names tells which users an identifier is the address or the   *)
(* name of: none, one, or two if one's address is another's name.  Logins  *)
(* are handlers of POST auth/login, detectors are runs of the cron job,    *)
(* which may overlap.                                                      *)
(***************************************************************************)
EXTENDS Integers, FiniteSetsExt

CONSTANTS
  Users, NoUser,
  Identifiers, Names,
  Logins, Detectors,
  MaxFailedLogins,   \* tenant.maxFailedLogins
  Window,            \* the job looks back this many minutes, 5 in the code
  MaxAttempts,       \* bound: how many failures are recorded
  MaxFaults          \* bound: how many runs of the job fail

ASSUME ThreatAssumption ==
  /\ NoUser \notin Users
  /\ Names \in [Identifiers -> SUBSET Users]
  /\ MaxFailedLogins \in Nat \ {0} /\ Window \in Nat \ {0}
  /\ MaxAttempts \in Nat /\ MaxFaults \in Nat

VARIABLES
  locked,   \* the users whose status is LOCKED
  fails,    \* login_attempts: failures by identifier and age
  outbox,   \* the users of the UserLocked events
  audited,  \* the users of the audit entries
  login,    \* the awaited call of each login, and the identifier typed
  due,      \* has the minute passed and the job not started yet?
  run,      \* the awaited call of each run, its groups and its user
  faults,   \* how many runs have failed
  earned    \* ghost: identifiers that had MaxFailedLogins failures in the window

alerts == <<locked, outbox, audited>>
vars == <<alerts, fails, login, due, run, faults, earned>>

Ages == 0..(Window + 1)    \* the last stands for everything older

NoLogin == [at |-> "idle", id |-> {}]    \* {} stands for none
NoRun == [at |-> "idle", groups |-> {}, user |-> NoUser]

TypeOK ==
  /\ locked \subseteq Users /\ outbox \subseteq Users /\ audited \subseteq Users
  /\ fails \in [Identifiers -> [Ages -> Nat]]
  /\ login \in [Logins -> [at : {"idle", "verify", "logAttempt"}, id : Identifiers \union {{}}]]
  /\ \A l \in Logins : login[l].at # "idle" => login[l].id \in Identifiers
  /\ due \in BOOLEAN
  /\ run \in [Detectors -> [at : {"idle", "find", "lock", "event", "audit"},
                            groups : SUBSET Identifiers, user : Users \union {NoUser}]]
  /\ \A d \in Detectors : run[d].at \in {"lock", "event", "audit"} => run[d].user \in Users
  /\ faults \in 0..MaxFaults
  /\ earned \subseteq Identifiers

\* The failures of identifier i in table f that are at most n minutes old.
Failures(f, i, n) == MapThenSumSet(LAMBDA a : f[i][a], {a \in Ages : a <= n})

\* Ghost: who has reached the threshold within the window, whatever the job asks.
AtThreshold == {i \in Identifiers : Failures(fails, i, Window) >= MaxFailedLogins}

Init ==
  /\ locked = {} /\ outbox = {} /\ audited = {}
  /\ fails = [i \in Identifiers |-> [a \in Ages |-> 0]]
  /\ login = [l \in Logins |-> NoLogin]
  /\ due = FALSE
  /\ run = [d \in Detectors |-> NoRun]
  /\ faults = 0
  /\ earned = AtThreshold

Recorded == MapThenSumSet(LAMBDA i : Failures(fails, i, Window + 1), Identifiers)

-----------------------------------------------------------------------------
(* login, with attempts logged in a way that never throws.                 *)

\* findFirst among those of that address or name; if there is none or it finds one
\* who is locked, the login is refused, and that is logged too.
FindUser(l, i) ==
  /\ login[l].at = "idle"
  /\ Recorded + Cardinality({m \in Logins : login[m].at # "idle"}) < MaxAttempts
  /\ \/ Names[i] \ locked # {} /\ login' = [login EXCEPT ![l] = [at |-> "verify", id |-> i]]
     \/ /\ Names[i] = {} \/ Names[i] \intersect locked # {}
        /\ login' = [login EXCEPT ![l] = [at |-> "logAttempt", id |-> i]]
  /\ UNCHANGED <<alerts, fails, due, run, faults>>

\* The password is right, and issueTokensAndSession of Session begins; or wrong.
VerifyPassword(l) ==
  /\ login[l].at = "verify"
  /\ \/ login' = [login EXCEPT ![l] = NoLogin]
     \/ login' = [login EXCEPT ![l].at = "logAttempt"]
  /\ UNCHANGED <<alerts, fails, due, run, faults>>

\* The failure is recorded, or the create fails and nobody learns.
LogAttempt(l) ==
  /\ login[l].at = "logAttempt"
  /\ \/ fails' = [fails EXCEPT ![login[l].id][0] = @ + 1]
     \/ UNCHANGED fails
  /\ login' = [login EXCEPT ![l] = NoLogin]
  /\ UNCHANGED <<alerts, due, run, faults>>

-----------------------------------------------------------------------------
(* handleCredentialStuffingDetection, @Cron(EVERY_MINUTE).                 *)

\* A minute passes.  The timer is served before the next one does.
Minute ==
  /\ ~due /\ due' = TRUE
  /\ fails' = [i \in Identifiers |-> [a \in Ages |->
       IF a = 0 THEN 0
       ELSE IF a <= Window THEN fails[i][a - 1]
       ELSE fails[i][Window] + fails[i][Window + 1]]]
  /\ UNCHANGED <<alerts, login, run, faults>>

(* Definitions named Slip... are plausible mistakes in the definition that   *)
(* follows; no action uses them, the checks put them in its place.           *)

\* The window is forgotten in the query.
SlipOverThreshold == {i \in Identifiers : Failures(fails, i, Window + 1) >= MaxFailedLogins}

\* The last minute of the window is missed.
SlipShortWindow == {i \in Identifiers : Failures(fails, i, Window - 1) >= MaxFailedLogins}

\* The groups with enough recent failures.
OverThreshold == {i \in Identifiers : Failures(fails, i, Window) >= MaxFailedLogins}

\* findMany and the grouping; groups below the threshold are passed over.
StartRun(d) ==
  /\ due /\ due' = FALSE
  /\ run[d].at = "idle"
  /\ run' = [run EXCEPT ![d] =
       IF OverThreshold = {} THEN NoRun
       ELSE [at |-> "find", groups |-> OverThreshold, user |-> NoUser]]
  /\ UNCHANGED <<alerts, fails, login, faults>>

\* The locals after the group of i: on to the next, or the run is over.
After(groups) ==
  IF groups = {} THEN NoRun ELSE [at |-> "find", groups |-> groups, user |-> NoUser]

\* "if (user)" is missing.
SlipFindTarget(d) ==
  /\ run[d].at = "find"
  /\ \E i \in run[d].groups :
       \E u \in IF Names[i] \subseteq locked THEN {NoUser} ELSE Names[i] \ locked :
         run' = [run EXCEPT ![d] = [at |-> "lock", groups |-> @.groups \ {i}, user |-> u]]
  /\ UNCHANGED <<alerts, fails, login, due, faults>>

\* The next group: findFirst among those it names who are not LOCKED; without any, the
\* group is passed over.
FindTarget(d) ==
  /\ run[d].at = "find"
  /\ \E i \in run[d].groups :
       \/ \E u \in Names[i] \ locked :
            run' = [run EXCEPT ![d] = [at |-> "lock", groups |-> @.groups \ {i}, user |-> u]]
       \/ Names[i] \subseteq locked /\ run' = [run EXCEPT ![d] = After(@.groups \ {i})]
  /\ UNCHANGED <<alerts, fails, login, due, faults>>

\* The update is left to the receiver of the event.
SlipLock(d) ==
  /\ run[d].at = "lock"
  /\ run' = [run EXCEPT ![d].at = "event"]
  /\ UNCHANGED <<alerts, fails, login, due, faults>>

Lock(d) ==
  /\ run[d].at = "lock"
  /\ locked' = locked \union {run[d].user}
  /\ run' = [run EXCEPT ![d].at = "event"]
  /\ UNCHANGED <<fails, outbox, audited, login, due, faults>>

EmitLocked(d) ==
  /\ run[d].at = "event"
  /\ outbox' = outbox \union {run[d].user}
  /\ run' = [run EXCEPT ![d].at = "audit"]
  /\ UNCHANGED <<fails, locked, audited, login, due, faults>>

Audit(d) ==
  /\ run[d].at = "audit"
  /\ audited' = audited \union {run[d].user}
  /\ run' = [run EXCEPT ![d] = After(@.groups)]
  /\ UNCHANGED <<fails, locked, outbox, login, due, faults>>

\* A statement throws or the process dies: the rest of the run, whatever its
\* groups, is given up.
RunFails(d) ==
  /\ run[d].at # "idle"
  /\ faults < MaxFaults /\ faults' = faults + 1
  /\ run' = [run EXCEPT ![d] = NoRun]
  /\ UNCHANGED <<alerts, fails, login, due>>

-----------------------------------------------------------------------------
Observe == earned' = earned \union AtThreshold'

Proceed(d) == FindTarget(d) \/ Lock(d) \/ EmitLocked(d) \/ Audit(d)

Step ==
  \/ \E l \in Logins : (\E i \in Identifiers : FindUser(l, i)) \/ VerifyPassword(l) \/ LogAttempt(l)
  \/ Minute
  \/ \E d \in Detectors : StartRun(d) \/ Proceed(d) \/ RunFails(d)

Next == Step /\ Observe

Spec == Init /\ [][Next]_vars

\* Time passes, the timer fires and statements return.
FairSpec ==
  /\ Spec
  /\ WF_vars(Minute /\ Observe)
  /\ WF_vars((\E d \in Detectors : StartRun(d)) /\ Observe)
  /\ \A d \in Detectors : WF_vars(Proceed(d) /\ Observe)

-----------------------------------------------------------------------------
(* What the detection promises.                                            *)

\* Nobody is locked without cause: an identifier that names the user had
\* MaxFailedLogins failures within one window (line 47 locks at that many, though the
\* comment on line 17 wants more), however late a slow run of the job acts upon what
\* it has read, and whichever of the users it names a run of the job finds.
LockIsEarned ==
  \A u \in locked : \E i \in earned : u \in Names[i]

\* What is announced has happened, and an audit entry comes after its event.
AlertsAreTrue == audited \subseteq outbox /\ outbox \subseteq locked

\* A burst of failures on one identifier locks a user it names, although as many runs
\* of the job as MaxFaults fail, at this group or at one before it: the burst stays in
\* the window of a later run.  If it names two, either may be the one that is locked.
BurstIsLocked ==
  \A i \in Identifiers :
    Names[i] # {} /\ Failures(fails, i, Window - 1 - MaxFaults) >= MaxFailedLogins
      ~> Names[i] \intersect locked # {}
=============================================================================
