---------------------------- MODULE AccessProofs ----------------------------
(* Proofs about Access, that is Audit, Rbac and Shield together, for any    *)
(* number of requests, accounts, roles, devices, rules and faults.          *)
EXTENDS Access, Integers, TLAPS

Actions == {"create", "assign", "end", "login", "evaluate"}

Places == {"idle", "insert", "second", "link", "guard", "end", "device", "answer", "profile",
           "policy", "audit"}

Locals ==
  [op : Actions \union {None}, who : Accounts \union People \union {None},
   on : Roles \union Permissions \union Accounts \union Sessions \union {None}
          \union [level : Levels, vpn : BOOLEAN],
   to : Roles \union Permissions \union Devices \union {None},
   tenant : BOOLEAN, read : SUBSET (Roles \union Int)]

Typed ==
  /\ pc \in [Workers -> Places] /\ req \in [Workers -> Locals]
  /\ faults \in Nat
  /\ known \subseteq People \X Devices
  /\ base \in [People -> BaseScores] /\ rules \subseteq Rules
  /\ ended \subseteq Accounts \X Sessions

\* The audited action fits the place of the request.
OpOf(p) ==
  CASE p = "insert" -> "create"
    [] p \in {"second", "link"} -> "assign"
    [] p \in {"guard", "end"} -> "end"
    [] p \in {"device", "answer"} -> "login"
    [] p \in {"profile", "policy"} -> "evaluate"

\* What has been rated so far is not less than what there is now.
Rated(r, extra) ==
  \E score \in Int, n \in DeviceRisks(r.who, r.to) :
    r.read = {score} /\ (n + VpnRisk(r.on.vpn) + extra <= score \/ score >= 100)

Entitled(u) == \A p \in Required : \E r \in Roles : {<<u, r>>, <<r, p>>} \subseteq links

\* What a request in flight holds is still so.
LocalInv(w) ==
  /\ pc[w] \notin {"idle", "audit"} => req[w].op = OpOf(pc[w])
  /\ pc[w] \in {"guard", "end"} => req[w].who \in Accounts /\ req[w].on \in Sessions
  /\ pc[w] = "guard" => \A r \in req[w].read : r \in Roles /\ <<req[w].who, r>> \in links
  /\ pc[w] = "end" => Entitled(req[w].who)
  /\ pc[w] \in {"device", "answer", "profile", "policy"} => /\ req[w].who \in People
                                                            /\ req[w].to \in Devices
  /\ pc[w] = "answer" => <<req[w].who, req[w].to>> \in known
  /\ pc[w] \in {"profile", "policy"} => req[w].on \in [level : Levels, vpn : BOOLEAN]
  /\ pc[w] = "profile" => Rated(req[w], 0)
  /\ pc[w] = "policy" => Rated(req[w], base[req[w].who])
  /\ pc[w] = "audit" => \A e \in Owed(req[w]) : e.action \in Actions /\ Done(e)

\* Entries that are written stay true; passed requests are well-formed.
LogInv == \A e \in log : e.action \in Actions /\ Done(e)
PassedInv ==
  \A r \in passed :
    r.who \in People /\ r.to \in Devices /\ r.on \in [level : Levels, vpn : BOOLEAN]

IInv ==
  /\ Typed /\ LogInv /\ PassedInv
  /\ \A w \in Workers : LocalInv(w)
  /\ DoneIsAudited /\ ConflictIsTrue /\ EndedByEntitled /\ PassedWasTolerated

-----------------------------------------------------------------------------
\* Nothing is taken back.
Grows ==
  /\ made \subseteq made' /\ links \subseteq links' /\ ended \subseteq ended'
  /\ known \subseteq known' /\ twice \subseteq twice' /\ trusted \subseteq trusted'
  /\ UNCHANGED <<base, rules>>

LEMMA DoneStays ==
  ASSUME Grows, NEW e, e.action \in Actions, Done(e)
  PROVE  Done(e)'
  BY DEF Grows, Done, Actions

\* A device does not become riskier.
LEMMA RiskShrinks ==
  ASSUME Grows, NEW u, NEW d, NEW n \in DeviceRisks(u, d)
  PROVE  \E m \in DeviceRisks(u, d)' : m <= n
<1> DEFINE p == <<u, d>>
<1>1. CASE p \notin known
  <2>1. n = 20
    BY <1>1 DEF DeviceRisks
  <2>2. DeviceRisks(u, d)' \in {{20}, {10}, {0}, {10, 0}} /\ DeviceRisks(u, d)' # {}
    BY DEF DeviceRisks
  <2>3. \E m \in DeviceRisks(u, d)' : m \in {0, 10, 20}
    BY <2>2
  <2> QED
    BY <2>1, <2>3
<1>2. CASE p \in known
  <2>1. p \in known'
    BY <1>2 DEF Grows
  <2>2. \/ n = 10
        \/ n = 0 /\ p \in trusted
    BY <1>2 DEF DeviceRisks
  <2>3. p \in trusted => 0 \in DeviceRisks(u, d)'
    BY <2>1 DEF DeviceRisks, Grows
  <2>4. 10 \in DeviceRisks(u, d)' \/ 0 \in DeviceRisks(u, d)'
    BY <2>1 DEF DeviceRisks
  <2> QED
    BY <2>2, <2>3, <2>4
<1> QED
  BY <1>1, <1>2

LEMMA RisksAreNumbers ==
  ASSUME NEW u, NEW d
  PROVE  /\ DeviceRisks(u, d) \subseteq {0, 10, 20}
         /\ \A v \in BOOLEAN : VpnRisk(v) \in {0, 40}
  BY DEF DeviceRisks, VpnRisk

LEMMA RatedStays ==
  ASSUME Grows, NEW r, NEW extra \in Int, r.on.vpn \in BOOLEAN, Rated(r, extra)
  PROVE  Rated(r, extra)'
<1>1. PICK score \in Int, n \in DeviceRisks(r.who, r.to) :
        r.read = {score} /\ (n + VpnRisk(r.on.vpn) + extra <= score \/ score >= 100)
  BY DEF Rated
<1>2. PICK m \in DeviceRisks(r.who, r.to)' : m <= n
  BY RiskShrinks
<1>3. n \in Int /\ m \in Int /\ VpnRisk(r.on.vpn) \in Int
  BY <1>1, <1>2, RisksAreNumbers DEF DeviceRisks, VpnRisk
<1>4. m + VpnRisk(r.on.vpn) + extra <= score \/ score >= 100
  BY <1>1, <1>2, <1>3
<1> QED
  BY <1>1, <1>2, <1>4 DEF Rated, VpnRisk

\* What a request holds is still so when others have moved.
LEMMA LocalStays ==
  ASSUME IInv, Grows, NEW v \in Workers, pc'[v] = pc[v], req'[v] = req[v]
  PROVE  LocalInv(v)'
<1>1. /\ pc[v] = "guard" => \A r \in req[v].read : r \in Roles /\ <<req[v].who, r>> \in links'
      /\ pc[v] = "end" => Entitled(req[v].who)'
      /\ pc[v] = "answer" => <<req[v].who, req[v].to>> \in known'
  BY DEF IInv, LocalInv, Entitled, Grows
<1>2. pc[v] = "audit" => \A e \in Owed(req[v]) : e.action \in Actions /\ Done(e)'
  BY DoneStays DEF IInv, LocalInv
<1>3. pc[v] = "profile" => Rated(req[v], 0)'
  <2> SUFFICES ASSUME pc[v] = "profile" PROVE Rated(req[v], 0)'
    OBVIOUS
  <2>1. Rated(req[v], 0) /\ req[v].on.vpn \in BOOLEAN
    BY DEF IInv, LocalInv
  <2> QED
    BY <2>1, RatedStays
<1>4. pc[v] = "policy" => Rated(req[v], base[req[v].who])'
  <2> SUFFICES ASSUME pc[v] = "policy" PROVE Rated(req[v], base[req[v].who])'
    OBVIOUS
  <2>1. Rated(req[v], base[req[v].who]) /\ req[v].on.vpn \in BOOLEAN /\ req[v].who \in People
    BY DEF IInv, LocalInv
  <2>2. base[req[v].who] \in BaseScores
    BY <2>1 DEF IInv, Typed
  <2>3. base[req[v].who] \in 0..100
    BY <2>2, ShieldAssumption DEF ShieldAssumption
  <2>4. base' = base
    BY DEF Grows
  <2>5. PICK extra \in Int : extra = base[req[v].who]
    BY <2>3
  <2>6. PICK r : r = req[v]
    OBVIOUS
  <2>7. Rated(r, extra)'
    BY <2>1, <2>5, <2>6, RatedStays
  <2> QED
    BY <2>4, <2>5, <2>6, <2>7 DEF Rated
<1> QED
  BY <1>1, <1>2, <1>3, <1>4 DEF IInv, LocalInv, Owed, LoggedDecision, Intercepted, Entry, OpOf

\* What passed stays tolerated.
LEMMA PassedStays ==
  ASSUME IInv, Grows, passed' = passed
  PROVE  PassedInv' /\ PassedWasTolerated'
<1>1. PassedInv'
  BY DEF IInv, PassedInv
<1>2. ASSUME NEW r \in passed
      PROVE  /\ ~(r.on.vpn /\ r.on.level >= 3)
             /\ \E n \in DeviceRisks(r.who, r.to)', max \in Limits(r.on.level)' :
                  n + VpnRisk(r.on.vpn) + base'[r.who] <= IF max < 90 THEN max ELSE 89
  <2>1. PICK n \in DeviceRisks(r.who, r.to), max \in Limits(r.on.level) :
          n + VpnRisk(r.on.vpn) + base[r.who] <= IF max < 90 THEN max ELSE 89
    BY DEF IInv, PassedWasTolerated
  <2>2. PICK m \in DeviceRisks(r.who, r.to)' : m <= n
    BY RiskShrinks
  <2>3. Limits(r.on.level)' = Limits(r.on.level) /\ base' = base
    BY DEF Grows, Limits
  <2>4. r.who \in People /\ r.on.vpn \in BOOLEAN
    BY DEF IInv, PassedInv
  <2>5. base[r.who] \in 0..100
    BY <2>4, ShieldAssumption DEF IInv, Typed, ShieldAssumption
  <2>6. max \in Int
    BY ShieldAssumption DEF IInv, Typed, Limits, ShieldAssumption
  <2>7. n \in {0, 10, 20} /\ m \in {0, 10, 20} /\ VpnRisk(r.on.vpn) \in {0, 40}
    BY <2>1, <2>2, <2>4 DEF DeviceRisks, VpnRisk
  <2>8. m + VpnRisk(r.on.vpn) + base[r.who] <= IF max < 90 THEN max ELSE 89
    BY <2>1, <2>2, <2>5, <2>6, <2>7
  <2>9. ~(r.on.vpn /\ r.on.level >= 3)
    BY DEF IInv, PassedWasTolerated
  <2> QED
    BY <2>1, <2>2, <2>3, <2>8, <2>9
<1> QED
  BY <1>1, <1>2 DEF PassedWasTolerated, VpnRisk

Others(w) == \A v \in Workers \ {w} : pc'[v] = pc[v] /\ req'[v] = req[v]

\* Every step but the writing of an entry.
LEMMA StepKeeps ==
  ASSUME IInv, NEW w \in Workers, Grows, Others(w), Typed', LocalInv(w)', log' = log, faults' >= faults,
         \/ answered' = answered /\ (faults' > 0 \/ pc[w] # "audit")
         \/ /\ pc[w] # "audit" /\ pc'[w] = "audit" /\ req'[w] = req[w]
            /\ answered' = answered \union Owed(req[w]),
         \A x \in told' : x \in told \/ x \in made' \/ x \in links' \/ faults' > 0,
         passed' = passed \/ (PassedInv' /\ PassedWasTolerated'),
         ended' = ended \/ EndedByEntitled'
  PROVE  IInv'
<1>1. \A v \in Workers : LocalInv(v)'
  BY LocalStays DEF Others
<1>2. LogInv'
  BY DoneStays DEF IInv, LogInv
<1>3. PassedInv' /\ PassedWasTolerated'
  BY PassedStays
<1>4. EndedByEntitled'
  BY DEF IInv, EndedByEntitled, Grows
<1>5. ConflictIsTrue'
  BY DEF IInv, ConflictIsTrue, Grows, Typed
<1>6. DoneIsAudited'
  <2> SUFFICES ASSUME faults' = 0, NEW e \in answered', e \notin log
               PROVE  \E v \in Workers : pc'[v] = "audit" /\ e \in Owed(req'[v])
    BY DEF DoneIsAudited, Owed, LoggedDecision, Intercepted, Entry
  <2>1. CASE e \in answered
    <3>1. faults = 0
      BY DEF IInv, Typed
    <3>2. PICK v \in Workers : pc[v] = "audit" /\ e \in Owed(req[v])
      BY <2>1, <3>1 DEF IInv, DoneIsAudited
    <3>3. v # w
      BY <3>2
    <3> QED
      BY <3>2, <3>3 DEF Others
  <2>2. CASE e \notin answered
    BY <2>2
  <2> QED
    BY <2>1, <2>2
<1> QED
  BY <1>1, <1>2, <1>3, <1>4, <1>5, <1>6 DEF IInv

LEMMA WriteEntryKeeps ==
  ASSUME IInv, NEW w \in Workers, WriteEntry(w), UNCHANGED <<rbacVars, shieldVars>>
  PROVE  IInv'
<1>1. Grows /\ log' = log \union Owed(req[w]) /\ pc[w] = "audit"
  BY DEF WriteEntry, rbacVars, shieldVars, Grows
<1>2. pc' = [pc EXCEPT ![w] = "idle"] /\ req' = [req EXCEPT ![w] = Blank]
  BY DEF WriteEntry, Over, Goto
<1>3. pc \in [Workers -> Places] /\ req \in [Workers -> Locals]
  BY DEF IInv, Typed
<1>4. Blank \in Locals
  BY DEF Blank, Locals
<1>5. Others(w) /\ pc'[w] = "idle" /\ req'[w] = Blank
  BY <1>2, <1>3 DEF Others
<1>6. Typed'
  BY <1>2, <1>3, <1>4 DEF IInv, Typed, WriteEntry, rbacVars, shieldVars, Places
<1>7. \A v \in Workers : LocalInv(v)'
  <2>1. LocalInv(w)'
    BY <1>5 DEF LocalInv
  <2> QED
    BY <1>1, <1>5, <2>1, LocalStays DEF Others
<1>8. LogInv'
  <2>1. \A e \in Owed(req[w]) : e.action \in Actions /\ Done(e)
    BY <1>1 DEF IInv, LocalInv
  <2> QED
    BY <1>1, <2>1, DoneStays DEF IInv, LogInv
<1>9. PassedInv' /\ PassedWasTolerated'
  BY <1>1, PassedStays DEF shieldVars
<1>10. EndedByEntitled' /\ ConflictIsTrue'
  BY DEF WriteEntry, rbacVars, IInv, EndedByEntitled, ConflictIsTrue
<1>11. DoneIsAudited'
  <2> SUFFICES ASSUME faults = 0, NEW e \in answered, e \notin log'
               PROVE  \E v \in Workers : pc'[v] = "audit" /\ e \in Owed(req'[v])
    BY DEF DoneIsAudited, Owed, LoggedDecision, Intercepted, Entry, WriteEntry
  <2>1. PICK v \in Workers : pc[v] = "audit" /\ e \in Owed(req[v])
    BY <1>1 DEF IInv, DoneIsAudited
  <2>2. v # w
    BY <1>1, <2>1
  <2> QED
    BY <1>5, <2>1, <2>2 DEF Others
<1> QED
  BY <1>6, <1>7, <1>8, <1>9, <1>10, <1>11 DEF IInv

-----------------------------------------------------------------------------
\* Where the request of w is after a step, and with which locals.
Moved(w, p, r) ==
  /\ pc' \in [Workers -> Places] /\ req' \in [Workers -> Locals]
  /\ Others(w) /\ pc'[w] = p /\ req'[w] = r
  /\ log' = log /\ faults' \in Nat /\ faults' >= faults

LEMMA BeginMoves ==
  ASSUME IInv, NEW w \in Workers, NEW r \in Locals, NEW p \in Places, Begin(w, r, p)
  PROVE  Moved(w, p, r) /\ pc[w] # "audit" /\ answered' = answered
  BY DEF IInv, Typed, Begin, Goto, Moved, Others

LEMMA StepMoves ==
  ASSUME IInv, NEW w \in Workers, NEW v \in SUBSET (Roles \union Int), NEW p \in Places, Step(w, p, v)
  PROVE  /\ Moved(w, p, [req[w] EXCEPT !.read = v]) /\ answered' = answered
         /\ req'[w].op = req[w].op /\ req'[w].who = req[w].who /\ req'[w].on = req[w].on
         /\ req'[w].to = req[w].to /\ req'[w].read = v
<1>1. req[w] \in Locals
  BY DEF IInv, Typed
<1>2. [req[w] EXCEPT !.read = v] \in Locals
  BY <1>1 DEF Locals
<1> QED
  BY <1>1, <1>2 DEF IInv, Typed, Step, Goto, Moved, Others, Locals

LEMMA OverMoves ==
  ASSUME IInv, NEW w \in Workers, Refuse(w) \/ Fault(w)
  PROVE  /\ Moved(w, "idle", Blank) /\ answered' = answered
         /\ Fault(w) => faults' > 0
<1>1. Blank \in Locals
  BY DEF Blank, Locals
<1> QED
  BY <1>1 DEF IInv, Typed, Refuse, Fault, Over, Goto, Moved, Others, Places

LEMMA AnswerMoves ==
  ASSUME IInv, NEW w \in Workers, Answer(w)
  PROVE  /\ Moved(w, "audit", req[w])
         /\ answered' = answered \union Owed(req[w])
  BY DEF IInv, Typed, Answer, Goto, Moved, Others, Places

\* Who has no request under way holds nothing.
LEMMA IdleHolds ==
  ASSUME NEW w, pc'[w] = "idle"
  PROVE  LocalInv(w)'
  BY DEF LocalInv

\* The entry of an answered request is of its own action.
LEMMA EntryOf ==
  ASSUME NEW r, NEW e \in Owed(r)
  PROVE  /\ e.action = r.op /\ e.on = r.on /\ e.to = r.to
         /\ r.op = "evaluate" => e.actor = r.who
  BY DEF Owed, LoggedDecision, Intercepted, Entry

-----------------------------------------------------------------------------
(* The steps of Rbac.                                                      *)

LEMMA CreateRowKeeps ==
  ASSUME IInv, NEW w \in Workers, NEW x \in Roles \union Permissions, CreateRow(w, x),
         UNCHANGED shieldVars
  PROVE  IInv'
<1>1. Grows /\ passed' = passed /\ ended' = ended
  BY DEF CreateRow, shieldVars, Grows
<1>2. CASE x \in made /\ told' = told \union {x} /\ UNCHANGED auditVars
  <2>1. Others(w) /\ pc'[w] = pc[w] /\ req'[w] = req[w]
    BY <1>2 DEF auditVars, Others
  <2>2. Typed'
    BY <1>1, <1>2 DEF IInv, Typed, auditVars, shieldVars
  <2>3. \A v \in Workers : LocalInv(v)'
    BY <1>1, <2>1, LocalStays DEF Others
  <2>4. LogInv'
    BY <1>1, <1>2, DoneStays DEF IInv, LogInv, auditVars
  <2>5. PassedInv' /\ PassedWasTolerated'
    BY <1>1, PassedStays
  <2>6. EndedByEntitled' /\ ConflictIsTrue' /\ DoneIsAudited'
    BY <1>1, <1>2 DEF IInv, EndedByEntitled, ConflictIsTrue, DoneIsAudited, Grows, auditVars
  <2> QED
    BY <2>2, <2>3, <2>4, <2>5, <2>6 DEF IInv
<1>3. CASE UNCHANGED told /\ Begin(w, [Blank EXCEPT !.op = "create", !.on = x], "insert")
  <2> DEFINE r == [Blank EXCEPT !.op = "create", !.on = x]
  <2>1. r \in Locals /\ r.op = "create" /\ "insert" \in Places
    BY DEF Blank, Locals, Actions, Places
  <2> HIDE DEF r
  <2>2. Moved(w, "insert", r) /\ pc[w] # "audit" /\ answered' = answered
    BY <1>3, <2>1, BeginMoves DEF r
  <2>3. LocalInv(w)'
    BY <2>1, <2>2 DEF LocalInv, Moved, OpOf
  <2>4. Typed'
    BY <1>1, <2>2 DEF IInv, Typed, Moved, shieldVars
  <2> QED
    BY <1>1, <1>3, <2>2, <2>3, <2>4, StepKeeps DEF Moved
<1> QED
  BY <1>2, <1>3 DEF CreateRow

LEMMA InsertRowKeeps ==
  ASSUME IInv, NEW w \in Workers, InsertRow(w), UNCHANGED shieldVars
  PROVE  IInv'
<1>1. Grows /\ passed' = passed /\ ended' = ended /\ told' = told /\ pc[w] = "insert"
  BY DEF InsertRow, shieldVars, Grows
<1>2. req[w].op = "create"
  BY <1>1 DEF IInv, LocalInv, OpOf
<1>3. CASE Refuse(w)
  <2>1. Moved(w, "idle", Blank) /\ answered' = answered
    BY <1>3, OverMoves
  <2>2. LocalInv(w)' /\ Typed'
    BY <1>1, <2>1, IdleHolds DEF IInv, Typed, Moved, shieldVars
  <2> QED
    BY <1>1, <2>1, <2>2, StepKeeps DEF Moved
<1>4. CASE Answer(w) /\ made' = made \union {req[w].on}
  <2>1. Moved(w, "audit", req[w]) /\ answered' = answered \union Owed(req[w])
    BY <1>4, AnswerMoves
  <2>2. LocalInv(w)'
    <3>1. \A e \in Owed(req[w]) : e.action \in Actions /\ Done(e)'
      BY <1>2, <1>4, EntryOf DEF Done, Actions
    <3> QED
      BY <2>1, <3>1 DEF LocalInv, Moved, Owed, LoggedDecision, Intercepted, Entry
  <2>3. Typed'
    BY <1>1, <2>1 DEF IInv, Typed, Moved, shieldVars
  <2> QED
    BY <1>1, <2>1, <2>2, <2>3, StepKeeps DEF Moved
<1> QED
  BY <1>3, <1>4 DEF InsertRow

LEMMA AssignKeeps ==
  ASSUME IInv, NEW w \in Workers, NEW x \in Roles \union Accounts, NEW y \in Roles \union Permissions,
         Assign(w, x, y), UNCHANGED shieldVars
  PROVE  IInv'
<1> DEFINE r == [Blank EXCEPT !.op = "assign", !.on = x, !.to = y]
<1>1. Grows /\ UNCHANGED <<passed, ended, told>> /\ Begin(w, r, "second")
  BY DEF Assign, rbacVars, shieldVars, Grows
<1>2. r \in Locals /\ r.op = "assign" /\ "second" \in Places
  BY DEF Blank, Locals, Actions, Places
<1> HIDE DEF r
<1>3. Moved(w, "second", r) /\ pc[w] # "audit" /\ answered' = answered
  BY <1>1, <1>2, BeginMoves
<1>4. LocalInv(w)'
  BY <1>2, <1>3 DEF LocalInv, Moved, OpOf
<1>5. Typed'
  BY <1>1, <1>3 DEF IInv, Typed, Moved, shieldVars
<1> QED
  BY <1>1, <1>3, <1>4, <1>5, StepKeeps DEF Moved

LEMMA FindSecondKeeps ==
  ASSUME IInv, NEW w \in Workers, FindSecond(w), UNCHANGED shieldVars
  PROVE  IInv'
<1>1. Grows /\ UNCHANGED <<passed, ended, told>> /\ pc[w] = "second"
  BY DEF FindSecond, rbacVars, shieldVars, Grows
<1>2. req[w].op = "assign"
  BY <1>1 DEF IInv, LocalInv, OpOf
<1>3. CASE Refuse(w)
  <2>1. Moved(w, "idle", Blank) /\ answered' = answered
    BY <1>3, OverMoves
  <2>2. LocalInv(w)' /\ Typed'
    BY <1>1, <2>1, IdleHolds DEF IInv, Typed, Moved, shieldVars
  <2> QED
    BY <1>1, <2>1, <2>2, StepKeeps DEF Moved
<1>4. CASE Step(w, "link", {})
  <2>1. Moved(w, "link", [req[w] EXCEPT !.read = {}]) /\ answered' = answered /\ req'[w].op = "assign"
    BY <1>2, <1>4, StepMoves DEF Places
  <2>2. LocalInv(w)'
    BY <2>1 DEF LocalInv, Moved, OpOf
  <2>3. Typed'
    BY <1>1, <2>1 DEF IInv, Typed, Moved, shieldVars
  <2> QED
    BY <1>1, <2>1, <2>2, <2>3, StepKeeps DEF Moved
<1> QED
  BY <1>3, <1>4 DEF FindSecond

LEMMA LinkKeeps ==
  ASSUME IInv, NEW w \in Workers, Link(w), UNCHANGED shieldVars
  PROVE  IInv'
<1> DEFINE l == <<req[w].on, req[w].to>>
<1>1. Grows /\ UNCHANGED <<passed, ended, made>> /\ pc[w] = "link"
  BY DEF Link, shieldVars, Grows
<1>2. req[w].op = "assign"
  BY <1>1 DEF IInv, LocalInv, OpOf
<1>3. CASE Refuse(w) /\ l \in links /\ told' = told \union {l} /\ UNCHANGED links
  <2>1. Moved(w, "idle", Blank) /\ answered' = answered
    BY <1>3, OverMoves
  <2>2. LocalInv(w)' /\ Typed'
    BY <1>1, <2>1, IdleHolds DEF IInv, Typed, Moved, shieldVars
  <2> QED
    BY <1>1, <1>3, <2>1, <2>2, StepKeeps DEF Moved
<1>4. CASE Answer(w) /\ links' = links \union {l} /\ UNCHANGED told
  <2>1. Moved(w, "audit", req[w]) /\ answered' = answered \union Owed(req[w])
    BY <1>4, AnswerMoves
  <2>2. LocalInv(w)'
    <3>1. \A e \in Owed(req[w]) : e.action \in Actions /\ Done(e)'
      BY <1>2, <1>4, EntryOf DEF Done, Actions
    <3> QED
      BY <2>1, <3>1 DEF LocalInv, Moved, Owed, LoggedDecision, Intercepted, Entry
  <2>3. Typed'
    BY <1>1, <2>1 DEF IInv, Typed, Moved, shieldVars
  <2> QED
    BY <1>1, <1>4, <2>1, <2>2, <2>3, StepKeeps DEF Moved
<1>5. CASE Fault(w) /\ told' = told \union {l} /\ UNCHANGED links
  <2>1. Moved(w, "idle", Blank) /\ answered' = answered /\ faults' > 0
    BY <1>5, OverMoves
  <2>2. LocalInv(w)' /\ Typed'
    BY <1>1, <2>1, IdleHolds DEF IInv, Typed, Moved, shieldVars
  <2> QED
    BY <1>1, <1>5, <2>1, <2>2, StepKeeps DEF Moved
<1> QED
  BY <1>3, <1>4, <1>5 DEF Link

LEMMA ReadRolesKeeps ==
  ASSUME IInv, NEW w \in Workers, NEW u \in Accounts, NEW s \in Sessions, ReadRoles(w, u, s),
         UNCHANGED shieldVars
  PROVE  IInv'
<1> DEFINE has == {r \in Roles : <<u, r>> \in links}
           r == [Blank EXCEPT !.op = "end", !.who = u, !.on = s, !.read = has]
<1>1. Grows /\ UNCHANGED <<passed, ended, told, links>> /\ Begin(w, r, "guard")
  BY DEF ReadRoles, rbacVars, shieldVars, Grows
<1>2. r \in Locals /\ r.op = "end" /\ r.who = u /\ r.on = s /\ r.read = has /\ "guard" \in Places
  BY DEF Blank, Locals, Actions, Places
<1> HIDE DEF r
<1>3. Moved(w, "guard", r) /\ pc[w] # "audit" /\ answered' = answered
  BY <1>1, <1>2, BeginMoves
<1>4. LocalInv(w)'
  BY <1>1, <1>2, <1>3 DEF LocalInv, Moved, OpOf
<1>5. Typed'
  BY <1>1, <1>3 DEF IInv, Typed, Moved, shieldVars
<1> QED
  BY <1>1, <1>3, <1>4, <1>5, StepKeeps DEF Moved

LEMMA ReadPermissionsKeeps ==
  ASSUME IInv, NEW w \in Workers, ReadPermissions(w), UNCHANGED shieldVars
  PROVE  IInv'
<1>1. Grows /\ UNCHANGED <<passed, ended, told, links>> /\ pc[w] = "guard"
  BY DEF ReadPermissions, rbacVars, shieldVars, Grows
<1>2. /\ req[w].op = "end" /\ req[w].who \in Accounts /\ req[w].on \in Sessions
      /\ \A r \in req[w].read : r \in Roles /\ <<req[w].who, r>> \in links
  BY <1>1 DEF IInv, LocalInv, OpOf
<1>3. CASE Refuse(w)
  <2>1. Moved(w, "idle", Blank) /\ answered' = answered
    BY <1>3, OverMoves
  <2>2. LocalInv(w)' /\ Typed'
    BY <1>1, <2>1, IdleHolds DEF IInv, Typed, Moved, shieldVars
  <2> QED
    BY <1>1, <2>1, <2>2, StepKeeps DEF Moved
<1>4. CASE Step(w, "end", {}) /\ \A p \in Required : \E r \in req[w].read : <<r, p>> \in links
  <2>1. /\ Moved(w, "end", [req[w] EXCEPT !.read = {}]) /\ answered' = answered
        /\ req'[w].op = req[w].op /\ req'[w].who = req[w].who /\ req'[w].on = req[w].on
    BY <1>4, StepMoves DEF Places
  <2>2. Entitled(req[w].who)
    BY <1>2, <1>4 DEF Entitled
  <2>3. LocalInv(w)'
    BY <1>1, <1>2, <2>1, <2>2 DEF LocalInv, Moved, OpOf, Entitled
  <2>4. Typed'
    BY <1>1, <2>1 DEF IInv, Typed, Moved, shieldVars
  <2> QED
    BY <1>1, <2>1, <2>3, <2>4, StepKeeps DEF Moved
<1> QED
  BY <1>3, <1>4 DEF ReadPermissions

LEMMA EndSessionKeeps ==
  ASSUME IInv, NEW w \in Workers, EndSession(w), UNCHANGED shieldVars
  PROVE  IInv'
<1>1. /\ Grows /\ UNCHANGED <<passed, told, links>> /\ pc[w] = "end" /\ Answer(w)
      /\ ended' = ended \union {<<req[w].who, req[w].on>>}
  BY DEF EndSession, shieldVars, Grows
<1>2. req[w].op = "end" /\ req[w].who \in Accounts /\ req[w].on \in Sessions /\ Entitled(req[w].who)
  BY <1>1 DEF IInv, LocalInv, OpOf
<1>3. Moved(w, "audit", req[w]) /\ answered' = answered \union Owed(req[w])
  BY <1>1, AnswerMoves
<1>4. LocalInv(w)'
  <2>1. \A e \in Owed(req[w]) : e.action \in Actions /\ Done(e)'
    BY <1>1, <1>2, EntryOf DEF Done, Actions
  <2> QED
    BY <1>3, <2>1 DEF LocalInv, Moved, Owed, LoggedDecision, Intercepted, Entry
<1>5. Typed'
  BY <1>1, <1>2, <1>3 DEF IInv, Typed, Moved, shieldVars
<1>6. EndedByEntitled'
  BY <1>1, <1>2 DEF IInv, EndedByEntitled, Entitled
<1> QED
  BY <1>1, <1>3, <1>4, <1>5, <1>6, StepKeeps DEF Moved

-----------------------------------------------------------------------------
(* The steps of Shield.                                                    *)

LEMMA SignInKeeps ==
  ASSUME IInv, NEW w \in Workers, NEW u \in People, NEW d \in Devices, NEW header \in BOOLEAN,
         SignIn(w, u, d, header), UNCHANGED rbacVars
  PROVE  IInv'
<1> DEFINE r == [Blank EXCEPT !.op = "login", !.who = u, !.to = d, !.tenant = header]
           p == IF <<u, d>> \in known THEN "answer" ELSE "device"
<1>1. Grows /\ UNCHANGED <<passed, ended, told, known>> /\ Begin(w, r, p)
  BY DEF SignIn, rbacVars, shieldVars, Grows
<1>2. r \in Locals /\ r.op = "login" /\ r.who = u /\ r.to = d
  BY DEF Blank, Locals, Actions
<1>3. /\ p \in Places /\ p \in {"answer", "device"}
      /\ p = "answer" => <<u, d>> \in known
  BY DEF Places
<1> HIDE DEF r, p
<1>4. Moved(w, p, r) /\ pc[w] # "audit" /\ answered' = answered
  BY <1>1, <1>2, <1>3, BeginMoves
<1>5. LocalInv(w)'
  BY <1>1, <1>2, <1>3, <1>4 DEF LocalInv, Moved, OpOf
<1>6. Typed'
  BY <1>1, <1>4 DEF IInv, Typed, Moved, SignIn, shieldVars, rbacVars
<1> QED
  BY <1>1, <1>4, <1>5, <1>6, StepKeeps DEF Moved

LEMMA CreateDeviceKeeps ==
  ASSUME IInv, NEW w \in Workers, CreateDevice(w), UNCHANGED rbacVars
  PROVE  IInv'
<1>1. /\ Grows /\ UNCHANGED <<passed, ended, told>> /\ pc[w] = "device"
      /\ known' = known \union {<<req[w].who, req[w].to>>} /\ Step(w, "answer", {})
  BY DEF CreateDevice, rbacVars, Grows
<1>2. req[w].op = "login" /\ req[w].who \in People /\ req[w].to \in Devices
  BY <1>1 DEF IInv, LocalInv, OpOf
<1>3. /\ Moved(w, "answer", [req[w] EXCEPT !.read = {}]) /\ answered' = answered
      /\ req'[w].op = req[w].op /\ req'[w].who = req[w].who /\ req'[w].to = req[w].to
  BY <1>1, StepMoves DEF Places
<1>4. LocalInv(w)'
  BY <1>1, <1>2, <1>3 DEF LocalInv, Moved, OpOf
<1>5. Typed'
  BY <1>1, <1>2, <1>3 DEF IInv, Typed, Moved, CreateDevice, rbacVars
<1> QED
  BY <1>1, <1>3, <1>4, <1>5, StepKeeps DEF Moved

LEMMA SignedInKeeps ==
  ASSUME IInv, NEW w \in Workers, SignedIn(w), UNCHANGED rbacVars
  PROVE  IInv'
<1>1. /\ Grows /\ UNCHANGED <<passed, ended, told, known>> /\ pc[w] = "answer" /\ Answer(w)
  BY DEF SignedIn, rbacVars, shieldVars, Grows
<1>2. req[w].op = "login" /\ req[w].who \in People /\ <<req[w].who, req[w].to>> \in known
  BY <1>1 DEF IInv, LocalInv, OpOf
<1>3. Moved(w, "audit", req[w]) /\ answered' = answered \union Owed(req[w])
  BY <1>1, AnswerMoves
<1>4. LocalInv(w)'
  <2>1. \A e \in Owed(req[w]) : e.action \in Actions /\ Done(e)'
    BY <1>1, <1>2, EntryOf DEF Done, Actions
  <2> QED
    BY <1>3, <2>1 DEF LocalInv, Moved, Owed, LoggedDecision, Intercepted, Entry
<1>5. Typed'
  BY <1>1, <1>3 DEF IInv, Typed, Moved, SignedIn, shieldVars, rbacVars
<1> QED
  BY <1>1, <1>3, <1>4, <1>5, StepKeeps DEF Moved

LEMMA EnforceKeeps ==
  ASSUME IInv, NEW w \in Workers, NEW u \in People, NEW d \in Devices, NEW vpn \in BOOLEAN,
         NEW level \in Levels, Enforce(w, u, d, vpn, level), UNCHANGED rbacVars
  PROVE  IInv'
<1>1. Grows /\ UNCHANGED <<passed, ended, told, known, twice, trusted>>
  BY DEF Enforce, rbacVars, shieldVars, Grows
<1>2. PICK n \in DeviceRisks(u, d) :
        Begin(w, [Blank EXCEPT !.op = "evaluate", !.who = u, !.to = d,
                               !.on = [level |-> level, vpn |-> vpn],
                               !.read = {n + VpnRisk(vpn)}],
              "profile")
  BY DEF Enforce
<1>3. n \in {0, 10, 20} /\ VpnRisk(vpn) \in {0, 40}
  BY RisksAreNumbers
<1> DEFINE r == [Blank EXCEPT !.op = "evaluate", !.who = u, !.to = d,
                              !.on = [level |-> level, vpn |-> vpn],
                              !.read = {n + VpnRisk(vpn)}]
<1>4. /\ r \in Locals /\ r.op = "evaluate" /\ r.who = u /\ r.to = d /\ "profile" \in Places
      /\ r.on \in [level : Levels, vpn : BOOLEAN] /\ r.on.vpn = vpn /\ r.read = {n + VpnRisk(vpn)}
  <2> DEFINE o == [level |-> level, vpn |-> vpn]
  <2>1. o \in [level : Levels, vpn : BOOLEAN] /\ o.vpn = vpn
    OBVIOUS
  <2>2. {n + VpnRisk(vpn)} \in SUBSET (Roles \union Int)
    BY <1>3
  <2>3. /\ r.op = "evaluate" /\ r.who = u /\ r.to = d /\ r.on = o /\ r.tenant = TRUE
        /\ r.read = {n + VpnRisk(vpn)}
    BY DEF Blank
  <2>4. PICK risk : risk = n + VpnRisk(vpn) /\ {risk} \in SUBSET (Roles \union Int)
    BY <2>2
  <2> HIDE DEF o
  <2>5. r \in Locals
    <3>1. [Blank EXCEPT !.op = "evaluate", !.who = u, !.to = d, !.on = o, !.read = {risk}] \in Locals
      BY <2>1, <2>4 DEF Blank, Locals, Actions
    <3> QED
      BY <2>4, <3>1 DEF o
  <2> QED
    BY <2>1, <2>3, <2>5 DEF Places
<1>5. Begin(w, r, "profile")
  BY <1>2
<1> HIDE DEF r
<1>6. Moved(w, "profile", r) /\ pc[w] # "audit" /\ answered' = answered
  BY <1>4, <1>5, BeginMoves
<1>7. Rated(r, 0)'
  <2>1. n \in DeviceRisks(u, d)'
    BY <1>1 DEF DeviceRisks
  <2>2. n + VpnRisk(vpn) \in Int /\ n + VpnRisk(vpn) + 0 <= n + VpnRisk(vpn)
    BY <1>3
  <2> QED
    BY <1>4, <2>1, <2>2 DEF Rated, VpnRisk
<1>8. LocalInv(w)'
  BY <1>4, <1>6, <1>7 DEF LocalInv, Moved, OpOf
<1>9. Typed'
  BY <1>1, <1>6 DEF IInv, Typed, Moved, Enforce, shieldVars, rbacVars
<1> QED
  BY <1>1, <1>6, <1>8, <1>9, StepKeeps DEF Moved

LEMMA ReadProfileKeeps ==
  ASSUME IInv, NEW w \in Workers, ReadProfile(w), UNCHANGED rbacVars
  PROVE  IInv'
<1>1. Grows /\ UNCHANGED <<passed, ended, told, known, twice, trusted, base>> /\ pc[w] = "profile"
  BY DEF ReadProfile, rbacVars, shieldVars, Grows
<1>2. /\ req[w].op = "evaluate" /\ req[w].who \in People /\ req[w].to \in Devices
      /\ req[w].on \in [level : Levels, vpn : BOOLEAN] /\ Rated(req[w], 0)
  BY <1>1 DEF IInv, LocalInv, OpOf
<1>3. PICK score \in Int, n \in DeviceRisks(req[w].who, req[w].to) :
        req[w].read = {score} /\ (n + VpnRisk(req[w].on.vpn) + 0 <= score \/ score >= 100)
  BY <1>2 DEF Rated
<1>4. base[req[w].who] \in 0..100
  <2>1. base[req[w].who] \in BaseScores
    BY <1>2 DEF IInv, Typed
  <2> QED
    BY <2>1, ShieldAssumption DEF ShieldAssumption
<1> DEFINE b == base[req[w].who]
           c == Capped(score + b)
<1>5. Step(w, "policy", {c})
  BY <1>3 DEF ReadProfile
<1>6. c \in Int
  BY <1>3, <1>4 DEF Capped
<1>7. /\ Moved(w, "policy", [req[w] EXCEPT !.read = {c}]) /\ answered' = answered
      /\ req'[w].op = req[w].op /\ req'[w].who = req[w].who /\ req'[w].to = req[w].to
      /\ req'[w].on = req[w].on /\ req'[w].read = {c}
  <2> HIDE DEF c
  <2> QED
    BY <1>5, <1>6, StepMoves DEF Places
<1>8. Rated(req[w], base[req[w].who])'
  <2>1. n \in {0, 10, 20} /\ VpnRisk(req[w].on.vpn) \in {0, 40}
    BY <1>2, <1>3 DEF DeviceRisks, VpnRisk
  <2>2. n + VpnRisk(req[w].on.vpn) + b <= c \/ c >= 100
    BY <1>3, <1>4, <2>1 DEF Capped
  <2>3. n \in DeviceRisks(req[w].who, req[w].to)'
    BY <1>1, <1>7 DEF DeviceRisks
  <2> QED
    BY <1>1, <1>6, <1>7, <2>2, <2>3 DEF Rated, VpnRisk
<1>9. LocalInv(w)'
  BY <1>1, <1>2, <1>7, <1>8 DEF LocalInv, Moved, OpOf
<1>10. Typed'
  BY <1>1, <1>7 DEF IInv, Typed, Moved, ReadProfile, shieldVars, rbacVars
<1> QED
  BY <1>1, <1>7, <1>9, <1>10, StepKeeps DEF Moved

LEMMA ReadPolicyKeeps ==
  ASSUME IInv, NEW w \in Workers, ReadPolicy(w), UNCHANGED rbacVars
  PROVE  IInv'
<1>1. /\ Grows /\ UNCHANGED <<ended, told, known, twice, trusted, base, rules>>
      /\ pc[w] = "policy" /\ Answer(w)
  BY DEF ReadPolicy, rbacVars, Grows
<1>2. /\ req[w].op = "evaluate" /\ req[w].who \in People /\ req[w].to \in Devices
      /\ req[w].on \in [level : Levels, vpn : BOOLEAN] /\ Rated(req[w], base[req[w].who])
  BY <1>1 DEF IInv, LocalInv, OpOf
<1>3. Moved(w, "audit", req[w]) /\ answered' = answered \union Owed(req[w])
  BY <1>1, AnswerMoves
<1>4. LocalInv(w)'
  <2>1. \A e \in Owed(req[w]) : e.action \in Actions /\ Done(e)'
    BY <1>2, EntryOf DEF Done, Actions
  <2> QED
    BY <1>3, <2>1 DEF LocalInv, Moved, Owed, LoggedDecision, Intercepted, Entry
<1>5. Typed'
  BY <1>1, <1>3 DEF IInv, Typed, Moved
<1>6. CASE passed' = passed
  BY <1>1, <1>3, <1>4, <1>5, <1>6, StepKeeps DEF Moved
<1>7. ASSUME NEW score \in req[w].read, NEW max \in Limits(req[w].on.level),
             Decision(score, req[w].on.vpn, req[w].on.level, max) = "ALLOW",
             passed' = passed \union {req[w]}
      PROVE  IInv'
  <2>1. PICK n \in DeviceRisks(req[w].who, req[w].to) :
          /\ score \in Int
          /\ n + VpnRisk(req[w].on.vpn) + base[req[w].who] <= score \/ score >= 100
    BY <1>2, <1>7 DEF Rated
  <2>2. max \in Int
    BY ShieldAssumption DEF IInv, Typed, Limits, ShieldAssumption
  <2>3. score < 90 /\ ~(req[w].on.vpn /\ req[w].on.level >= 3) /\ score <= max
    BY <1>7, <2>1, <2>2 DEF Decision
  <2>4. base[req[w].who] \in 0..100
    <3>1. base[req[w].who] \in BaseScores
      BY <1>2 DEF IInv, Typed
    <3> QED
      BY <3>1, ShieldAssumption DEF ShieldAssumption
  <2>5. n \in {0, 10, 20} /\ VpnRisk(req[w].on.vpn) \in {0, 40}
    BY <1>2, <2>1 DEF DeviceRisks, VpnRisk
  <2>6. n + VpnRisk(req[w].on.vpn) + base[req[w].who] <= IF max < 90 THEN max ELSE 89
    BY <2>1, <2>2, <2>3, <2>4, <2>5
  <2>7. PassedInv'
    BY <1>2, <1>7 DEF IInv, PassedInv
  <2>8. PassedWasTolerated'
    <3>1. PassedWasTolerated
      BY DEF IInv
    <3>2. /\ \A u, d : DeviceRisks(u, d)' = DeviceRisks(u, d)
          /\ \A l : Limits(l)' = Limits(l)
          /\ base' = base
      BY <1>1 DEF DeviceRisks, Limits
    <3> QED
      BY <1>7, <2>1, <2>3, <2>6, <3>1, <3>2 DEF PassedWasTolerated, VpnRisk
  <2> QED
    BY <1>1, <1>3, <1>4, <1>5, <2>7, <2>8, StepKeeps DEF Moved
<1> QED
  BY <1>6, <1>7 DEF ReadPolicy

LEMMA TrustKeeps ==
  ASSUME IInv, NEW p \in People \X Devices, Trust(p), UNCHANGED rbacVars
  PROVE  IInv'
<1>1. Grows /\ UNCHANGED <<auditVars, passed, ended, told, known, rules, base>>
  BY DEF Trust, rbacVars, Grows
<1>2. Typed'
  BY <1>1 DEF IInv, Typed, auditVars
<1>3. \A v \in Workers : LocalInv(v)'
  BY <1>1, LocalStays DEF auditVars
<1>4. LogInv'
  BY <1>1, DoneStays DEF IInv, LogInv, auditVars
<1>5. PassedInv' /\ PassedWasTolerated'
  BY <1>1, PassedStays
<1>6. EndedByEntitled' /\ ConflictIsTrue' /\ DoneIsAudited'
  BY <1>1 DEF IInv, EndedByEntitled, ConflictIsTrue, DoneIsAudited, Grows, auditVars
<1> QED
  BY <1>2, <1>3, <1>4, <1>5, <1>6 DEF IInv

-----------------------------------------------------------------------------
LEMMA FaultKeeps ==
  ASSUME IInv, NEW w \in Workers, Fault(w), UNCHANGED <<rbacVars, shieldVars>>
  PROVE  IInv'
<1>1. Grows /\ UNCHANGED <<passed, ended, told>>
  BY DEF rbacVars, shieldVars, Grows
<1>2. Moved(w, "idle", Blank) /\ answered' = answered /\ faults' > 0
  BY OverMoves
<1>3. LocalInv(w)' /\ Typed'
  BY <1>1, <1>2, IdleHolds DEF IInv, Typed, Moved, shieldVars, rbacVars
<1> QED
  BY <1>1, <1>2, <1>3, StepKeeps DEF Moved

LEMMA InitHolds == Init => IInv
<1> SUFFICES ASSUME Init PROVE IInv
  OBVIOUS
<1>1. Blank \in Locals
  BY DEF Blank, Locals
<1>2. Typed
  BY <1>1 DEF Init, AuditInit, RbacInit, ShieldInit, Typed, Places
<1>3. \A w \in Workers : LocalInv(w)
  BY DEF Init, AuditInit, LocalInv
<1> QED
  BY <1>2, <1>3 DEF Init, AuditInit, RbacInit, ShieldInit, IInv, LogInv, PassedInv, DoneIsAudited,
                    ConflictIsTrue, EndedByEntitled, PassedWasTolerated

LEMMA NextKeeps == IInv /\ [Next]_allVars => IInv'
<1> SUFFICES ASSUME IInv, [Next]_allVars PROVE IInv'
  OBVIOUS
<1>1. ASSUME NEW w \in Workers, RbacArrive(w), UNCHANGED shieldVars PROVE IInv'
  BY <1>1, CreateRowKeeps, AssignKeeps, ReadRolesKeeps DEF RbacArrive
<1>2. ASSUME NEW w \in Workers, ShieldArrive(w), UNCHANGED rbacVars PROVE IInv'
  BY <1>2, SignInKeeps, EnforceKeeps DEF ShieldArrive
<1>3. ASSUME NEW w \in Workers, RbacContinue(w), UNCHANGED shieldVars PROVE IInv'
  BY <1>3, InsertRowKeeps, FindSecondKeeps, LinkKeeps, ReadPermissionsKeeps, EndSessionKeeps
     DEF RbacContinue
<1>4. ASSUME NEW w \in Workers, ShieldContinue(w), UNCHANGED rbacVars PROVE IInv'
  BY <1>4, CreateDeviceKeeps, SignedInKeeps, ReadProfileKeeps, ReadPolicyKeeps DEF ShieldContinue
<1>5. ASSUME NEW w \in Workers, WriteEntry(w) \/ Fault(w), UNCHANGED <<rbacVars, shieldVars>> PROVE IInv'
  BY <1>5, WriteEntryKeeps, FaultKeeps
<1>6. ASSUME NEW p \in People \X Devices, Trust(p), UNCHANGED rbacVars PROVE IInv'
  BY <1>6, TrustKeeps
<1>7. CASE UNCHANGED allVars
  <2>1. Grows /\ UNCHANGED <<auditVars, passed, ended, told, known, rules, base>>
    BY <1>7 DEF allVars, rbacVars, shieldVars, Grows
  <2>2. Typed'
    BY <2>1 DEF IInv, Typed, auditVars
  <2>3. \A v \in Workers : LocalInv(v)'
    BY <2>1, LocalStays DEF auditVars
  <2>4. LogInv'
    BY <2>1, DoneStays DEF IInv, LogInv, auditVars
  <2>5. PassedInv' /\ PassedWasTolerated'
    BY <2>1, PassedStays
  <2>6. EndedByEntitled' /\ ConflictIsTrue' /\ DoneIsAudited'
    BY <2>1 DEF IInv, EndedByEntitled, ConflictIsTrue, DoneIsAudited, Grows, auditVars
  <2> QED
    BY <2>2, <2>3, <2>4, <2>5, <2>6 DEF IInv
<1>8. CASE Next
  BY <1>1, <1>2, <1>3, <1>4, <1>5, <1>6, <1>8 DEF Next, Arrive, Continue
<1> QED
  BY <1>7, <1>8

LEMMA IInvHolds == Spec => []IInv
  BY InitHolds, NextKeeps, PTL DEF Spec

\* What an audit entry says was done is so, whatever failed or died around it.
THEOREM EntriesHold == Spec => []EntriesAreTrue
<1>1. IInv => EntriesAreTrue
  BY DEF IInv, LogInv, EntriesAreTrue
<1> QED
  BY IInvHolds, <1>1, PTL

\* What the interceptor let through as done has its entry, or is about to.
THEOREM DoneHasEntry == Spec => []DoneIsAudited
<1>1. IInv => DoneIsAudited
  BY DEF IInv
<1> QED
  BY IInvHolds, <1>1, PTL

\* A 409 of role.service.ts is true unless a statement failed.
THEOREM ConflictHolds == Spec => []ConflictIsTrue
<1>1. IInv => ConflictIsTrue
  BY DEF IInv
<1> QED
  BY IInvHolds, <1>1, PTL

\* The permissions guard lets nobody end a session who is not entitled to.
THEOREM OnlyEntitledEnd == Spec => []EndedByEntitled
<1>1. IInv => EndedByEntitled
  BY DEF IInv
<1> QED
  BY IInvHolds, <1>1, PTL

\* What passes the Shield middleware was within the tolerance of a rule.
THEOREM ToleranceHolds == Spec => []PassedWasTolerated
<1>1. IInv => PassedWasTolerated
  BY DEF IInv
<1> QED
  BY IInvHolds, <1>1, PTL
=============================================================================
