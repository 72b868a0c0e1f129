--------------------------- MODULE OperatorProofs ---------------------------
(* Proofs about Operator for any number of handlers, closed watches and    *)
(* faults.                                                                 *)
EXTENDS Operator, TLAPS

\* What the types need: the counters, and a handler's tenant is a row.  (The bounds
\* of the model are not part of it.)
Typed ==
  /\ subresource \in BOOLEAN
  /\ phase \in Phases
  /\ tenants \in Nat
  /\ tenantId \in 0..tenants
  /\ events \in Seq(Phases)
  /\ admins \subseteq 1..tenants
  /\ pc \in [Handlers -> Steps]
  /\ mine \in [Handlers -> 0..tenants]
  /\ \A h \in Handlers : pc[h] \in {"register", "patchActive"} => mine[h] # 0

\* The strengthening: a handler about to report success has made its admin.
MadeBeforeTold == \A h \in Handlers : pc[h] = "patchActive" => mine[h] \in admins

Inv == Typed /\ MadeBeforeTold /\ NamedTenantIsComplete

-----------------------------------------------------------------------------
LEMMA InitHolds == Init => Inv
  BY DEF Init, Inv, Typed, MadeBeforeTold, NamedTenantIsComplete, Phases, Steps

LEMMA AddedIsTyped == ASSUME Inv PROVE Added \in Seq(Phases)
  BY DEF Added, Inv, Typed

LEMMA ReceiveKeeps ==
  ASSUME Inv, NEW h \in Handlers, Receive(h)
  PROVE  Inv'
<1>1. events' \in Seq(Phases)
  BY DEF Receive, Inv, Typed
<1>2. pc' \in [Handlers -> Steps]
  BY DEF Receive, Inv, Typed, Goto, Steps
<1>3. \A g \in Handlers : pc'[g] \in {"register", "patchActive"} => pc[g] = pc'[g]
  BY DEF Receive, Inv, Typed, Goto
<1> QED
  BY <1>1, <1>2, <1>3 DEF Receive, Inv, Typed, MadeBeforeTold, NamedTenantIsComplete, status

LEMMA InsertKeeps ==
  ASSUME Inv, NEW h \in Handlers, Insert(h)
  PROVE  Inv'
<1>1. /\ tenants' \in {tenants, tenants + 1}
      /\ tenants \in Nat
  BY DEF Insert, Inv, Typed
<1>2. /\ tenantId' \in 0..tenants'
      /\ admins' \subseteq 1..tenants'
  BY <1>1 DEF Insert, Inv, Typed, status
<1>3. /\ pc' \in [Handlers -> Steps]
      /\ mine' \in [Handlers -> 0..tenants']
  <2>1. pc' \in [Handlers -> Steps]
    BY DEF Insert, Inv, Typed, Goto, Steps
  <2>2. 0..tenants \subseteq 0..tenants'
    BY <1>1
  <2>3. mine \in [Handlers -> 0..tenants']
    BY <2>2 DEF Inv, Typed
  <2>4. mine' = mine \/ (tenants' = tenants + 1 /\ mine' = [mine EXCEPT ![h] = tenants + 1])
    BY DEF Insert
  <2>5. tenants' = tenants + 1 => tenants + 1 \in 0..tenants'
    BY <1>1
  <2> QED
    BY <2>1, <2>3, <2>4, <2>5
<1>4. \A g \in Handlers : pc'[g] \in {"register", "patchActive"} => mine'[g] # 0
  BY <1>1 DEF Insert, Inv, Typed, Goto
<1>5. MadeBeforeTold'
  BY DEF Insert, Inv, Typed, MadeBeforeTold, Goto
<1> QED
  BY <1>1, <1>2, <1>3, <1>4, <1>5 DEF Insert, Inv, Typed, NamedTenantIsComplete, status

LEMMA RegisterKeeps ==
  ASSUME Inv, NEW h \in Handlers, Register(h)
  PROVE  Inv'
<1>1. mine[h] \in 1..tenants
  BY DEF Register, Inv, Typed
<1>2. admins' \subseteq 1..tenants /\ admins \subseteq admins'
  BY <1>1 DEF Register, Inv, Typed
<1>3. pc' \in [Handlers -> Steps]
  BY DEF Register, Inv, Typed, Goto, Steps
<1>4. \A g \in Handlers : pc'[g] \in {"register", "patchActive"} => mine[g] # 0
  BY <1>1 DEF Register, Inv, Typed, Goto
<1>5. MadeBeforeTold'
  <2> SUFFICES ASSUME NEW g \in Handlers, pc'[g] = "patchActive"
               PROVE  mine[g] \in admins'
    BY DEF MadeBeforeTold, Register
  <2>1. CASE g = h
    BY <2>1 DEF Register, Inv, Typed, Goto
  <2>2. CASE g # h
    BY <2>2, <1>2 DEF Register, Inv, Typed, MadeBeforeTold, Goto
  <2> QED
    BY <2>1, <2>2
<1> QED
  BY <1>2, <1>3, <1>4, <1>5 DEF Register, Inv, Typed, NamedTenantIsComplete, status

LEMMA UpdateKeeps ==
  ASSUME Inv, NEW h \in Handlers, NEW p \in {"Active", "Failed"}, UpdateStatus(h, p),
         p = "Active" => mine[h] \in admins
  PROVE  Inv'
<1>1. tenantId' \in {tenantId, mine[h]} /\ tenantId' \in 0..tenants
  BY DEF UpdateStatus, Inv, Typed, status
<1>2. phase' \in Phases /\ events' \in Seq(Phases)
  <2>1. p \in Phases
    BY DEF Phases
  <2>2. \/ phase' = p /\ events' = Append(events, p)
        \/ phase' = phase /\ events' = events
    BY DEF UpdateStatus, status
  <2>3. phase \in Phases /\ events \in Seq(Phases)
    BY DEF Inv, Typed
  <2> QED
    BY <2>1, <2>2, <2>3
<1>3. pc' \in [Handlers -> Steps] /\ mine' \in [Handlers -> 0..tenants]
  BY DEF UpdateStatus, Inv, Typed, Return, Goto, Steps
<1>4. \A g \in Handlers : pc'[g] # "idle" => pc'[g] = pc[g] /\ mine'[g] = mine[g]
  BY DEF UpdateStatus, Inv, Typed, Return, Goto
<1>5. NamedTenantIsComplete'
  <2>1. admins \subseteq 1..tenants /\ tenants \in Nat
    BY DEF Inv, Typed
  <2>2. tenantId' # 0 => tenantId' \in admins
    BY DEF UpdateStatus, Inv, NamedTenantIsComplete, status
  <2>3. phase' = "Active" => tenantId' # 0
    BY <2>1 DEF UpdateStatus, Inv, NamedTenantIsComplete, status
  <2> QED
    BY <2>2, <2>3 DEF UpdateStatus, NamedTenantIsComplete
<1> QED
  BY <1>1, <1>2, <1>3, <1>4, <1>5 DEF UpdateStatus, Inv, Typed, MadeBeforeTold

LEMMA NextKeeps == Inv /\ [Next]_vars => Inv'
<1> SUFFICES ASSUME Inv, [Next]_vars PROVE Inv'
  OBVIOUS
<1>1. ASSUME NEW h \in Handlers, Receive(h) PROVE Inv'
  BY <1>1, ReceiveKeeps
<1>2. ASSUME NEW h \in Handlers, Insert(h) PROVE Inv'
  BY <1>2, InsertKeeps
<1>3. ASSUME NEW h \in Handlers, Register(h) PROVE Inv'
  BY <1>3, RegisterKeeps
<1>4. ASSUME NEW h \in Handlers, PatchActive(h) PROVE Inv'
  BY <1>4, UpdateKeeps DEF PatchActive, Inv, MadeBeforeTold
<1>5. ASSUME NEW h \in Handlers, PatchFailed(h) PROVE Inv'
  BY <1>5, UpdateKeeps DEF PatchFailed
<1>6. CASE Rewatch
  BY <1>6, AddedIsTyped DEF Rewatch, Inv, Typed, MadeBeforeTold, NamedTenantIsComplete, status, Phases
<1>7. CASE Crash
  BY <1>7, AddedIsTyped DEF Crash, Inv, Typed, MadeBeforeTold, NamedTenantIsComplete, status, Phases, Steps
<1>8. CASE UNCHANGED vars
  BY <1>8 DEF vars, status, Inv, Typed, MadeBeforeTold, NamedTenantIsComplete
<1> QED
  BY <1>1, <1>2, <1>3, <1>4, <1>5, <1>6, <1>7, <1>8 DEF Next, Handle

\* The tenant the status names has its row and its admin, in every interleaving
\* of reconciliations, closed watches, lost answers and crashes.
THEOREM CompleteTenant == Spec => []NamedTenantIsComplete
<1>1. Inv => NamedTenantIsComplete
  BY DEF Inv
<1> QED
  BY InitHolds, NextKeeps, <1>1, PTL DEF Spec

Bounded == watches \in 0..MaxWatches /\ faults \in 0..MaxFaults

LEMMA BoundsKeep == Bounded /\ [Next]_vars => Bounded'
<1> SUFFICES ASSUME Bounded, [Next]_vars PROVE Bounded'
  OBVIOUS
<1> USE DEF Bounded
<1>1. Fault => faults' \in 0..MaxFaults
  BY OperatorAssumption DEF Fault, OperatorAssumption
<1>2. ASSUME NEW h \in Handlers, Handle(h) PROVE watches' = watches /\ (faults' = faults \/ Fault)
  BY <1>2 DEF Handle, Receive, Insert, Register, PatchActive, PatchFailed, UpdateStatus
<1>3. Rewatch \/ Crash => watches' \in 0..MaxWatches /\ (faults' = faults \/ Fault)
  BY OperatorAssumption DEF Rewatch, Crash, OperatorAssumption
<1> QED
  BY <1>1, <1>2, <1>3 DEF Next, vars

\* The operator's state stays within its types: a handler that registers an admin
\* or reports success has a tenant, and the status names a row.
THEOREM TypeCorrect == Spec => []TypeOK
<1>1. Init => Bounded
  BY OperatorAssumption DEF Init, OperatorAssumption, Bounded
<1>2. Inv /\ Bounded => TypeOK
  BY DEF Inv, Typed, TypeOK, Bounded
<1> QED
  BY InitHolds, NextKeeps, BoundsKeep, <1>1, <1>2, PTL DEF Spec
=============================================================================
