------------------------------ MODULE Operator ------------------------------
(***************************************************************************)
(* The Kubernetes operator, kubernetes/operator/src/operator.ts, and one   *)
(* KavachTenant resource.                                                  *)
(*                                                                         *)
(* The watch calls an async handler for every event and does not wait for  *)
(* it, so reconciliations of the same resource overlap.  A handler sees    *)
(* the resource as it was when the event was made.  Kubernetes closes      *)
(* watches now and then; the operator opens a new one, which begins with   *)
(* an ADDED event for the resource.                                        *)
(*                                                                         *)
(* The operator writes status through the status subresource of the        *)
(* resource.  The CRD that the repository ships, kavach-tenant-crd.yaml,    *)
(* declares none, and then every such write is refused; the model covers   *)
(* clusters with either kind of CRD.                                       *)
(***************************************************************************)
EXTENDS Naturals, FiniteSets, Sequences

CONSTANTS
  Handlers,     \* reconciliations under way
  MaxWatches,   \* bound: watches closed while there is work to do
  MaxTenants,   \* bound: with so many rows the resource is not delivered anew
  MaxFaults     \* bound: statements and calls that fail, and crashes

ASSUME OperatorAssumption == MaxWatches \in Nat /\ MaxTenants \in Nat /\ MaxFaults \in Nat

VARIABLES
  subresource,  \* does the CRD declare the status subresource?  Never changes
  phase,      \* status.phase of the resource
  tenantId,   \* status.tenantId; 0 while there is none
  events,     \* the watch: the phases of the events not yet handled
  tenants,    \* how many rows reconcile has inserted into tenants
  admins,     \* the rows for which users/register has made the admin
  pc,         \* the awaited call of each handler
  mine,       \* the tenant it has generated
  watches, faults

status == <<phase, tenantId>>
vars == <<subresource, status, events, tenants, admins, pc, mine, watches, faults>>

Phases == {"none", "Active", "Failed"}
Steps == {"idle", "insert", "register", "patchActive", "patchFailed"}

TypeOK ==
  /\ subresource \in BOOLEAN
  /\ phase \in Phases
  /\ tenantId \in 0..tenants
  /\ events \in Seq(Phases)
  /\ tenants \in Nat
  /\ admins \subseteq 1..tenants
  /\ pc \in [Handlers -> Steps]
  /\ mine \in [Handlers -> 0..tenants]
  /\ \A h \in Handlers : pc[h] \in {"register", "patchActive"} => mine[h] # 0
  /\ watches \in 0..MaxWatches
  /\ faults \in 0..MaxFaults

Init ==
  /\ subresource \in BOOLEAN
  /\ phase = "none" /\ tenantId = 0
  /\ events = <<"none">>
  /\ tenants = 0 /\ admins = {}
  /\ pc = [h \in Handlers |-> "idle"]
  /\ mine = [h \in Handlers |-> 0]
  /\ watches = 0 /\ faults = 0

-----------------------------------------------------------------------------
Goto(h, p) == pc' = [pc EXCEPT ![h] = p]

Return(h) == Goto(h, "idle") /\ mine' = [mine EXCEPT ![h] = 0]

Fault == faults < MaxFaults /\ faults' = faults + 1

(* Definitions named Slip... are plausible mistakes in the definition that   *)
(* follows; no action uses them, the checks put them in its place.           *)

\* A resource that has failed once is left alone.
SlipReceive(h) ==
  /\ pc[h] = "idle" /\ events # <<>>
  /\ events' = Tail(events)
  /\ IF Head(events) = "none" THEN Goto(h, "insert") ELSE UNCHANGED pc
  /\ UNCHANGED <<subresource, status, tenants, admins, mine, watches, faults>>

\* watchHandler and the early return of reconcile: ADDED and MODIFIED alike.
Receive(h) ==
  /\ pc[h] = "idle" /\ events # <<>>
  /\ events' = Tail(events)
  /\ IF Head(events) # "Active" THEN Goto(h, "insert") ELSE UNCHANGED pc
  /\ UNCHANGED <<subresource, status, tenants, admins, mine, watches, faults>>

\* The id of the row is not kept.
SlipInsert(h) ==
  /\ pc[h] = "insert"
  /\ tenants' = tenants + 1 /\ Goto(h, "register")
  /\ UNCHANGED <<subresource, status, events, admins, mine, watches, faults>>

\* connect, randomUUID and the INSERT.  When it fails the row may be there.
Insert(h) ==
  /\ pc[h] = "insert"
  /\ \/ /\ tenants' = tenants + 1
        /\ mine' = [mine EXCEPT ![h] = tenants + 1]
        /\ Goto(h, "register") /\ UNCHANGED faults
     \/ Fault /\ tenants' \in {tenants, tenants + 1} /\ Goto(h, "patchFailed") /\ UNCHANGED mine
  /\ UNCHANGED <<subresource, status, events, admins, watches>>

\* "if (!response.ok)" is missing.
SlipRegister(h) ==
  /\ pc[h] = "register"
  /\ \/ admins' = admins \union {mine[h]} /\ UNCHANGED faults
     \/ Fault /\ UNCHANGED admins
  /\ Goto(h, "patchActive")
  /\ UNCHANGED <<subresource, status, events, tenants, mine, watches>>

\* POST users/register.  When it fails the admin may have been made all the same:
\* an answer that is lost is an error too.
Register(h) ==
  /\ pc[h] = "register"
  /\ \/ admins' = admins \union {mine[h]} /\ Goto(h, "patchActive") /\ UNCHANGED faults
     \/ Fault /\ admins' \in {admins, admins \union {mine[h]}} /\ Goto(h, "patchFailed")
  /\ UNCHANGED <<subresource, status, events, tenants, mine, watches>>

\* updateStatus: the merge patch changes createdAt, so it always makes a MODIFIED
\* event; without a tenantId it keeps the old one.  Its failure is swallowed, and
\* without the subresource it fails every time.
UpdateStatus(h, p) ==
  /\ \/ /\ subresource
        /\ phase' = p
        /\ tenantId' = IF p = "Active" THEN mine[h] ELSE tenantId
        /\ events' = Append(events, p)
        /\ UNCHANGED faults
     \/ subresource /\ Fault /\ UNCHANGED <<status, events>>
     \/ ~subresource /\ UNCHANGED <<status, events, faults>>
  /\ Return(h)
  /\ UNCHANGED <<subresource, tenants, admins, watches>>

PatchActive(h) == pc[h] = "patchActive" /\ UpdateStatus(h, "Active")

PatchFailed(h) == pc[h] = "patchFailed" /\ UpdateStatus(h, "Failed")

Quiet == events = <<>> /\ \A h \in Handlers : pc[h] = "idle"

\* What a new watch begins with: the resource is ADDED as it is now.
Added == IF tenants < MaxTenants THEN <<phase>> ELSE <<>>

\* The new watch resumes where the old one ended.
SlipRewatch ==
  /\ \/ watches < MaxWatches /\ watches' = watches + 1
     \/ Quiet /\ UNCHANGED watches
  /\ events' = <<>>
  /\ UNCHANGED <<subresource, status, tenants, admins, pc, mine, faults>>

\* The watch ends and is opened anew: the events it had not delivered are gone.
\* Handlers go on.  The bound counts the watches that end while the operator is at
\* work.
Rewatch ==
  /\ \/ watches < MaxWatches /\ watches' = watches + 1
     \/ Quiet /\ UNCHANGED watches
  /\ events' = Added
  /\ UNCHANGED <<subresource, status, tenants, admins, pc, mine, faults>>

\* The operator is killed and started again.
Crash ==
  /\ Fault
  /\ pc' = [h \in Handlers |-> "idle"]
  /\ mine' = [h \in Handlers |-> 0]
  /\ events' = Added
  /\ UNCHANGED <<subresource, status, tenants, admins, watches>>

-----------------------------------------------------------------------------
Handle(h) == Receive(h) \/ Insert(h) \/ Register(h) \/ PatchActive(h) \/ PatchFailed(h)

Next == (\E h \in Handlers : Handle(h)) \/ Rewatch \/ Crash

Spec == Init /\ [][Next]_vars

\* Calls return, events are handled, and no watch lasts for ever.
FairSpec == Spec /\ WF_vars(Rewatch) /\ \A h \in Handlers : WF_vars(Handle(h))

-----------------------------------------------------------------------------
(* What the operator promises.                                             *)

\* The tenant that the status names is complete, however many reconciliations
\* overlap: its row is there and so is its admin.
NamedTenantIsComplete ==
  /\ tenantId # 0 => tenantId \in admins
  /\ phase = "Active" => tenantId # 0

\* Once statements no longer fail the resource gets a tenant with its admin, with
\* either CRD: a reconciliation that failed is not the last one.
EventuallyProvisioned == <>(admins # {})

\* With the status subresource the resource also becomes and stays Active: neither a
\* lost status update nor a late Failed of a slower handler has the last word.  (With
\* the CRD of the repository its status is never set, and each watch provisions
\* another tenant for it.)
EventuallyActive == subresource => <>[](phase = "Active")
=============================================================================
