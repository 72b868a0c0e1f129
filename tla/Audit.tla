------------------------------- MODULE Audit -------------------------------
(***************************************************************************)
(* Requests whose handlers carry @Audit, and the interceptor that writes   *)
(* their entries (audit-log.interceptor.ts); an evaluation logs its        *)
(* decision by itself, in the same way.  An entry is written once the      *)
(* handler has succeeded, and beside the answer, which does not wait for   *)
(* it: a request at "audit" has been answered.  What the handlers do is in *)
(* Rbac and Shield.                                                        *)
(***************************************************************************)
EXTENDS Naturals, FiniteSets

CONSTANTS
  Workers,   \* requests in flight
  None,
  MaxCalls,  \* bound: how many requests a behaviour has
  MaxFaults  \* bound: how many statements fail or handlers die

ASSUME AuditAssumption == MaxCalls \in Nat /\ MaxFaults \in Nat

VARIABLES
  pc, req,       \* the call each request awaits, and its locals
  log,           \* audit_logs
  answered,      \* ghost: the entries owed for what was answered as done
  calls, faults

auditVars == <<pc, req, log, answered, calls, faults>>

\* The locals: the audited action, who calls, what it is done on and with,
\* whether the interceptor finds the tenant, and what the handler has read.
Blank ==
  [op |-> None, who |-> None, on |-> None, to |-> None, tenant |-> TRUE, read |-> {}]

Entry(r, actor) == [action |-> r.op, actor |-> actor, on |-> r.on, to |-> r.to]

\* logDecision: the entry of an evaluation names the user it was about.
LoggedDecision(r) == {Entry(r, r.who)}

\* The entry the interceptor makes, if any: without x-tenant-id and an authenticated
\* user there is none, though the tenant is known from the path.  It names no actor,
\* as it looks in user.userId and user.id, which AuthGuard does not set, and in
\* answers without an id of a user.
Intercepted(r) == IF r.tenant THEN {Entry(r, None)} ELSE {}

\* The entry a request owes once it was answered as done.
Owed(r) == IF r.op = "evaluate" THEN LoggedDecision(r) ELSE Intercepted(r)

AuditInit ==
  /\ pc = [w \in Workers |-> "idle"]
  /\ req = [w \in Workers |-> Blank]
  /\ log = {} /\ answered = {}
  /\ calls = 0 /\ faults = 0

-----------------------------------------------------------------------------
Goto(w, p) == pc' = [pc EXCEPT ![w] = p]
Over(w) == Goto(w, "idle") /\ req' = [req EXCEPT ![w] = Blank]

Begin(w, r, p) ==
  /\ pc[w] = "idle"
  /\ calls < MaxCalls /\ calls' = calls + 1
  /\ req' = [req EXCEPT ![w] = r]
  /\ Goto(w, p)
  /\ UNCHANGED <<log, answered, faults>>

\* A call that returned v is over, the next one is p.
Step(w, p, v) ==
  /\ Goto(w, p) /\ req' = [req EXCEPT ![w].read = v]
  /\ UNCHANGED <<log, answered, calls, faults>>

(* Definitions named Slip... are plausible mistakes in the definition that   *)
(* follows; no action uses them, the checks put them in its place.           *)

\* The entry is written however the handler ends.
SlipRefuse(w) == Goto(w, "audit") /\ UNCHANGED <<req, log, answered, calls, faults>>

\* The handler throws: no entry.
Refuse(w) == Over(w) /\ UNCHANGED <<log, answered, calls, faults>>

\* The entry is not written without an actor.
SlipWriteEntry(w) ==
  /\ pc[w] = "audit"
  /\ log' = log \union {e \in Owed(req[w]) : e.actor # None}
  /\ Over(w)
  /\ UNCHANGED <<answered, calls, faults>>

WriteEntry(w) ==
  /\ pc[w] = "audit"
  /\ log' = log \union Owed(req[w])
  /\ Over(w)
  /\ UNCHANGED <<answered, calls, faults>>

\* The handler returns, and the answer is sent.
Answer(w) ==
  /\ Goto(w, "audit")
  /\ answered' = answered \union Owed(req[w])
  /\ UNCHANGED <<req, log, calls, faults>>

\* A statement fails or the process dies: a 500, or an entry that is not written,
\* which only the console is told.
Fault(w) ==
  /\ pc[w] # "idle"
  /\ faults < MaxFaults /\ faults' = faults + 1
  /\ Over(w)
  /\ UNCHANGED <<log, answered, calls>>

-----------------------------------------------------------------------------
\* Whatever was answered as done has its entry or is about to, unless a statement
\* failed or a process died: the entry is written beside the answer.
DoneIsAudited ==
  faults = 0 =>
    answered \subseteq log \union UNION {Owed(req[w]) : w \in {v \in Workers : pc[v] = "audit"}}
=============================================================================
