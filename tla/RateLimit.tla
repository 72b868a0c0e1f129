----------------------------- MODULE RateLimit -----------------------------
(***************************************************************************)
(* PrismaThrottlerStorage.increment: a fixed-window counter kept in the    *)
(* rate_limits table, here for one key.  The guard of @nestjs/throttler    *)
(* (external) lets a request pass unless increment says isBlocked.         *)
(*                                                                         *)
(* Workers are requests under way, in any replica; each awaited statement  *)
(* is one step.  The replicas and the database share the clock.            *)
(***************************************************************************)
EXTENDS Integers, Sequences, FiniteSets

CONSTANTS
  Workers,
  Limit, TTL,    \* @Throttle's limit and ttl
  MaxTime,       \* bound: the last instant of the model
  MaxRequests    \* bound: how many requests arrive

ASSUME RateLimitAssumption ==
  /\ IsFiniteSet(Workers)
  /\ Limit \in Nat \ {0} /\ TTL \in Nat \ {0}
  /\ MaxTime \in Nat /\ MaxRequests \in Nat

VARIABLES
  now,       \* the clock
  hits,      \* the row of the key; 0 while there is none
  until,     \* its expiresAt
  pc,        \* the statement each request awaits
  arrived,   \* when it called increment
  record,    \* the row its upsert returned
  counted,   \* ghost: the instants of the upserts, in their order
  passed     \* ghost: the instants at which requests passed

table == <<hits, until>>
rateVars == <<now, table, pc, arrived, record, counted, passed>>

Times == 0..MaxTime
Steps == {"idle", "clean", "upsert", "decide", "reset"}

NoRecord == [hits |-> 0, until |-> 0]

RateTypeOK ==
  /\ now \in Times
  /\ hits \in 0..MaxRequests
  /\ until \in 0..(MaxTime + TTL)
  /\ pc \in [Workers -> Steps]
  /\ arrived \in [Workers -> Times]
  /\ record \in [Workers -> [hits : 0..MaxRequests, until : 0..(MaxTime + TTL)]]
  /\ counted \in Seq(Times) /\ Len(counted) <= MaxRequests
  /\ passed \in Seq(Times) /\ Len(passed) <= Len(counted)
  /\ \A w \in Workers : pc[w] = "decide" => record[w].hits > 0

RateInit ==
  /\ now = 0
  /\ hits = 0 /\ until = 0
  /\ pc = [w \in Workers |-> "idle"]
  /\ arrived = [w \in Workers |-> 0]
  /\ record = [w \in Workers |-> NoRecord]
  /\ counted = <<>> /\ passed = <<>>

\* The entries of a log that are not older than the instant t.
Since(log, t) == {i \in 1..Len(log) : log[i] >= t}

-----------------------------------------------------------------------------
Goto(w, p) == pc' = [pc EXCEPT ![w] = p]

ExpiresAt(w) == arrived[w] + TTL

\* The request has its verdict and its locals are gone.
Return(w) ==
  /\ Goto(w, "idle")
  /\ arrived' = [arrived EXCEPT ![w] = 0]
  /\ record' = [record EXCEPT ![w] = NoRecord]

Pass(w) == Return(w) /\ passed' = Append(passed, now)

\* ... and it is not let through.
Block(w) == Return(w) /\ UNCHANGED passed

\* expiresAt and the cut-off of the clean-up are taken from the clock.
Arrive(w) ==
  /\ pc[w] = "idle"
  /\ Len(counted) + Cardinality({v \in Workers : pc[v] \in {"clean", "upsert"}}) < MaxRequests
  /\ arrived' = [arrived EXCEPT ![w] = now]
  /\ Goto(w, "clean")
  /\ UNCHANGED <<now, table, record, counted, passed>>

\* deleteMany, with the cut-off of the arrival.
Clean(w) ==
  /\ pc[w] = "clean"
  /\ hits' = IF until < arrived[w] THEN 0 ELSE hits
  /\ Goto(w, "upsert")
  /\ UNCHANGED <<now, until, arrived, record, counted, passed>>

(* Definitions named Slip... are plausible mistakes in the definition that   *)
(* follows; no action uses them, the checks put them in its place.           *)

\* The row as it was before the update is returned.
SlipBefore(w) ==
  /\ pc[w] = "upsert"
  /\ hits' = hits + 1
  /\ until' = IF hits = 0 THEN ExpiresAt(w) ELSE until
  /\ record' = [record EXCEPT ![w] = [hits |-> hits, until |-> until']]
  /\ counted' = Append(counted, now)
  /\ Goto(w, "decide")
  /\ UNCHANGED <<now, arrived, passed>>

\* The new count is computed from the row the request saw last.
SlipUpsert(w) ==
  /\ pc[w] = "upsert"
  /\ hits' = IF hits = 0 THEN 1 ELSE record[w].hits + 1
  /\ until' = IF hits = 0 THEN ExpiresAt(w) ELSE until
  /\ record' = [record EXCEPT ![w] = [hits |-> hits', until |-> until']]
  /\ counted' = Append(counted, now)
  /\ Goto(w, "decide")
  /\ UNCHANGED <<now, arrived, passed>>

\* The upsert is one INSERT ... ON CONFLICT: it creates or increments.
Upsert(w) ==
  /\ pc[w] = "upsert"
  /\ hits' = hits + 1
  /\ until' = IF hits = 0 THEN ExpiresAt(w) ELSE until
  /\ record' = [record EXCEPT ![w] = [hits |-> hits', until |-> until']]
  /\ counted' = Append(counted, now)
  /\ Goto(w, "decide")
  /\ UNCHANGED <<now, arrived, passed>>

\* The row is never found expired here.
SlipDecide(w) ==
  /\ pc[w] = "decide"
  /\ IF record[w].hits > Limit THEN Block(w) ELSE Pass(w)
  /\ UNCHANGED <<now, table, counted>>

\* The answer is computed from the returned row, unless that has expired since.
Decide(w) ==
  /\ pc[w] = "decide"
  /\ \/ record[w].until < now /\ Goto(w, "reset") /\ UNCHANGED <<arrived, record, passed>>
     \/ record[w].until >= now /\ record[w].hits <= Limit /\ Pass(w)
     \/ record[w].until >= now /\ record[w].hits > Limit /\ Block(w)
  /\ UNCHANGED <<now, table, counted>>

\* The update by key.  Another request may have deleted the row, then the update
\* throws and the request ends in a 500; or deleted and made it anew.
Reset(w) ==
  /\ pc[w] = "reset"
  /\ \/ hits = 0 /\ Block(w) /\ UNCHANGED table
     \/ hits # 0 /\ hits' = 1 /\ until' = ExpiresAt(w) /\ Pass(w)
  /\ UNCHANGED <<now, counted>>

Tick == now < MaxTime /\ now' = now + 1 /\ UNCHANGED <<table, pc, arrived, record, counted, passed>>

Continue(w) == Clean(w) \/ Upsert(w) \/ Decide(w) \/ Reset(w)

RateNext == Tick \/ \E w \in Workers : Arrive(w) \/ Continue(w)

RateSpec == RateInit /\ [][RateNext]_rateVars

-----------------------------------------------------------------------------
(* What the limit promises.                                                *)

\* However many requests arrive at once, in however many replicas, no more than
\* Limit of them pass before the first window ends.
BurstWithinLimit == now <= TTL => Len(passed) <= Limit

\* A request is blocked only when more than Limit requests, itself included, were
\* counted during the last TTL: a row that has expired blocks nobody, whoever
\* deletes, recreates or resets it in between.
NoFalseBlock ==
  [][\A w \in Workers :
       Decide(w) /\ Block(w)
         => Cardinality(Since(counted, now - TTL)) > Limit]_rateVars
=============================================================================
