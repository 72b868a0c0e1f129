------------------------------- MODULE Outbox -------------------------------
(***************************************************************************)
(* The transactional outbox and its poller, outbox.service.ts.             *)
(*                                                                         *)
(* Every replica of the server runs one poller.  A poller is started by a  *)
(* timer, reads the pending rows, and then dispatches each of them in turn *)
(* with three awaited calls (the POST, the UPDATE that acknowledges it, or *)
(* the UPDATE that counts the failure).  Between two awaited calls any     *)
(* other replica may run, the clock may advance, the process may die.      *)
(*                                                                         *)
(* Time is relative: "age" is what has elapsed since createdAt, "timer"    *)
(* what has elapsed since the interval last fired.  Both saturate at the   *)
(* largest value the code ever compares them with, so nothing is lost.     *)
(***************************************************************************)
EXTENDS Naturals, FiniteSets

CONSTANTS
  Events,        \* the rows that may ever be inserted in outbox_events
  Replicas,      \* the server processes; Helm's replicaCount
  NoEvent,       \* "the loop variable is not bound"
  MaxRetries,    \* 5 in the source
  BatchSize,     \* 20 in the source
  PollInterval,  \* 5 (seconds) in the source
  LostDbAcks,    \* may a statement be committed although the client sees an error?
  MaxFaults      \* bound: how many database errors and crashes a behaviour has

ASSUME OutboxAssumption ==
  /\ IsFiniteSet(Events) /\ NoEvent \notin Events
  /\ MaxRetries \in Nat \ {0}
  /\ BatchSize \in Nat \ {0}
  /\ PollInterval \in Nat \ {0}
  /\ LostDbAcks \in BOOLEAN
  /\ MaxFaults \in Nat

VARIABLES
  status,      \* the column "status" of every row; "none" while no poll can see it
  retryCount,  \* the column "retryCount"
  seq,         \* rank of the row in createdAt order, 0 before the INSERT
  missed,      \* ghost: the events a poll had taken up when a row became visible
  age,         \* seconds since createdAt, saturating
  pc,          \* where the poller of a replica is; "idle" is isPolling = false
  timer,       \* seconds since the interval of a replica fired, saturating
  batch,       \* the events of eligibleEvents the loop has still to visit
  snap,        \* event.retryCount as findMany returned it
  event,       \* the loop variable
  attempts,    \* how often the webhook was called for an event, saturating
  delivered,   \* has the receiver got the event?
  faults       \* how many faults have happened

rows   == <<status, retryCount, seq, missed>>
poller == <<pc, batch, snap, event>>
hook   == <<attempts, delivered>>
vars   == <<rows, age, poller, timer, hook, faults>>

Statuses == {"none", "pending", "processed", "failed"}

\* 2^n, the number of seconds an event with n failures waits.
Pow2[n \in Nat] == IF n = 0 THEN 1 ELSE 2 * Pow2[n - 1]

\* No comparison in the code involves a longer time: a row with MaxRetries failures
\* is no longer fetched.
MaxAge == Pow2[MaxRetries - 1]

TypeOK ==
  /\ status \in [Events -> Statuses]
  /\ retryCount \in [Events -> 0..MaxRetries]
  /\ seq \in [Events -> Nat]
  /\ missed \in [Events -> SUBSET Events]
  /\ age \in [Events -> Nat]
  /\ pc \in [Replicas -> {"idle", "post", "ack", "nack"}]
  /\ timer \in [Replicas -> 0..PollInterval]
  /\ batch \in [Replicas -> SUBSET Events]
  /\ snap \in [Replicas -> [Events -> 0..(MaxRetries - 1)]]
  /\ event \in [Replicas -> Events \union {NoEvent}]
  /\ attempts \in [Events -> 0..MaxRetries]
  /\ delivered \in [Events -> BOOLEAN]
  /\ faults \in 0..MaxFaults

Init ==
  /\ status = [e \in Events |-> "none"]
  /\ retryCount = [e \in Events |-> 0]
  /\ seq = [e \in Events |-> 0]
  /\ missed = [e \in Events |-> {}]
  /\ age = [e \in Events |-> 0]
  /\ pc = [r \in Replicas |-> "idle"]
  /\ timer = [r \in Replicas |-> 0]
  /\ batch = [r \in Replicas |-> {}]
  /\ snap = [r \in Replicas |-> [e \in Events |-> 0]]
  /\ event = [r \in Replicas |-> NoEvent]
  /\ attempts = [e \in Events |-> 0]
  /\ delivered = [e \in Events |-> FALSE]
  /\ faults = 0

-----------------------------------------------------------------------------
(* The rows.                                                               *)

\* createEvent: createdAt gets its value in the caller's transaction.
Insert(e) ==
  /\ seq[e] = 0
  /\ seq' = [seq EXCEPT ![e] = 1 + Cardinality({f \in Events : seq[f] # 0})]
  /\ UNCHANGED <<status, retryCount, missed, age, poller, timer, hook, faults>>

\* The events some poll has fetched and not abandoned, or has tried.
TakenUp == {e \in Events : attempts[e] > 0 \/ \E r \in Replicas : e \in batch[r]}

\* The transaction commits: only now does a query return the row, pending and never
\* tried.  One that rolls back is an Insert with no Commit.  Without a transaction
\* the INSERT commits by itself.
Commit(e) ==
  /\ seq[e] # 0 /\ status[e] = "none"
  /\ status' = [status EXCEPT ![e] = "pending"]
  /\ missed' = [missed EXCEPT ![e] = {f \in TakenUp : seq[e] < seq[f]}]
  /\ UNCHANGED <<retryCount, seq, age, poller, timer, hook, faults>>

(* Definitions named Slip... are plausible mistakes in the definition that   *)
(* follows; no action uses them, the checks put them in its place.           *)

\* The query forgets the status.
SlipPending == {e \in Events : status[e] # "none" /\ retryCount[e] < MaxRetries}

\* where: { status: 'pending', retryCount: { lt: 5 } }
Pending == {e \in Events : status[e] = "pending" /\ retryCount[e] < MaxRetries}

\* The newest rows first.
SlipFetched ==
  {e \in Pending : Cardinality({f \in Pending : seq[f] > seq[e]}) < BatchSize}

\* orderBy createdAt asc, take BatchSize.
Fetched ==
  {e \in Pending : Cardinality({f \in Pending : seq[f] < seq[e]}) < BatchSize}

\* The backoff filter measures from createdAt.
Eligible ==
  {e \in Fetched : retryCount[e] = 0 \/ age[e] >= Pow2[retryCount[e]]}

-----------------------------------------------------------------------------
(* The poller of replica r.                                                *)

TimerFires(r) == timer[r] = PollInterval /\ timer' = [timer EXCEPT ![r] = 0]

Bind(r, p, b, e) ==
  /\ pc' = [pc EXCEPT ![r] = p]
  /\ batch' = [batch EXCEPT ![r] = b]
  /\ event' = [event EXCEPT ![r] = e]

\* if (this.isPolling) return
PollSkipped(r) ==
  /\ pc[r] # "idle"
  /\ TimerFires(r)
  /\ UNCHANGED <<rows, age, poller, hook, faults>>

\* findMany and the backoff filter.  With nothing eligible the poll is over.
Poll(r) ==
  /\ pc[r] = "idle"
  /\ TimerFires(r)
  /\ Bind(r, IF Eligible = {} THEN "idle" ELSE "post", Eligible, NoEvent)
  /\ snap' = [snap EXCEPT ![r] =
                [e \in Events |-> IF e \in Eligible THEN retryCount[e] ELSE 0]]
  /\ UNCHANGED <<rows, age, hook, faults>>

\* Any call that did not time out counts as an answer.
SlipPost(r, e, outcome) ==
  /\ pc[r] = "post"
  /\ e \in batch[r]
  /\ \A f \in batch[r] : seq[e] <= seq[f]
  /\ Bind(r, IF outcome # "unacked" THEN "ack" ELSE "nack", batch[r] \ {e}, e)
  /\ attempts' = [attempts EXCEPT ![e] = IF @ < MaxRetries THEN @ + 1 ELSE @]
  /\ delivered' = [delivered EXCEPT ![e] = @ \/ outcome # "lost"]
  /\ UNCHANGED <<rows, age, snap, timer, faults>>

\* axios.post for the next event of the loop.  "ok" is a 2xx answer, "lost" a
\* call that never reached the receiver, "unacked" one that did reach it but
\* ended for the poller in an error or in the 5 second timeout.
Post(r, e, outcome) ==
  /\ pc[r] = "post"
  /\ e \in batch[r]
  /\ \A f \in batch[r] : seq[e] <= seq[f]
  /\ Bind(r, IF outcome = "ok" THEN "ack" ELSE "nack", batch[r] \ {e}, e)
  /\ attempts' = [attempts EXCEPT ![e] = IF @ < MaxRetries THEN @ + 1 ELSE @]
  /\ delivered' = [delivered EXCEPT ![e] = @ \/ outcome # "lost"]
  /\ UNCHANGED <<rows, age, snap, timer, faults>>

\* The loop goes on, or finally { isPolling = false }.
NextIteration(r) ==
  Bind(r, IF batch[r] = {} THEN "idle" ELSE "post", batch[r], NoEvent)

\* update: { status: 'processed', processedAt }
Ack(r) ==
  /\ pc[r] = "ack"
  /\ status' = [status EXCEPT ![event[r]] = "processed"]
  /\ NextIteration(r)
  /\ UNCHANGED <<retryCount, seq, missed, age, snap, timer, hook, faults>>

\* The limit is compared with a strict or an early bound.
SlipLimit(r, limit) ==
  LET e == event[r]
  IN /\ status' = [status EXCEPT ![e] =
                     IF snap[r][e] + 1 >= limit THEN "failed" ELSE "pending"]
     /\ retryCount' = [retryCount EXCEPT ![e] = snap[r][e] + 1]

SlipTooLate(r) == SlipLimit(r, MaxRetries + 1)
SlipTooEarly(r) == SlipLimit(r, MaxRetries - 1)

\* catch: { status: failed or pending, retryCount: event.retryCount + 1 },
\* both computed from the row as it was when findMany read it.
CountFailure(r) ==
  LET e == event[r]
      nextRetryCount == snap[r][e] + 1
  IN /\ status' = [status EXCEPT ![e] =
                     IF nextRetryCount >= MaxRetries THEN "failed" ELSE "pending"]
     /\ retryCount' = [retryCount EXCEPT ![e] = nextRetryCount]

Nack(r) ==
  /\ pc[r] = "nack"
  /\ CountFailure(r)
  /\ NextIteration(r)
  /\ UNCHANGED <<seq, missed, age, snap, timer, hook, faults>>

-----------------------------------------------------------------------------
(* Faults and time.                                                        *)

Fault == faults < MaxFaults /\ faults' = faults + 1

\* findMany throws: the outer catch, then finally.
PollFails(r) ==
  /\ pc[r] = "idle"
  /\ TimerFires(r)
  /\ Fault
  /\ UNCHANGED <<rows, age, poller, hook>>

\* The acknowledging update throws.  It is inside the try of the POST, so the
\* delivered event is counted as a failure.
AckFails(r, committed) ==
  /\ pc[r] = "ack"
  /\ committed => LostDbAcks
  /\ Fault
  /\ status' = IF committed THEN [status EXCEPT ![event[r]] = "processed"] ELSE status
  /\ Bind(r, "nack", batch[r], event[r])
  /\ UNCHANGED <<retryCount, seq, missed, age, snap, timer, hook>>

\* The update of the catch block throws: the outer catch abandons the batch.
NackFails(r, committed) ==
  /\ pc[r] = "nack"
  /\ committed => LostDbAcks
  /\ Fault
  /\ IF committed THEN CountFailure(r) ELSE UNCHANGED <<status, retryCount>>
  /\ Bind(r, "idle", {}, NoEvent)
  /\ UNCHANGED <<seq, missed, age, snap, timer, hook>>

\* The process dies and is started again: onModuleInit arms a new interval.
Crash(r) ==
  /\ Fault
  /\ Bind(r, "idle", {}, NoEvent)
  /\ timer' = [timer EXCEPT ![r] = 0]
  /\ UNCHANGED <<rows, age, snap, hook>>

\* One second passes.
Tick ==
  /\ age' = [e \in Events |->
               IF seq[e] # 0 /\ age[e] < MaxAge THEN age[e] + 1 ELSE age[e]]
  /\ timer' = [r \in Replicas |->
                 IF timer[r] < PollInterval THEN timer[r] + 1 ELSE timer[r]]
  /\ UNCHANGED <<rows, poller, hook, faults>>

-----------------------------------------------------------------------------
Outcomes == {"ok", "lost", "unacked"}

Dispatch(r) ==
  \/ \E e \in Events, outcome \in Outcomes : Post(r, e, outcome)
  \/ Ack(r)
  \/ Nack(r)

Next ==
  \/ \E e \in Events : Insert(e)
  \/ \E e \in Events : Commit(e)
  \/ \E r \in Replicas : PollSkipped(r)
  \/ \E r \in Replicas : Poll(r)
  \/ \E r \in Replicas : Dispatch(r)
  \/ \E r \in Replicas : PollFails(r)
  \/ \E r \in Replicas, committed \in BOOLEAN : AckFails(r, committed)
  \/ \E r \in Replicas, committed \in BOOLEAN : NackFails(r, committed)
  \/ \E r \in Replicas : Crash(r)
  \/ Tick

Spec == Init /\ [][Next]_vars

\* The clock runs, the interval fires, and every awaited call returns: the POST
\* has a timeout of 5 seconds, a database statement answers or throws.  Nothing
\* is assumed of the receiver or of the callers' transactions, and faults are
\* never forced.
Fairness ==
  /\ WF_vars(Tick)
  /\ \A r \in Replicas : /\ WF_vars(Poll(r) \/ PollSkipped(r))
                         /\ WF_vars(Dispatch(r))

FairSpec == Spec /\ Fairness

-----------------------------------------------------------------------------
(* What makes the outbox correct.                                          *)

\* An event is marked processed only after the receiver got it, whatever the
\* replicas, the stale snapshots and the database errors do.
ProcessedWasDelivered ==
  \A e \in Events : status[e] = "processed" => delivered[e]

\* No event is given up early: "failed" means that the webhook was called at
\* least MaxRetries times, although the counter is written from a stale read
\* (lost updates may make it count too little, never too much).
GaveUpOnlyAfterMaxRetries ==
  \A e \in Events : status[e] = "failed" => attempts[e] = MaxRetries

\* Neither the window of the BatchSize oldest rows nor the per-replica loops let an
\* event be tried before one whose createdAt is older, with one exception: the older
\* row was committed only after a poll had taken the younger one up, since createdAt
\* is given inside the caller's transaction and orders what the poller cannot see.
FirstAttemptsInOrder ==
  \A e, f \in Events :
    status[e] # "none" /\ seq[e] < seq[f] /\ attempts[f] > 0
      => attempts[e] > 0 \/ f \in missed[e]

\* A row that reached its final status keeps it.
SettledIsFinal ==
  [][\A e \in Events :
       status[e] \in {"processed", "failed"} => status'[e] = status[e]]_vars

\* No row stays pending for ever, with any number of replicas: each event is
\* from some moment on processed or logged as failed.
EventuallySettled ==
  \A e \in Events :
    status[e] = "pending" ~> [](status[e] \in {"processed", "failed"})

\* A lone poller implements OutboxContract, its columns read as they are: every
\* event settles, never reopens, is processed only once delivered and fails only
\* after MaxRetries counted failures, the lifecycle of ADR 0003.
Contract == INSTANCE OutboxContract

ImplementsContract == Contract!Spec
=============================================================================
