---------------------------- MODULE OutboxProofs ----------------------------
(***************************************************************************)
(* Theorems about the outbox, for any number of events, replicas, retries, *)
(* faults and any batch size.                                              *)
(***************************************************************************)
EXTENDS Outbox, FiniteSetTheorems, TLAPS

\* The loop variable is bound while one of its calls is awaited, and an idle
\* poller has nothing left to visit.
LoopInv ==
  \A r \in Replicas :
    /\ pc[r] \in {"ack", "nack"} => event[r] \in Events
    /\ pc[r] = "idle" => batch[r] = {}

\* A poller about to acknowledge an event has delivered it.
DeliveryInv ==
  /\ ProcessedWasDelivered
  /\ \A r \in Replicas : pc[r] = "ack" => delivered[event[r]]

\* What a poller read, and what it is about to write from it, never exceeds the
\* number of calls made for the event.
CountInv ==
  /\ GaveUpOnlyAfterMaxRetries
  /\ \A e \in Events : retryCount[e] <= attempts[e]
  /\ \A r \in Replicas : \A e \in batch[r] : snap[r][e] <= attempts[e]
  /\ \A r \in Replicas :
       pc[r] \in {"ack", "nack"} => snap[r][event[r]] + 1 <= attempts[event[r]]

IInv == TypeOK /\ LoopInv /\ DeliveryInv /\ CountInv

USE OutboxAssumption

LEMMA InitIInv == Init => IInv
  BY DEF Init, IInv, TypeOK, Statuses, LoopInv, DeliveryInv, CountInv,
         ProcessedWasDelivered, GaveUpOnlyAfterMaxRetries

\* One step per action of Next, and under it one per conjunct of the invariant.
LEMMA NextIInv == IInv /\ [Next]_vars => IInv'
<1> SUFFICES ASSUME IInv, [Next]_vars PROVE IInv'
  OBVIOUS
<1> USE DEF IInv
<1>1. ASSUME NEW e \in Events, Insert(e) PROVE IInv'
  <2> USE <1>1 DEF Insert, rows, poller, hook
  <2>0. Cardinality({f \in Events : seq[f] # 0}) \in Nat
    BY FS_Subset, FS_CardinalityType
  <2>1. TypeOK'
    BY <2>0 DEF TypeOK, Statuses
  <2>2. LoopInv'
    BY DEF TypeOK, LoopInv
  <2>3. DeliveryInv'
    BY DEF TypeOK, LoopInv, DeliveryInv, ProcessedWasDelivered
  <2>4. CountInv'
    BY DEF TypeOK, LoopInv, CountInv, GaveUpOnlyAfterMaxRetries
  <2> QED BY <2>1, <2>2, <2>3, <2>4
<1>0. ASSUME NEW e \in Events, Commit(e) PROVE IInv'
  <2> USE <1>0 DEF Commit, rows, poller, hook
  <2>1. TypeOK'
    BY DEF TypeOK, Statuses, TakenUp
  <2>2. LoopInv'
    BY DEF TypeOK, LoopInv
  <2>3. DeliveryInv'
    BY DEF TypeOK, LoopInv, DeliveryInv, ProcessedWasDelivered
  <2>4. CountInv'
    BY DEF TypeOK, LoopInv, CountInv, GaveUpOnlyAfterMaxRetries
  <2> QED BY <2>1, <2>2, <2>3, <2>4
<1>2. ASSUME NEW r \in Replicas, PollSkipped(r) PROVE IInv'
  <2> USE <1>2 DEF PollSkipped, TimerFires, rows, poller, hook
  <2>1. TypeOK'
    BY DEF TypeOK, LoopInv, Statuses
  <2>2. LoopInv'
    BY DEF TypeOK, LoopInv
  <2>3. DeliveryInv'
    BY DEF TypeOK, LoopInv, DeliveryInv, ProcessedWasDelivered
  <2>4. CountInv'
    BY DEF TypeOK, LoopInv, CountInv, GaveUpOnlyAfterMaxRetries
  <2> QED BY <2>1, <2>2, <2>3, <2>4
<1>3. ASSUME NEW r \in Replicas, Poll(r) PROVE IInv'
  <2> USE <1>3 DEF Poll, TimerFires, Bind, rows, poller, hook
  <2>0. Eligible \subseteq {e \in Events : retryCount[e] < MaxRetries}
    BY DEF Eligible, Fetched, Pending
  <2>1. TypeOK'
    BY <2>0 DEF TypeOK
  <2>2. LoopInv'
    BY <2>0 DEF TypeOK, LoopInv
  <2>3. DeliveryInv'
    BY DEF TypeOK, LoopInv, DeliveryInv, ProcessedWasDelivered
  <2>4. CountInv'
    BY <2>0 DEF TypeOK, LoopInv, CountInv, GaveUpOnlyAfterMaxRetries
  <2> QED BY <2>1, <2>2, <2>3, <2>4
<1>4. ASSUME NEW r \in Replicas, NEW e \in Events, NEW outcome \in Outcomes, Post(r, e, outcome) PROVE IInv'
  <2> USE <1>4 DEF Post, Bind, Outcomes, rows, poller, hook
  <2>1. TypeOK'
    BY DEF TypeOK, LoopInv, Statuses
  <2>2. LoopInv'
    BY DEF TypeOK, LoopInv
  <2>3. DeliveryInv'
    BY DEF TypeOK, LoopInv, DeliveryInv, ProcessedWasDelivered
  <2>4. CountInv'
    BY DEF TypeOK, LoopInv, CountInv, GaveUpOnlyAfterMaxRetries
  <2> QED BY <2>1, <2>2, <2>3, <2>4
<1>5. ASSUME NEW r \in Replicas, Ack(r) PROVE IInv'
  <2> USE <1>5 DEF Ack, NextIteration, Bind, rows, poller, hook
  <2>1. TypeOK'
    BY DEF TypeOK, LoopInv, Statuses
  <2>2. LoopInv'
    BY DEF TypeOK, LoopInv
  <2>3. DeliveryInv'
    BY DEF TypeOK, LoopInv, DeliveryInv, ProcessedWasDelivered
  <2>4. CountInv'
    BY DEF TypeOK, LoopInv, CountInv, GaveUpOnlyAfterMaxRetries
  <2> QED BY <2>1, <2>2, <2>3, <2>4
<1>6. ASSUME NEW r \in Replicas, Nack(r) PROVE IInv'
  <2> USE <1>6 DEF Nack, CountFailure, NextIteration, Bind, rows, poller, hook
  <2>1. TypeOK'
    BY DEF TypeOK, LoopInv, Statuses
  <2>2. LoopInv'
    BY DEF TypeOK, LoopInv
  <2>3. DeliveryInv'
    BY DEF TypeOK, LoopInv, DeliveryInv, ProcessedWasDelivered
  <2>4. CountInv'
    <3>0. /\ event[r] \in Events
          /\ snap[r][event[r]] + 1 \in 1..MaxRetries
          /\ snap[r][event[r]] + 1 <= attempts[event[r]]
          /\ attempts \in [Events -> 0..MaxRetries]
      BY DEF TypeOK, LoopInv, CountInv
    <3>1. \A e \in Events : retryCount'[e] <= attempts'[e]
      BY <3>0 DEF TypeOK, CountInv
    <3>2. GaveUpOnlyAfterMaxRetries'
      <4> SUFFICES ASSUME NEW e \in Events, status'[e] = "failed"
                   PROVE  attempts[e] = MaxRetries
        BY DEF GaveUpOnlyAfterMaxRetries
      <4>1. CASE e = event[r] /\ status[e] # "failed"
        <5>1. snap[r][event[r]] + 1 >= MaxRetries
          BY <4>1 DEF TypeOK
        <5>2. attempts[e] \in 0..MaxRetries
          BY DEF TypeOK
        <5> QED BY <3>0, <4>1, <5>1, <5>2
      <4>2. CASE e # event[r] \/ status[e] = "failed"
        BY <3>0, <4>2 DEF TypeOK, CountInv, GaveUpOnlyAfterMaxRetries
      <4> QED BY <4>1, <4>2
    <3>3. \A q \in Replicas : \A e \in batch'[q] : snap'[q][e] <= attempts'[e]
      BY <3>0 DEF TypeOK, CountInv
    <3>4. \A q \in Replicas :
            pc'[q] \in {"ack", "nack"} => snap'[q][event'[q]] + 1 <= attempts'[event'[q]]
      BY <3>0 DEF TypeOK, CountInv
    <3> QED BY <3>1, <3>2, <3>3, <3>4 DEF CountInv
  <2> QED BY <2>1, <2>2, <2>3, <2>4
<1>7. ASSUME NEW r \in Replicas, PollFails(r) PROVE IInv'
  <2> USE <1>7 DEF PollFails, TimerFires, Fault, rows, poller, hook
  <2>1. TypeOK'
    BY DEF TypeOK, LoopInv, Statuses
  <2>2. LoopInv'
    BY DEF TypeOK, LoopInv
  <2>3. DeliveryInv'
    BY DEF TypeOK, LoopInv, DeliveryInv, ProcessedWasDelivered
  <2>4. CountInv'
    BY DEF TypeOK, LoopInv, CountInv, GaveUpOnlyAfterMaxRetries
  <2> QED BY <2>1, <2>2, <2>3, <2>4
<1>8. ASSUME NEW r \in Replicas, NEW committed \in BOOLEAN, AckFails(r, committed) PROVE IInv'
  <2> USE <1>8 DEF AckFails, Bind, Fault, rows, poller, hook
  <2>1. TypeOK'
    BY DEF TypeOK, LoopInv, Statuses
  <2>2. LoopInv'
    BY DEF TypeOK, LoopInv
  <2>3. DeliveryInv'
    BY DEF TypeOK, LoopInv, DeliveryInv, ProcessedWasDelivered
  <2>4. CountInv'
    BY DEF TypeOK, LoopInv, CountInv, GaveUpOnlyAfterMaxRetries
  <2> QED BY <2>1, <2>2, <2>3, <2>4
<1>9. ASSUME NEW r \in Replicas, NEW committed \in BOOLEAN, NackFails(r, committed) PROVE IInv'
  <2> USE <1>9 DEF NackFails, CountFailure, Bind, Fault, rows, poller, hook
  <2>1. TypeOK'
    BY DEF TypeOK, LoopInv, Statuses
  <2>2. LoopInv'
    BY DEF TypeOK, LoopInv
  <2>3. DeliveryInv'
    BY DEF TypeOK, LoopInv, DeliveryInv, ProcessedWasDelivered
  <2>4. CountInv'
    <3>0. /\ event[r] \in Events
          /\ snap[r][event[r]] + 1 \in 1..MaxRetries
          /\ snap[r][event[r]] + 1 <= attempts[event[r]]
          /\ attempts \in [Events -> 0..MaxRetries]
      BY DEF TypeOK, LoopInv, CountInv
    <3>1. \A e \in Events : retryCount'[e] <= attempts'[e]
      BY <3>0 DEF TypeOK, CountInv
    <3>2. GaveUpOnlyAfterMaxRetries'
      <4> SUFFICES ASSUME NEW e \in Events, status'[e] = "failed"
                   PROVE  attempts[e] = MaxRetries
        BY DEF GaveUpOnlyAfterMaxRetries
      <4>1. CASE e = event[r] /\ status[e] # "failed"
        <5>1. snap[r][event[r]] + 1 >= MaxRetries
          BY <4>1 DEF TypeOK
        <5>2. attempts[e] \in 0..MaxRetries
          BY DEF TypeOK
        <5> QED BY <3>0, <4>1, <5>1, <5>2
      <4>2. CASE e # event[r] \/ status[e] = "failed"
        BY <3>0, <4>2 DEF TypeOK, CountInv, GaveUpOnlyAfterMaxRetries
      <4> QED BY <4>1, <4>2
    <3>3. \A q \in Replicas : \A e \in batch'[q] : snap'[q][e] <= attempts'[e]
      BY <3>0 DEF TypeOK, CountInv
    <3>4. \A q \in Replicas :
            pc'[q] \in {"ack", "nack"} => snap'[q][event'[q]] + 1 <= attempts'[event'[q]]
      BY <3>0 DEF TypeOK, CountInv
    <3> QED BY <3>1, <3>2, <3>3, <3>4 DEF CountInv
  <2> QED BY <2>1, <2>2, <2>3, <2>4
<1>10. ASSUME NEW r \in Replicas, Crash(r) PROVE IInv'
  <2> USE <1>10 DEF Crash, Bind, Fault, rows, poller, hook
  <2>1. TypeOK'
    BY DEF TypeOK, LoopInv, Statuses
  <2>2. LoopInv'
    BY DEF TypeOK, LoopInv
  <2>3. DeliveryInv'
    BY DEF TypeOK, LoopInv, DeliveryInv, ProcessedWasDelivered
  <2>4. CountInv'
    BY DEF TypeOK, LoopInv, CountInv, GaveUpOnlyAfterMaxRetries
  <2> QED BY <2>1, <2>2, <2>3, <2>4
<1>11. CASE Tick
  <2> USE <1>11 DEF Tick, rows, poller, hook
  <2>1. TypeOK'
    BY DEF TypeOK
  <2>2. LoopInv' /\ DeliveryInv' /\ CountInv'
    BY DEF LoopInv, DeliveryInv, CountInv, ProcessedWasDelivered, GaveUpOnlyAfterMaxRetries
  <2> QED BY <2>1, <2>2
<1>12. CASE UNCHANGED vars
  BY <1>12 DEF vars, rows, poller, hook, TypeOK, LoopInv, DeliveryInv, CountInv,
     ProcessedWasDelivered, GaveUpOnlyAfterMaxRetries
<1> QED
  BY <1>0, <1>1, <1>2, <1>3, <1>4, <1>5, <1>6, <1>7, <1>8, <1>9, <1>10, <1>11, <1>12 DEF Next, Dispatch

\* The columns, the pollers and the ghosts keep their types: in particular the
\* stored counter never exceeds MaxRetries, although it is written from stale
\* reads by several replicas.
THEOREM TypeCorrect == Spec => []TypeOK
<1>1. IInv => TypeOK
  BY DEF IInv
<1> QED BY <1>1, InitIInv, NextIInv, PTL DEF Spec

\* "processed" is a promise kept: the receiver has got every event marked so,
\* with any number of replicas, crashes and database errors.
THEOREM ProcessedSafe == Spec => []ProcessedWasDelivered
<1>1. IInv => ProcessedWasDelivered
  BY DEF IInv, DeliveryInv
<1> QED BY <1>1, InitIInv, NextIInv, PTL DEF Spec

\* "failed" is never premature: MaxRetries calls were made.
THEOREM FailedSafe == Spec => []GaveUpOnlyAfterMaxRetries
<1>1. IInv => GaveUpOnlyAfterMaxRetries
  BY DEF IInv, CountInv
<1> QED BY <1>1, InitIInv, NextIInv, PTL DEF Spec

-----------------------------------------------------------------------------
(* The order of first attempts, for any number of replicas.                 *)

Inserted == {e \in Events : seq[e] # 0}

\* What a poller holds of a younger event f it also holds of every older one that it
\* could have seen and nobody has tried.
BatchInv(b) ==
  \A f \in b :
    /\ status[f] # "none"
    /\ \A e \in Events :
         status[e] # "none" /\ seq[e] < seq[f] /\ attempts[e] = 0 /\ f \notin missed[e]
           => e \in b

\* An event nobody has tried is still as createEvent left it, so that every
\* window that reaches a younger event contains it, and every loop visits it first.
OrderInv ==
  /\ FirstAttemptsInOrder
  /\ \A e \in Events : seq[e] = 0 => status[e] = "none"
  /\ \A e \in Events : seq[e] <= Cardinality(Inserted)
  /\ \A e \in Events :
       /\ status[e] = "none" => attempts[e] = 0
       /\ attempts[e] = 0 => status[e] \in {"none", "pending"}
  /\ \A r \in Replicas : BatchInv(batch[r])

LEMMA InitOrder == Init => OrderInv
<1> SUFFICES ASSUME Init PROVE OrderInv
  OBVIOUS
<1>1. Cardinality(Inserted) \in Nat
  BY FS_Subset, FS_CardinalityType DEF Inserted
<1> QED BY <1>1 DEF Init, OrderInv, BatchInv, FirstAttemptsInOrder

\* A window that contains f contains every row that is older, visible and untried.
LEMMA WindowIsClosed ==
  ASSUME TypeOK, CountInv, OrderInv, NEW f \in Eligible, NEW e \in Events,
         status[e] # "none", seq[e] < seq[f], attempts[e] = 0
  PROVE  e \in Eligible
<1> DEFINE Older(g) == {h \in Pending : seq[h] < seq[g]}
<1>1. e \in Pending /\ retryCount[e] = 0
  BY DEF TypeOK, CountInv, OrderInv, Pending
<1>2. f \in Pending /\ Cardinality(Older(f)) < BatchSize
  BY DEF Eligible, Fetched
<1>3. Older(e) \subseteq Older(f)
  BY <1>2 DEF TypeOK, Pending
<1>4. IsFiniteSet(Older(e)) /\ IsFiniteSet(Older(f))
  BY FS_Subset DEF Pending
<1>5. Cardinality(Older(e)) <= Cardinality(Older(f))
  BY <1>3, <1>4, FS_Subset
<1>6. Cardinality(Older(e)) \in Nat /\ Cardinality(Older(f)) \in Nat
  BY <1>4, FS_CardinalityType
<1>7. e \in Fetched
  BY <1>1, <1>2, <1>5, <1>6 DEF Fetched
<1> QED BY <1>1, <1>7 DEF Eligible

LEMMA NextOrder == IInv /\ OrderInv /\ [Next]_vars => OrderInv'
<1> SUFFICES ASSUME IInv, OrderInv, [Next]_vars PROVE OrderInv'
  OBVIOUS
<1> USE DEF IInv, FirstAttemptsInOrder
<1>a. Cardinality(Inserted) \in Nat /\ IsFiniteSet(Inserted)
  BY FS_Subset, FS_CardinalityType DEF Inserted
<1>1. ASSUME NEW e \in Events, Insert(e) PROVE OrderInv'
  <2> USE <1>1 DEF Insert, poller, hook
  <2>1. PICK n \in Nat : n = Cardinality(Inserted) /\ seq' = [seq EXCEPT ![e] = 1 + n]
    BY <1>a DEF Inserted
  <2>2. /\ \A f \in Events : f # e => seq'[f] = seq[f]
        /\ seq'[e] = 1 + n /\ seq[e] = 0 /\ status[e] = "none"
        /\ seq \in [Events -> Nat]
        /\ \A f \in Events : seq[f] <= n
        /\ UNCHANGED <<status, missed, attempts, batch>>
    BY <2>1 DEF OrderInv, TypeOK
  <2>3. Cardinality(Inserted') = n + 1
    <3>1. Inserted' = Inserted \union {e} /\ e \notin Inserted
      BY <2>2 DEF Inserted
    <3> QED BY <1>a, <2>1, <3>1, FS_AddElement
  <2>4. FirstAttemptsInOrder'
    BY <2>2 DEF OrderInv
  <2>5. \A f \in Events : seq'[f] = 0 => status'[f] = "none"
    BY <2>2 DEF OrderInv
  <2>6. \A f \in Events : seq'[f] <= Cardinality(Inserted')
    BY <2>2, <2>3
  <2>7. \A r \in Replicas : BatchInv(batch[r])'
    <3> SUFFICES ASSUME NEW r \in Replicas, NEW f \in batch[r]
                 PROVE  /\ status[f] # "none"
                        /\ \A g \in Events :
                             status[g] # "none" /\ seq'[g] < seq'[f] /\ attempts[g] = 0
                               /\ f \notin missed[g] => g \in batch[r]
      BY <2>2 DEF BatchInv
    <3>1. f \in Events /\ f # e /\ status[f] # "none"
      BY <2>2 DEF OrderInv, BatchInv, TypeOK
    <3> QED BY <2>2, <3>1 DEF OrderInv, BatchInv
  <2> QED BY <2>2, <2>4, <2>5, <2>6, <2>7 DEF OrderInv
<1>0. ASSUME NEW e \in Events, Commit(e) PROVE OrderInv'
  <2> USE <1>0 DEF Commit, poller, hook
  <2>1. /\ \A f \in Events : f # e => status'[f] = status[f] /\ missed'[f] = missed[f]
        /\ status'[e] = "pending" /\ missed'[e] = {f \in TakenUp : seq[e] < seq[f]}
        /\ seq[e] # 0
        /\ UNCHANGED <<seq, attempts, batch>>
    BY DEF TypeOK
  <2>2. Inserted' = Inserted
    BY <2>1 DEF Inserted
  <2>3. FirstAttemptsInOrder'
    BY <2>1 DEF OrderInv, TakenUp
  <2>4. \A r \in Replicas : BatchInv(batch[r])'
    BY <2>1 DEF OrderInv, BatchInv, TakenUp, TypeOK
  <2> QED BY <2>1, <2>2, <2>3, <2>4 DEF OrderInv
<1>2. ASSUME NEW r \in Replicas, Poll(r) PROVE OrderInv'
  <2> USE <1>2 DEF Poll, Bind, rows, hook
  <2>1. Inserted' = Inserted
    BY DEF Inserted
  <2>2. \A f \in Eligible : status[f] # "none"
    BY DEF Eligible, Fetched, Pending
  <2>3. BatchInv(Eligible)
    BY <2>2, WindowIsClosed DEF BatchInv
  <2>4. \A q \in Replicas : batch'[q] = IF q = r THEN Eligible ELSE batch[q]
    BY DEF TypeOK
  <2>5. \A q \in Replicas : BatchInv(batch[q])'
    BY <2>3, <2>4 DEF BatchInv, OrderInv
  <2> QED BY <2>1, <2>5 DEF OrderInv
<1>3. ASSUME NEW r \in Replicas, NEW e \in Events, NEW outcome \in Outcomes, Post(r, e, outcome)
      PROVE OrderInv'
  <2> USE <1>3 DEF Post, Bind, rows
  <2>1. Inserted' = Inserted
    BY DEF Inserted
  <2>2. \A f \in Events : attempts'[f] = 0 <=> attempts[f] = 0 /\ f # e
    BY DEF TypeOK
  <2>3. \A f \in Events :
          status[f] # "none" /\ seq[f] < seq[e] => attempts[f] # 0 \/ e \in missed[f]
    BY DEF OrderInv, BatchInv, TypeOK
  <2>4. FirstAttemptsInOrder'
    BY <2>2, <2>3 DEF OrderInv, TypeOK
  <2>5. status[e] # "none"
    BY DEF OrderInv, BatchInv, TypeOK
  <2>6. \A f \in Events :
          /\ status'[f] = "none" => attempts'[f] = 0
          /\ attempts'[f] = 0 => status'[f] \in {"none", "pending"}
    BY <2>2, <2>5 DEF OrderInv
  <2>7. \A q \in Replicas : BatchInv(batch[q])'
    BY <2>2 DEF OrderInv, BatchInv, TypeOK
  <2> QED BY <2>1, <2>4, <2>6, <2>7 DEF OrderInv
<1>4. ASSUME NEW r \in Replicas, pc[r] \in {"ack", "nack"},
             Ack(r) \/ Nack(r) \/ \E committed \in BOOLEAN : AckFails(r, committed) \/ NackFails(r, committed)
      PROVE OrderInv'
  <2> DEFINE e == event[r]
  <2>1. e \in Events /\ attempts[e] # 0 /\ status[e] # "none" /\ seq[e] # 0
    BY <1>4 DEF LoopInv, CountInv, OrderInv, TypeOK
  <2>2. /\ \A f \in Events : f # e => status'[f] = status[f]
        /\ status'[e] # "none"
        /\ UNCHANGED <<seq, missed, attempts>>
        /\ \A q \in Replicas : batch'[q] = batch[q] \/ batch'[q] = {}
    BY <1>4, <2>1 DEF Ack, Nack, AckFails, NackFails, NextIteration, CountFailure, Bind, hook, TypeOK
  <2>3. Inserted' = Inserted
    BY <2>2 DEF Inserted
  <2>4. \A q \in Replicas : BatchInv(batch[q])'
    <3>1. /\ \A f \in Events : status'[f] # "none" <=> status[f] # "none"
          /\ \A q \in Replicas : batch[q] \subseteq Events
      BY <2>1, <2>2 DEF TypeOK
    <3> QED BY <2>2, <3>1 DEF OrderInv, BatchInv
  <2> QED BY <2>1, <2>2, <2>3, <2>4 DEF OrderInv, TypeOK
<1>5. ASSUME NEW r \in Replicas, PollSkipped(r) \/ PollFails(r) \/ Crash(r) PROVE OrderInv'
  <2>1. /\ UNCHANGED <<status, seq, missed, attempts>>
        /\ \A q \in Replicas : batch'[q] = batch[q] \/ batch'[q] = {}
    BY <1>5 DEF PollSkipped, PollFails, Crash, Bind, rows, poller, hook, TypeOK
  <2>2. Inserted' = Inserted
    BY <2>1 DEF Inserted
  <2> QED BY <2>1, <2>2 DEF OrderInv, BatchInv
<1>6. CASE Tick \/ UNCHANGED vars
  <2>1. UNCHANGED <<status, seq, missed, attempts, batch>>
    BY <1>6 DEF Tick, vars, rows, poller, hook
  <2>2. Inserted' = Inserted
    BY <2>1 DEF Inserted
  <2> QED BY <2>1, <2>2 DEF OrderInv, BatchInv
<1> QED
  BY <1>0, <1>1, <1>2, <1>3, <1>4, <1>5, <1>6 DEF Next, Dispatch, Ack, Nack, AckFails, NackFails

\* First attempts are made in the order of createdAt, whatever the window, the
\* backoff and the other replicas do, but for rows a poll could not see in time.
THEOREM OrderHolds == Spec => []FirstAttemptsInOrder
<1>1. OrderInv => FirstAttemptsInOrder
  BY DEF OrderInv
<1> QED BY <1>1, InitIInv, NextIInv, InitOrder, NextOrder, PTL DEF Spec

-----------------------------------------------------------------------------
(***************************************************************************)
(* While the polls of different replicas do not overlap, and statements    *)
(* fail only when they were not applied, the snapshot a poll works from    *)
(* cannot become stale.  This is the inductive invariant behind the        *)
(* contract.                                                               *)
(***************************************************************************)
SoleInv ==
  \A r \in Replicas :
    /\ \A e \in batch[r] : status[e] = "pending" /\ snap[r][e] = retryCount[e]
    /\ pc[r] \in {"ack", "nack"} =>
         /\ event[r] \notin batch[r]
         /\ status[event[r]] = "pending"
         /\ snap[r][event[r]] = retryCount[event[r]]

\* No two replicas are inside processOutbox.
PollsApart == \A q, r \in Replicas : pc[q] # "idle" /\ pc[r] # "idle" => q = r

\* As with the single replica of the default deployment.
SolePoller == (\A q, r \in Replicas : q = r) /\ LostDbAcks = FALSE

LEMMA InitSole == Init => SoleInv
  BY DEF Init, SoleInv

\* When one poller is at work the others hold nothing that could become stale.
LEMMA OthersHoldNothing ==
  ASSUME IInv, PollsApart, NEW r \in Replicas, pc[r] # "idle"
  PROVE  \A q \in Replicas : q # r => pc[q] = "idle" /\ batch[q] = {}
  BY DEF IInv, LoopInv, PollsApart

LEMMA NextSole ==
  ASSUME LostDbAcks = FALSE, PollsApart, IInv, SoleInv, [Next]_vars
  PROVE  SoleInv'
<1> USE DEF IInv, TypeOK, SoleInv, rows, poller, hook
<1>0. ASSUME NEW e \in Events, Commit(e) PROVE SoleInv'
  BY <1>0 DEF Commit, LoopInv
<1>1. ASSUME NEW e \in Events, Insert(e) PROVE SoleInv'
  BY <1>1 DEF Insert, LoopInv
<1>2. ASSUME NEW r \in Replicas, PollSkipped(r) PROVE SoleInv'
  BY <1>2 DEF PollSkipped, TimerFires, LoopInv
<1>3. ASSUME NEW r \in Replicas, Poll(r) PROVE SoleInv'
  <2>1. Eligible \subseteq {e \in Events : status[e] = "pending"}
    BY DEF Eligible, Fetched, Pending
  <2> QED BY <1>3, <2>1 DEF Poll, TimerFires, Bind
<1>4. ASSUME NEW r \in Replicas, NEW e \in Events, NEW outcome \in Outcomes, Post(r, e, outcome) PROVE SoleInv'
  BY <1>4, OthersHoldNothing DEF Post, Bind, Outcomes, LoopInv
<1>5. ASSUME NEW r \in Replicas, Ack(r) PROVE SoleInv'
  <2>1. event[r] \in Events /\ \A q \in Replicas : q # r => pc[q] = "idle" /\ batch[q] = {}
    BY <1>5, OthersHoldNothing DEF Ack, LoopInv
  <2>2. /\ \A e \in Events : e # event[r] => status'[e] = status[e] /\ retryCount'[e] = retryCount[e]
        /\ \A q \in Replicas : q # r => pc'[q] = pc[q]
        /\ pc'[r] \in {"idle", "post"}
        /\ UNCHANGED <<batch, snap>>
    BY <1>5, <2>1 DEF Ack, NextIteration, Bind
  <2> QED BY <1>5, <2>1, <2>2 DEF Ack
<1>6. ASSUME NEW r \in Replicas, Nack(r) PROVE SoleInv'
  <2>1. event[r] \in Events /\ \A q \in Replicas : q # r => pc[q] = "idle" /\ batch[q] = {}
    BY <1>6, OthersHoldNothing DEF Nack, LoopInv
  <2>2. /\ \A e \in Events : e # event[r] => status'[e] = status[e] /\ retryCount'[e] = retryCount[e]
        /\ \A q \in Replicas : q # r => pc'[q] = pc[q]
        /\ pc'[r] \in {"idle", "post"}
        /\ UNCHANGED <<batch, snap>>
    BY <1>6, <2>1 DEF Nack, CountFailure, NextIteration, Bind
  <2> QED BY <1>6, <2>1, <2>2 DEF Nack
<1>7. ASSUME NEW r \in Replicas, PollFails(r) PROVE SoleInv'
  BY <1>7 DEF PollFails, TimerFires, Fault, LoopInv
<1>8. ASSUME NEW r \in Replicas, NEW committed \in BOOLEAN, AckFails(r, committed) PROVE SoleInv'
  BY <1>8, OthersHoldNothing DEF AckFails, Bind, Fault, LoopInv
<1>9. ASSUME NEW r \in Replicas, NEW committed \in BOOLEAN, NackFails(r, committed) PROVE SoleInv'
  BY <1>9, OthersHoldNothing DEF NackFails, CountFailure, Bind, Fault, LoopInv
<1>10. ASSUME NEW r \in Replicas, Crash(r) PROVE SoleInv'
  BY <1>10 DEF Crash, Bind, Fault, LoopInv
<1>11. CASE Tick
  BY <1>11 DEF Tick
<1>12. CASE UNCHANGED vars
  BY <1>12 DEF vars
<1> QED
  BY <1>0, <1>1, <1>2, <1>3, <1>4, <1>5, <1>6, <1>7, <1>8, <1>9, <1>10, <1>11, <1>12 DEF Next, Dispatch

\* Each step of such pollers is a step of the contract or invisible in it.
LEMMA StepImplements ==
  ASSUME LostDbAcks = FALSE, IInv, SoleInv, [Next]_vars
  PROVE  [Contract!Next]_<<status, retryCount, delivered>>
<1> USE DEF rows, poller, hook, Contract!Next
<1>0. ASSUME NEW e \in Events, Commit(e)
      PROVE  [Contract!Next]_<<status, retryCount, delivered>>
  BY <1>0 DEF Commit, Contract!Create
<1>1. ASSUME NEW e \in Events, Insert(e)
      PROVE  [Contract!Next]_<<status, retryCount, delivered>>
  BY <1>1 DEF Insert
<1>2. ASSUME NEW r \in Replicas, PollSkipped(r)
      PROVE  [Contract!Next]_<<status, retryCount, delivered>>
  BY <1>2 DEF PollSkipped
<1>3. ASSUME NEW r \in Replicas, Poll(r)
      PROVE  [Contract!Next]_<<status, retryCount, delivered>>
  BY <1>3 DEF Poll
<1>4. ASSUME NEW r \in Replicas, NEW e \in Events, NEW outcome \in Outcomes, Post(r, e, outcome)
      PROVE  [Contract!Next]_<<status, retryCount, delivered>>
  <2>1. status[e] = "pending"
    BY <1>4 DEF Post, SoleInv
  <2>2. CASE outcome = "lost"
    BY <1>4, <2>2 DEF Post, IInv, TypeOK
  <2>3. CASE outcome # "lost"
    <3>1. Contract!Deliver(e)
      BY <1>4, <2>1, <2>3 DEF Post, Contract!Deliver, IInv, TypeOK
    <3> QED BY <3>1
  <2> QED BY <2>2, <2>3
<1>5. ASSUME NEW r \in Replicas, Ack(r)
      PROVE  [Contract!Next]_<<status, retryCount, delivered>>
  <2>1. event[r] \in Events /\ status[event[r]] = "pending" /\ delivered[event[r]]
    BY <1>5 DEF Ack, IInv, LoopInv, DeliveryInv, SoleInv
  <2>2. Contract!Settle(event[r])
    BY <1>5, <2>1 DEF Ack, Contract!Settle
  <2> QED BY <2>1, <2>2
<1>6. ASSUME NEW r \in Replicas, Nack(r)
      PROVE  [Contract!Next]_<<status, retryCount, delivered>>
  <2>1. /\ event[r] \in Events /\ status[event[r]] = "pending"
        /\ snap[r][event[r]] = retryCount[event[r]]
        /\ snap[r][event[r]] \in 0..(MaxRetries - 1)
    BY <1>6 DEF Nack, IInv, TypeOK, LoopInv, SoleInv
  <2>2. snap[r][event[r]] + 1 >= MaxRetries <=> retryCount[event[r]] + 1 = MaxRetries
    BY <2>1
  <2>3. Contract!CountFailure(event[r])
    BY <1>6, <2>1, <2>2 DEF Nack, CountFailure, Contract!CountFailure, IInv, TypeOK
  <2> QED BY <2>1, <2>3
<1>7. ASSUME NEW r \in Replicas, PollFails(r)
      PROVE  [Contract!Next]_<<status, retryCount, delivered>>
  BY <1>7 DEF PollFails
<1>8. ASSUME NEW r \in Replicas, NEW committed \in BOOLEAN, AckFails(r, committed)
      PROVE  [Contract!Next]_<<status, retryCount, delivered>>
  BY <1>8 DEF AckFails
<1>9. ASSUME NEW r \in Replicas, NEW committed \in BOOLEAN, NackFails(r, committed)
      PROVE  [Contract!Next]_<<status, retryCount, delivered>>
  BY <1>9 DEF NackFails
<1>10. ASSUME NEW r \in Replicas, Crash(r)
      PROVE  [Contract!Next]_<<status, retryCount, delivered>>
  BY <1>10 DEF Crash
<1>11. CASE Tick
  BY <1>11 DEF Tick
<1>12. CASE UNCHANGED vars
  BY <1>12 DEF vars
<1> QED
  BY <1>0, <1>1, <1>2, <1>3, <1>4, <1>5, <1>6, <1>7, <1>8, <1>9, <1>10, <1>11, <1>12 DEF Next, Dispatch

\* A step of such pollers does not touch a row that is settled.
LEMMA StepKeepsSettled ==
  ASSUME LostDbAcks = FALSE, IInv, SoleInv, [Next]_vars, NEW e \in Events,
         status[e] \in {"processed", "failed"}
  PROVE  status'[e] = status[e]
<1>1. [Contract!Next]_<<status, retryCount, delivered>>
  BY StepImplements
<1> QED
  BY <1>1 DEF Contract!Next, Contract!Create, Contract!Deliver, Contract!Settle,
     Contract!CountFailure, IInv, TypeOK

\* Any number of replicas implement the safety part of OutboxContract as long as their
\* polls do not overlap: what the contract is lost to is the overlap and nothing else.
THEOREM ApartRefinement ==
  ASSUME LostDbAcks = FALSE
  PROVE  Spec /\ []PollsApart => Contract!SafeSpec
<1>1. Init => Contract!Init
  BY DEF Init, Contract!Init
<1>2. IInv /\ SoleInv /\ PollsApart /\ [Next]_vars => SoleInv'
  BY NextSole
<1>3. IInv /\ SoleInv /\ [Next]_vars => [Contract!Next]_(Contract!vars)
  BY StepImplements DEF Contract!vars
<1> QED
  BY <1>1, <1>2, <1>3, InitIInv, NextIInv, InitSole, PTL DEF Spec, Contract!SafeSpec

\* Replicas whose polls do not overlap never reopen an event that was processed or
\* failed: the catch block then updates the row it has read.
THEOREM ApartSettledStays ==
  ASSUME LostDbAcks = FALSE
  PROVE  Spec /\ []PollsApart => SettledIsFinal
<1>1. IInv /\ SoleInv /\ PollsApart /\ [Next]_vars => SoleInv'
  BY NextSole
<1>2. IInv /\ SoleInv /\ [Next]_vars =>
        [\A e \in Events :
           status[e] \in {"processed", "failed"} => status'[e] = status[e]]_vars
  BY StepKeepsSettled
<1> QED
  BY <1>1, <1>2, InitIInv, NextIInv, InitSole, PTL DEF Spec, SettledIsFinal

\* The poller of one replica implements the safety part of OutboxContract.
THEOREM Refinement ==
  ASSUME SolePoller
  PROVE  Spec => Contract!SafeSpec
<1>1. LostDbAcks = FALSE /\ PollsApart
  BY DEF SolePoller, PollsApart
<1> QED
  BY <1>1, ApartRefinement, PTL

\* With one replica no event that was processed or failed is ever reopened.
THEOREM SettledStays ==
  ASSUME SolePoller
  PROVE  Spec => SettledIsFinal
<1>1. LostDbAcks = FALSE /\ PollsApart
  BY DEF SolePoller, PollsApart
<1> QED
  BY <1>1, ApartSettledStays, PTL
=============================================================================
