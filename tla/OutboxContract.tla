--------------------------- MODULE OutboxContract ---------------------------
(***************************************************************************)
(* What the outbox promises to the code that creates events (ADR 0003): an *)
(* event is handed to the receiver until it is processed, or it is tried   *)
(* MaxRetries times and logged as failed; either way that is the end of it.*)
(* No poller, batch, clock or fault appears here.                          *)
(***************************************************************************)
EXTENDS Naturals

CONSTANTS Events, MaxRetries

VARIABLES status, retryCount, delivered

vars == <<status, retryCount, delivered>>

Init ==
  /\ status = [e \in Events |-> "none"]
  /\ retryCount = [e \in Events |-> 0]
  /\ delivered = [e \in Events |-> FALSE]

Create(e) ==
  /\ status[e] = "none"
  /\ status' = [status EXCEPT ![e] = "pending"]
  /\ UNCHANGED <<retryCount, delivered>>

\* The receiver gets a pending event (perhaps once more).
Deliver(e) ==
  /\ status[e] = "pending"
  /\ delivered' = [delivered EXCEPT ![e] = TRUE]
  /\ UNCHANGED <<status, retryCount>>

Settle(e) ==
  /\ status[e] = "pending"
  /\ delivered[e]
  /\ status' = [status EXCEPT ![e] = "processed"]
  /\ UNCHANGED <<retryCount, delivered>>

CountFailure(e) ==
  /\ status[e] = "pending"
  /\ retryCount' = [retryCount EXCEPT ![e] = @ + 1]
  /\ status' = [status EXCEPT ![e] =
                  IF retryCount[e] + 1 = MaxRetries THEN "failed" ELSE "pending"]
  /\ UNCHANGED delivered

Next == \E e \in Events : Create(e) \/ Deliver(e) \/ Settle(e) \/ CountFailure(e)

\* A pending event is worked on until it is settled.
Fairness == \A e \in Events : WF_vars(Settle(e) \/ CountFailure(e))

SafeSpec == Init /\ [][Next]_vars
Spec     == SafeSpec /\ Fairness
=============================================================================
