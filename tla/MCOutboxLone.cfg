\* One replica, which is what the contract needs; the poll may fail or die.
CONSTANTS
  Events = {e1, e2}
  Replicas = {r1}
  NoEvent = NoEvent
  MaxRetries = 3
  BatchSize = 1
  PollInterval = 1
  LostDbAcks = FALSE
  MaxFaults = 2
SPECIFICATION FairSpec
INVARIANTS
  ProcessedWasDelivered
  GaveUpOnlyAfterMaxRetries
  FirstAttemptsInOrder
PROPERTIES
  ImplementsContract
  EventuallySettled
