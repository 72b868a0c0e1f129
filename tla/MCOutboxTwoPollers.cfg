\* The constants of the source; two replicas are enough for the disagreement.
CONSTANTS
  Events = {e1}
  Replicas = {r1, r2}
  NoEvent = NoEvent
  MaxRetries = 5
  BatchSize = 20
  PollInterval = 5
  LostDbAcks = FALSE
  MaxFaults = 0
SPECIFICATION Spec
SYMMETRY ReplicaSymmetry
PROPERTIES
  SettledIsFinal
