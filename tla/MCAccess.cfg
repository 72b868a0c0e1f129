\* Two requests at a time, three in all, after the seed script or without it.
SPECIFICATION Spec
CONSTANTS
  Workers = {w1, w2}
  None = None
  MaxCalls = 3
  MaxFaults = 1
  Accounts = {u1, u2}
  Roles = {r1}
  Permissions = {p1}
  Seeded = {r1, p1}
  Required = {p1}
  Sessions = {s1}
  People = {v1}
  Devices = {d1}
  Levels = {2, 3}
  Rules <- MCRules
  BaseScores = {40}
SYMMETRY AccessSymmetry
INVARIANTS
  EntriesAreTrue
  DoneIsAudited
  ConflictIsTrue
  EndedByEntitled
  PassedWasTolerated
CHECK_DEADLOCK FALSE
