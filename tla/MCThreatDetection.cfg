\* Two runs of the job may overlap and one of them may fail.  Four failures are enough
\* for two groups at the threshold, and for one well above it.  An identifier of nobody
\* has no instance here: its groups are passed over like those of locked users.
SPECIFICATION FairSpec
CONSTANTS
  u1 = u1  u2 = u2
  shared = shared  own = own
  Users = {u1, u2}
  NoUser = NoUser
  Identifiers = {shared, own}
  Names <- MCNames
  Logins = {l1}
  Detectors = {d1, d2}
  MaxFailedLogins = 2
  Window = 2
  MaxAttempts = 4
  MaxFaults = 1
INVARIANTS
  TypeOK
  LockIsEarned
  AlertsAreTrue
PROPERTIES
  BurstIsLocked
