\* One address that is also a username, two accounts at a provider: what identifies
\* two users or one user twice.  Two credentials, three requests in all, two at once.
\* Symmetry is sound, as only safety is checked.
SPECIFICATION Spec
CONSTANTS
  MaxUsers = 2
  m1 = m1
  n1 = n1
  Mails = {m1}
  Names <- MCNames
  LocalPart <- MCLocalPart
  Subjects = {s1, s2}
  ProfileMail <- MCProfileMail
  Passwords = {p1}
  LegacyAccepts = {p1}
  Workers = {w1, w2}
  None = None
  MaxRequests = 3
  MaxAborts = 1
  Creds = {k1, k2}
SYMMETRY Same
INVARIANTS
  TypeOK
  KeysAgree
  UserEventsAreTrue
  FederatedSessionIsLinked
  LockStopsPasswords
  RetiredStaysRetired
PROPERTIES
  VerifiedIsStored
CHECK_DEADLOCK FALSE
