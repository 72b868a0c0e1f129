\* Two requests at a time over two sessions; three tokens let a session be
\* rotated while the other is opened, or one be rotated twice.
CONSTANTS
  Users = {u1}
  Sessions = {s1, s2}
  Clients = {c1}
  Workers = {w1, w2}
  NoUser = NoUser
  NoClient = NoClient
  NoSession = NoSession
  MaxToken = 3
  MaxAborts = 1
SPECIFICATION Spec
SYMMETRY SessionSymmetry
INVARIANTS
  AnnouncedIsTrue
  TerminatedMeansAll
  AlarmMeansReuse
PROPERTIES
  ImplementsContract
