\* Two calls of one client over one session, no fault at all.
SPECIFICATION ClientSpec
CONSTANTS
  Users = {u1}
  Sessions = {s1}
  Clients = {}
  Workers = {c1, c2}
  NoUser = NoUser
  NoClient = NoClient
  NoSession = NoSession
  MaxToken = 4
  MaxAborts = 0
  MaxLost = 0
INVARIANTS
  NeverSelfRevoked
CHECK_DEADLOCK FALSE
