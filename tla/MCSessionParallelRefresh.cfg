\* One session and two refreshes are enough for the disagreement.
CONSTANTS
  Users = {u1}
  Sessions = {s1}
  Clients = {}
  Workers = {w1, w2}
  NoUser = NoUser
  NoClient = NoClient
  NoSession = NoSession
  MaxToken = 3
  MaxAborts = 0
SPECIFICATION Spec
PROPERTIES
  HonouredOnce
