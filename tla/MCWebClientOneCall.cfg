\* One call at a time; a request and an answer may get lost.
SPECIFICATION FairClientSpec
CONSTANTS
  Users = {u1}
  Sessions = {s1, s2}
  Clients = {}
  Workers = {c1}
  NoUser = NoUser
  NoClient = NoClient
  NoSession = NoSession
  MaxToken = 4
  MaxAborts = 1
  MaxLost = 1
INVARIANTS
  OnlyLostAnswersAlarm
  StoredPairIsCurrent
PROPERTIES
  SilentRetry
  LogoutAllReaches
  CallsEnd
CHECK_DEADLOCK FALSE
