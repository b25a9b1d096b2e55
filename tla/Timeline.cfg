SPECIFICATION FairSpec
CONSTANTS
  s1 = s1
  s2 = s2
  Sessions = {s1, s2}
  NoSession = NoSession
  Log <- MCLog
  NoMessage = "none"
  Fetches = {1, 2}
  MaxDisturbances = 3
CHECK_DEADLOCK FALSE
INVARIANTS TypeOK
PROPERTIES NoGhosts ReceiveKeepsText PageConverges
