SPECIFICATION FairSpec
CONSTANTS
  Tabs = {"t1", "t2"}
  Session <- MCSession
  Address <- MCAddress
  Others <- MCOthers
  Keys <- MCKeys
  Max <- MCMax
  Callers <- Requests
  Window = 2
  Timeout = 1
  VerifyTimeout = 1
  MaxBody = 1
  TTL = 4
  Margin = 2
  MaxTime = 2
  NoToken = NoToken
  NoBearer = NoBearer
  NoOrg = NoOrg
INVARIANTS
  LimitHolds
  VerifiedIsNotUnauthorized
  OfferedIsAllowed
PROPERTY RequestsEnd
CHECK_DEADLOCK FALSE
