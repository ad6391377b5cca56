SPECIFICATION LeavingSpec
CONSTANTS
  NumMsg = 3
  NumClients = 2
  NumReq = 1
  AcceptMayFail = TRUE
INVARIANTS
  TypeOK
  NothingLost
PROPERTIES
  StopReturns
  NextIsServed
