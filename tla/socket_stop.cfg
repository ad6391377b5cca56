SPECIFICATION FairSpec
CONSTANTS
  NumMsg = 0
  NumClients = 1
  NumReq = 0
  AcceptMayFail = FALSE
PROPERTY StopReturns
CHECK_DEADLOCK FALSE
