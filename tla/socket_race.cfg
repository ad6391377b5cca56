SPECIFICATION FairSpec
CONSTANTS
  NumMsg = 2
  NumClients = 1
  NumReq = 0
  AcceptMayFail = FALSE
INVARIANT NothingDropped
