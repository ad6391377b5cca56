SPECIFICATION FairSpec
CONSTANTS
  NumMsg = 4
  Ids = {i1, i2}
  Frags <- MCFrags
  Kind <- MCKind
  Losable = {"MSG"}
  FreshIds = FALSE
  Prompt = TRUE
  Keyed = TRUE
INVARIANT DeliveredIsSent
