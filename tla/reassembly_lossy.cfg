SPECIFICATION FairSpec
CONSTANTS
  NumMsg = 4
  Ids = {i1, i2, i3}
  Frags <- MCFrags
  Kind <- MCKind
  Losable = {"ENCRYP", "MSG", "FLAGS"}
  FreshIds = FALSE
  Prompt = TRUE
  Keyed = TRUE
INVARIANTS
  GarbageNeedsLoss
  InOrder
PROPERTY WholeIsDelivered
