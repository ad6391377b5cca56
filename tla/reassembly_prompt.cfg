SPECIFICATION FairSpec
CONSTANTS
  NumMsg = 4
  Ids = {i1, i2, i3, i4}
  Frags <- MCFrags
  Kind <- MCKind
  Losable = {"MSG", "FLAGS"}
  FreshIds = TRUE
  Prompt = TRUE
  Keyed = TRUE
INVARIANTS
  TypeOK
  OnlyLossLingers
PROPERTY ImplementsService
