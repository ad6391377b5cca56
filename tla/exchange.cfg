SPECIFICATION ExchangeSpec
CONSTANTS
  NumMsg = 2
  Ids = {i1, i2}
  Frags <- MCFrags
  Kind <- MCKind
  Losable = {"ENCRYP", "MSG"}
  FreshIds = TRUE
  Prompt = TRUE
  Keyed = FALSE
  Text <- MCText
  Commands <- MCCommands
  OwnIds = {a}
  Lease = 2
  MaxTime = 3
INVARIANTS
  ExchangeTypeOK
  OwnReadable
  GarbageIsBounded
  UndisturbedIsDelivered
  HandedUpAsWritten
  NoStrayFragment
  NothingFreedInUse
PROPERTIES
  MessagesReclaimed
