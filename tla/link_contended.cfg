SPECIFICATION FairSpec
CONSTANTS
  NumOut = 3
  NumIn = 2
  Kinds = {"intact", "badCrc", "badHeader"}
INVARIANTS
  TypeOK
  AirOrder
  ListensAtRest
  InboxFaithful
PROPERTIES
  OnlyCrossedIsCut
  ReceivesAsChannel
  TransmitsAsChannel
