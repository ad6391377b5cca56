SPECIFICATION FairSpec
CONSTANTS
  NumOut = 2
  NumIn = 2
  Kinds = {"intact", "badCrc", "badHeader"}
PROPERTIES
  SendPktReturns
  IrqTaskReturns
  AllSentOnAir
