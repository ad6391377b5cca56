SPECIFICATION FairSpec
CONSTANTS
  NumOut = 2
  NumIn = 0
  Kinds = {"intact"}
PROPERTY NoTxCut
