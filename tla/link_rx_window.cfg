SPECIFICATION FairSpec
CONSTANTS
  NumOut = 1
  NumIn = 1
  Kinds = {"intact"}
INVARIANT InvalidHeaderIsMalformed
