SPECIFICATION FairSpec
CONSTANT
  MaxRanges = 2
INVARIANTS OneMoreRound ExitCodeIsRight
PROPERTY ProcessEnds
