SPECIFICATION FairSpec
CONSTANT
  MaxRows = 2
PROPERTIES WritesAreAtomic TransactionEnds
