SPECIFICATION FairSpec
CONSTANTS
  s1 = s1
  s2 = s2
  Sessions = {s1, s2}
  MaxIV = 2
  MaxBlocks = 2
  Active <- S1AndClient
  Closers = {s1}
CHECK_DEADLOCK FALSE
INVARIANTS TypeOK AcceptedAsWritten LossHasCause
PROPERTIES BuffersAreEmptied NumbersAreFreed
