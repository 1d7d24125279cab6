SPECIFICATION FairSpec
CONSTANTS
  old = old
  new = new
  Instance = {old, new}
  Known <- MCKnown
  Request = {r1}
  MaxStarts = 3
  NoInstance = NoInstance
INVARIANT ServesOnItsSchema
CHECK_DEADLOCK FALSE
PROPERTY StartsSettle
PROPERTY ShutdownIsGraceful
