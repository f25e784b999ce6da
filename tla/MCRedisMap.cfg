CONSTANTS
  k1 = k1
  k2 = k2
  Key <- MCKey
  MaxSets = 2
  MaxCrashes = 2
SPECIFICATION FairSpec
INVARIANT TypeOK
INVARIANT SetsInOrder
INVARIANT ReadsGoForward
INVARIANT OnlyFailedAreLost
PROPERTY QueueDrains
CHECK_DEADLOCK FALSE
