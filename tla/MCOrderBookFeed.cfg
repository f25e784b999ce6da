CONSTANTS
  Price <- MCPrice
  Size <- MCSize
  MaxMsgs = 2
  MaxLevels = 2
SPECIFICATION FairSpec
INVARIANT TypeOK
INVARIANT BookTracksServer
INVARIANT RecencyStamps
PROPERTY ImplementsMirror
PROPERTY EveryMessagePublished
PROPERTY TaskEndsAfterClose
CHECK_DEADLOCK FALSE
