CONSTANTS
  l1 = l1
  l2 = l2
  Listener = {l1, l2}
  Coins = 1
  RingSize = 1
  MaxFrames = 2
  MaxTrades = 2
SPECIFICATION FairSpec
INVARIANT TypeOK
INVARIANT DrainedBeforePanic
PROPERTY ImplementsRelay
PROPERTY ArrivedIsPublished
CHECK_DEADLOCK FALSE
