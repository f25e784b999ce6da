CONSTANTS
  QueueSize = 2
  MaxMessages = 2
SPECIFICATION FairSpec
INVARIANT TypeOK
INVARIANT BrokerSeesSubsequence
PROPERTY ImplementsRelay
PROPERTY MessagesAreRequested
PROPERTY ClosedRxEndsRun
CHECK_DEADLOCK FALSE
