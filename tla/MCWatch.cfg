CONSTANTS
  btc = btc
  eth = eth
  w1 = w1
  w2 = w2
  Symbol = {btc, eth}
  Watcher = {w1, w2}
  Wants <- MCWants
  Payload = {"trades", "orders"}
  MaxItems = 2
  MaxBatch = 2
SPECIFICATION FairSpec
INVARIANT ChannelTypeOK
INVARIANT PipelineIsFifo
PROPERTY WantedIsDelivered
PROPERTY ClosedFeedEndsTask
CHECK_DEADLOCK FALSE
