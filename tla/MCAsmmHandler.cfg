CONSTANTS
  btc = btc
  eth = eth
  Symbol <- MCSymbol
  FirstSymbols <- OnlyEth
  RunSymbols <- OnlyBtc
  Gamma = {0, 1}
  Publishing = TRUE
  BufferSize = 2
  MaxMessages = 4
SPECIFICATION Spec
INVARIANT TypeOK
INVARIANT WatchersHaveFeeds
INVARIANT BookIsWhole
PROPERTY NewestWins
CHECK_DEADLOCK FALSE
