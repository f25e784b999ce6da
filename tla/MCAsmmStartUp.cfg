CONSTANTS
  btc = btc
  eth = eth
  Symbol <- MCSymbol
  FirstSymbols <- NoSymbols
  RunSymbols <- OnlyBtc
  Gamma = {1}
  Publishing = FALSE
  BufferSize = 2
  MaxMessages = 2
SPECIFICATION FairSpec
INVARIANT ParametersAreSet
CHECK_DEADLOCK FALSE
