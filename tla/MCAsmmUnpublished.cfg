CONSTANTS
  btc = btc
  eth = eth
  Symbol <- MCSymbol
  FirstSymbols <- NoSymbols
  RunSymbols <- OnlyBtc
  Gamma = {1}
  Publishing = FALSE
  BufferSize = 2
  MaxMessages = 2
SPECIFICATION FairSpec
PROPERTY ReceivedIsHandled
CHECK_DEADLOCK FALSE
