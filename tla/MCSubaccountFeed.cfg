CONSTANTS
  m1 = m1
  m2 = m2
  usdc = usdc
  weth = weth
  Market <- MCMarket
  Asset <- MCAsset
  Usdc = usdc
  Amount = {0, 1}
  MaxContents = 2
SPECIFICATION Spec
INVARIANT TypeOK
INVARIANT PositionsKnown
INVARIANT BalancesKnown
CHECK_DEADLOCK FALSE
