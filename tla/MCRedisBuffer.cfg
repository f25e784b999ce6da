CONSTANTS
  t1 = t1
  t2 = t2
  v1 = v1
  v2 = v2
  Adder <- BothThreads
  Getter <- BothThreads
  Value <- MCValue
  TTL = 2
  MaxTime = 3
  MaxAdds = 2
  MaxCrashes = 1
SPECIFICATION Spec
SYMMETRY Symmetric
INVARIANT TypeOK
INVARIANT FreshIsStored
PROPERTY GetSeesWindow
CHECK_DEADLOCK FALSE
