CONSTANTS
  t1 = t1
  t2 = t2
  v1 = v1
  v2 = v2
  Adder <- OneThread
  Getter <- OneThread
  Value <- MCValue
  TTL = 2
  MaxTime = 2
  MaxAdds = 2
  MaxCrashes = 0
SPECIFICATION Spec
INVARIANT EveryAddCounts
CHECK_DEADLOCK FALSE
