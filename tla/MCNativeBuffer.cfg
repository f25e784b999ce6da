CONSTANTS
  Adder = {t1, t2}
  Getter = {t2, t3}
  Value = {1, 2}
  TTL = 2
  MaxTime = 3
  MaxAdds = 3
SPECIFICATION FairSpec
INVARIANT TypeOK
INVARIANT StampsSorted
PROPERTY ImplementsWindow
PROPERTY LockIsReleased
CHECK_DEADLOCK FALSE
