CONSTANTS
  Others = {o1}
  Master = master
  Eps = 1
  Skew = 0
  MaxStamp = 4
  MaxReads = 3
SPECIFICATION Spec
INVARIANT NoPrematureDrop
