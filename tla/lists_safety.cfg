SPECIFICATION Spec
CONSTANTS
  c1 = c1
  c2 = c2
  c3 = c3
  Conns = {c1, c2, c3}
  Free = Free
  MaxBatch = 2
  MaxPushed = 3
  Counts <- MCCounts
  Indices <- MCIndices
  Commands = {"RPUSH", "LPUSH", "LPOP", "LRANGE", "BLPOP", "BLPOP timeout", "hang up"}
SYMMETRY MCSymmetry
INVARIANTS TypeOK RegisteredWaitersReady NoForgottenWaiter NoDuplicate
PROPERTIES OnlyTimeoutOrHangUpLoses
CHECK_DEADLOCK FALSE
