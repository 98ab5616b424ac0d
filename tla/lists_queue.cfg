SPECIFICATION Spec
CONSTANTS
  c1 = c1
  c2 = c2
  c3 = c3
  Conns = {c1, c2, c3}
  Free = Free
  MaxBatch = 2
  MaxPushed = 4
  Counts <- MCCounts
  Indices <- MCIndices
  Commands = {"RPUSH", "LPOP", "LRANGE", "BLPOP", "BLPOP timeout"}
INVARIANTS NoIdleWaiter PushOrder LRangeIsSlice
PROPERTIES ImplementsFifo ImplementsFifoFairly
           TimedBLPopAnswered MutexReleased
CHECK_DEADLOCK FALSE
