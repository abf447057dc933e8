SPECIFICATION Spec
CONSTANTS
  RingSize = 3
  NumTrains = 2
  Mode = "UniformTotalOrder"
  CacheCap = 2
  MaxSeen = 3
\* the loop ends
CHECK_DEADLOCK FALSE
INVARIANTS LoopIsDrained
