\* A ring stops when its trains have reached MaxClock, or by a crash: no deadlock check.
SPECIFICATION TraceSpec
CONSTANTS
  RingSize = 3
  NumTrains = 2
  Mode = "UniformTotalOrder"
  CacheCap = 0
  MaxClock = 2
  Senders = {0, 2}
  MaxSeq = 1
  MaxLost = 0
  MaxDup = 0
  MaxCrash = 1
CHECK_DEADLOCK FALSE
INVARIANTS NoFalseAlarm LogsReconstructed
