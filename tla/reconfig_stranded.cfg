\* A ring stops when its trains have reached MaxClock, or by a crash: no deadlock check.
SPECIFICATION Spec
CONSTANTS
  RingSize = 3
  NumTrains = 1
  Mode = "TotalOrder"
  CacheCap = 2
  StrikeThreshold = 3
  DisconnectWeight = 3
  MaxClock = 3
  Senders = {}
  MaxSeq = 1
  Victims = {1}
  MaxCrash = 1
  MaxLost = 0
  LateTrains = FALSE
CHECK_DEADLOCK FALSE
INVARIANT NoStrandedKey
