\* A ring stops when its trains have reached MaxClock, or by a crash: no deadlock check.
SPECIFICATION Spec
CONSTANTS
  RingSize = 4
  NumTrains = 1
  Mode = "TotalOrder"
  CacheCap = 2
  StrikeThreshold = 3
  DisconnectWeight = 3
  MaxClock = 2
  Senders = {1}
  MaxSeq = 1
  Victims = {0, 1, 2, 3}
  MaxCrash = 2
  MaxLost = 0
  LateTrains = FALSE
CHECK_DEADLOCK FALSE
INVARIANTS SameViewSameFloor SurvivorAgreement
