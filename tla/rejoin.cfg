\* A ring stops when its trains have reached MaxClock, or by a crash: no deadlock check.
SPECIFICATION RejoinSpec
CONSTANTS
  RingSize = 3
  NumTrains = 2
  Mode = "TotalOrder"
  CacheCap = 2
  StrikeThreshold = 3
  DisconnectWeight = 3
  MaxClock = 1
  Senders = {1}
  MaxSeq = 1
  Victims = {0, 1, 2}
  MaxCrash = 1
  MaxLost = 0
  LateTrains = FALSE
  RejoinerSends = FALSE
CHECK_DEADLOCK FALSE
INVARIANTS ClocksNotReused SurvivorAgreement LogOrdered FrozenHasCause SameViewSameMembers
