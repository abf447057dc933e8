\* A ring stops when its trains have reached MaxClock, or by a crash: no deadlock check.
SPECIFICATION Spec
CONSTANTS
  RingSize = 3
  NumTrains = 2
  Mode = "TotalOrder"
  CacheCap = 2
  StrikeThreshold = 3
  DisconnectWeight = 3
  MaxClock = 3
  Senders = {1, 2}
  MaxSeq = 1
  Victims = {0, 1, 2}
  MaxCrash = 1
  MaxLost = 1
  LateTrains = FALSE
CHECK_DEADLOCK FALSE
INVARIANTS TypeOK OnlyCrashedExcluded ExclusionInv RecoveryInv NoKeyTwice NextTrainIsNew SurvivorAgreement LogOrdered FrozenHasCause
