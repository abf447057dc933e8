\* A ring stops when its trains have reached MaxClock or are lost: no deadlock check.
SPECIFICATION FairSpec
CONSTANTS
  RingSize = 3
  NumTrains = 2
  Mode = "UniformTotalOrder"
  CacheCap = 1
  MaxClock = 2
  Senders = {0, 2}
  MaxSeq = 1
  MaxLost = 1
  MaxDup = 0
  MaxCrash = 0
CHECK_DEADLOCK FALSE
INVARIANTS TypeOK OneTrainPerIssuer DeliveryLag
PROPERTY BroadcastDelivered
