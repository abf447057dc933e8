\* A ring stops when its trains have reached MaxClock or are lost: no deadlock check.
SPECIFICATION Spec
CONSTANTS
  RingSize = 3
  NumTrains = 2
  Mode = "UniformTotalOrder"
  CacheCap = 1
  MaxClock = 2
  Senders = {0, 2}
  MaxSeq = 1
  MaxLost = 0
  MaxDup = 1
  MaxCrash = 1
CHECK_DEADLOCK FALSE
INVARIANTS RingInv LapInv ConsistentDelivery NoDuplicateDelivery
PROPERTIES DeliveryInKeyOrder ImplementsTotalOrderBroadcast
