SPECIFICATION Spec
CONSTANTS
  RingSize = 3
  NumTrains = 2
  Mode = "UniformTotalOrder"
  CacheCap = 0
  MaxClock = 2
  MaxIssue = 2
  MaxSeq = 1
  Loaders = {0, 1}
  AckSets = {{1, 2}, {0, 1, 2}}
INVARIANTS SameOutputs SameLog SameState
