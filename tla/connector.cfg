\* The task waits for ever once the bounds are used up: no deadlock check.
SPECIFICATION FairSpec
CONSTANTS
  Addr = {1, 2}
  FirstAddr = 1
  UnreachableFailures = 5
  MaxMsgs = 3
  MaxResets = 2
  Mortal = {1}
CHECK_DEADLOCK FALSE
INVARIANTS WrittenInOrder NothingDropped ConnectorInv
PROPERTY DeadPeerReported
