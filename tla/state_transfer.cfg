SPECIFICATION Spec
CONSTANTS
  Survivors = {1, 2}
  LogCap = 2
  MaxTailFrames = 2
  MaxHead = 4
  MaxReset = 2
INVARIANTS AppliedIsPrefix TransferInv
PROPERTIES NeverBack CatchesUp
