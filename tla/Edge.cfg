SPECIFICATION EdgeSpec
CONSTANTS
  Specs <- MCSpecs
  Packets <- MCPackets
  Fold <- MCFold
  FoldGeo <- MCFoldGeo
  Size = 1
  BlockTicks = 1
  LockTicks = 2
  MaxSent = 5
INVARIANTS OneLimitPerPort Loads NoneOverLimit LockHolds
CHECK_DEADLOCK FALSE
