CONSTANTS
  Sizes = {0, 3, 4}
  DefaultSize = 3
  MaxSize = 4
  MaxLen = 2
  MaxCount = 3
  MaxPos = 5
SPECIFICATION FairSpec
INVARIANTS
  TypeOK
  CopiesNextByte
  CopiesInside
  HoldsUnread
  NoLostWakeup
  NonblockNeverSleeps
  RunningHasMemory
PROPERTY
  SleeperWakes
