SPECIFICATION Spec
CONSTANTS
  LATE_WINDOW_BLOCKS = 2
  Legs = {10203, 100000}
  Rates = {1, 9, 99}
  OpeningTicks = {0, 3, 397}
  BlockStarts <- TwoBlockStarts
  ClosingTicks <- SixClosingTicks
INVARIANTS
  ReturnedPriceRefunded
  PersistentMoveCharged
  SlashMonotoneInRate
  NoCliff
  MirrorSymmetric
  SplitTradePaysForTheBlock
CHECK_DEADLOCK FALSE
