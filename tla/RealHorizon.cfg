SPECIFICATION NarrowSpec
CONSTANTS
  Pools <- OnePool
  Currencies = {"A", "B"}
  Currency0 <- OneToken0
  Currency1 <- OneToken1
  Recipients = {"alice"}
  Rejecting = {}
  ZeroAddress = "none"
  Ticks = {0, 40}
  Executions <- EachWay
  HookData <- AlicePays
  Configs <- OnOrOff
  LATE_WINDOW_BLOCKS = 2
  OBSERVATION_BLOCKS = 10
  C6_OFFSET_FROM_MATURITY = 4
  C8_OFFSET_FROM_MATURITY = 2
  MAX_SETTLE_BATCH = 2
  BLOCK_MODULUS = 100
  MaxBlock = 12
  MaxBonds = 1
INVARIANTS
  NoCheckpointLost
PROPERTIES
  ImplementsLedger
