SPECIFICATION Spec
CONSTANTS
  Pools <- OnePool
  Currencies = {"A", "B"}
  Currency0 <- OneToken0
  Currency1 <- OneToken1
  Recipients = {"alice"}
  Rejecting = {}
  ZeroAddress = "none"
  Ticks = {0, 40}
  Executions <- EachWay
  HookData <- AlicePays
  Configs <- OnOrOff
  LATE_WINDOW_BLOCKS = 1
  OBSERVATION_BLOCKS = 3
  C6_OFFSET_FROM_MATURITY = 2
  C8_OFFSET_FROM_MATURITY = 1
  MAX_SETTLE_BATCH = 2
  BLOCK_MODULUS = 100
  MaxBlock = 5
  MaxBonds = 2
INVARIANTS
  TypeOK
  CheckpointsExact
  NoCheckpointLost
  BucketsCountBonds
PROPERTIES
  FrozenForGood
  TermsHonest
