SPECIFICATION FairSpec
CONSTANTS
  Pools <- OnePool
  Currencies = {"A", "B"}
  Currency0 <- OneToken0
  Currency1 <- OneToken1
  Recipients = {"alice", "bob"}
  Rejecting = {"bob"}
  ZeroAddress = "none"
  Ticks = {0, 40}
  Executions <- OneWay
  HookData <- AliceOrBob
  Configs <- OnOrOff
  LATE_WINDOW_BLOCKS = 1
  OBSERVATION_BLOCKS = 3
  C6_OFFSET_FROM_MATURITY = 2
  C8_OFFSET_FROM_MATURITY = 1
  MAX_SETTLE_BATCH = 2
  BLOCK_MODULUS = 6
  MaxBlock = 5
  MaxBonds = 2
PROPERTIES
  EveryBondSettles
