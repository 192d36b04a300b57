SPECIFICATION SparseSpec
CONSTANTS
  Pools <- TwoPools
  Currencies <- AllTokens
  Currency0 <- Token0
  Currency1 <- Token1
  Recipients = {"alice", "bob"}
  Rejecting = {"bob"}
  ZeroAddress = "none"
  Ticks = {0, 40}
  Executions <- SharedAndOwn
  HookData <- AliceOrBob
  Configs <- OnOrOff
  LATE_WINDOW_BLOCKS = 1
  OBSERVATION_BLOCKS = 3
  C6_OFFSET_FROM_MATURITY = 2
  C8_OFFSET_FROM_MATURITY = 1
  MAX_SETTLE_BATCH = 2
  BLOCK_MODULUS = 100
  MaxBlock = 5
  MaxBonds = 3
INVARIANTS
  Solvent
