SPECIFICATION ClientSpec
CONSTANTS
    bps = 10000
    maxBondBps = 100
    UINT96_MAX = 10050
    UINT128_MAX = 20000
    Configs <- MCConfigs
    Legs <- MCLegs
    Inputs <- MCInputs
    Tolerances <- MCTolerances
    Rates <- MCRates
    Quotes <- MCQuotes
    Spare = {0, 3}
    PoolTokens = {"currency0", "currency1"}
    Reported = {6, 18, 37}
    MAX_DECIMALS = 36
    Loads = {1, 2}
    Proper <- MCProper
    Edits <- MCEdits
    MAX_EDITS = 3
    MASK_BITS = 4
    REQUIRED_HOOK_PERMISSION_MASK = 2
    MAX_FEE = 2
    DYNAMIC_FEE_FLAG = 8
    MAX_TICK_SPACING = 3
    Tabs = {"tab1", "tab2"}
    Items <- MCItems
    MAX_ACTIVITY_ITEMS = 2
    Accounts = {"a1", "a2"}
    Pools = {"configured", "sibling"}
    BondLegs = {1, 2}
    Collaterals = {1}
    MAX_BONDS = 3
    MAX_TRANSACTIONS = 2
    MAX_SETTLEMENTS = 2
CHECK_DEADLOCK FALSE
INVARIANTS LimitsSafe PlanSafe FeedSafe HistorySafe
PROPERTIES MetadataSound DeploymentSound
