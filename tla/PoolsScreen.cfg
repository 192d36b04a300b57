SPECIFICATION Spec
CONSTANTS
    bps = 2
    maxBondBps = 1
    UINT96_MAX = 4
    UINT128_MAX = 5
    Drafts <- MCDrafts
    Accounts = {a1}
    Owner = a1
    Attempts = {t1, t2}
    MAX_CHANGES = 1
CHECK_DEADLOCK FALSE
INVARIANTS FormSafe ReReadShowsApplied
PROPERTY AppliedIsShown
