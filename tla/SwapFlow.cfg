SPECIFICATION Spec
CONSTANTS
    Forms <- MCForms
    Requirement <- MCRequirement
    Accounts = {a1}
    NoAccount = NoAccount
    SESSION_SWAP_MULTIPLE = 2
    UINT160_MAX = 5
    QUOTE_RETRIES = 1
    Attempts = {t1, t2}
    MAX_CHANGES = 1
INVARIANTS FlowSafe SwapShownHonest PreparationSuffices
PROPERTY BusyEnds
CHECK_DEADLOCK FALSE
