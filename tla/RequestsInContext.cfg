SPECIFICATION Spec
CONSTANTS
    Forms <- MCForms
    Requirement <- MCRequirement
    Accounts = {a1, a2}
    NoAccount = NoAccount
    SESSION_SWAP_MULTIPLE = 2
    UINT160_MAX = 5
    QUOTE_RETRIES = 0
    Attempts = {t1}
    MAX_CHANGES = 2
PROPERTY EveryRequestInContext
CHECK_DEADLOCK FALSE
