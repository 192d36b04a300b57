SPECIFICATION ScreenSpec
CONSTANTS
    Bonds = {b1}
    Accounts = {a1}
    NoAccount = NoAccount
    MATURITY = 1
    SPAN = 0
    MAX_INDEX = 2
    HISTORY_FAILURES_BEFORE_WARNING = 1
    MAX_BLOCK = 1
    MAX_REFRESHES = 1
    Loads = {l1}
    Polls = {p1}
    Attempts = {t1}
INVARIANTS ScreenSafe NeverAhead
PROPERTIES NoRegression IndexRemembers ListCatchesUp
