SPECIFICATION Spec
CONSTANTS
    Requests = {r1, r2}
    Clients = {c1, c2}
    Upstreams <- MCUpstreams
    Bodies <- MCBodies
    RATE_LIMIT = 1
    RATE_WINDOW = 1
    MAX_BUCKETS = 1
    CHAIN_VERIFY_TTL = 1
    FANOUT_CONCURRENCY = 2
    MAX_BATCH_REQUESTS = 4
    MAX_CLOCK = 1
    MAX_MOVES = 1
CHECK_DEADLOCK FALSE
INVARIANT BatchSafe
PROPERTIES DecisionsSound EveryRequestAnswered
