CONSTANTS
    Requests = {r1, r2}
    PoolSize = 1
    MaxOverflow = 0
    Failures = {"pool_timeout", "connect", "operational", "canceled", "app", "cancelled"}
SPECIFICATION FairSpec
INVARIANTS TypeOK NoConnectionLeftBehind WorkEndsBeforeTeardown ToldAsCommitted
PROPERTY ImplementsLifecycle
CHECK_DEADLOCK FALSE
