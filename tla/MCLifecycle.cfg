CONSTANT Requests = {r1, r2, r3}
SPECIFICATION FairSpec
INVARIANTS TypeOK NoRequestCut TeardownComplete RedisNeverOutlivesDatabase
PROPERTY ShutdownCompletes
CHECK_DEADLOCK FALSE
