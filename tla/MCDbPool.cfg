CONSTANTS
    Sessions = {s1, s2}
    Probes = {p1}
    PoolSize = 1
    MaxOverflow = 1
SPECIFICATION FairSpec
INVARIANTS TypeOK PoolConservation ReturnedOnExit UnitOfWork
PROPERTIES RefusedOnlyWhenFull ConnectionsWithinBudget NobodyWaitsForever
