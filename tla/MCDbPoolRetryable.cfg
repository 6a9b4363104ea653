CONSTANTS
    Sessions = {s1, s2}
    Probes = {p1}
    PoolSize = 1
    MaxOverflow = 1
SYMMETRY SessionSymmetry
SPECIFICATION Spec
INVARIANT RetryableMeansNotApplied
