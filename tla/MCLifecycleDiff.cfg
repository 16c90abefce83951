CONSTANTS
    Workers = {w1, w2}
    Nobody = Nobody
    Files = {f1, f2}
    Contents = {original, edited}
    Original = original
    None = None
    MaxAttempts = 3
    MaxFaults = 2
SPECIFICATION Spec
SYMMETRY LifecycleSymmetry
CHECK_DEADLOCK FALSE
INVARIANT ReviewedDiffIsComplete
