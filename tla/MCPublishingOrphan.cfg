CONSTANTS
    Workers = {w1, w2}
    Paths = {f1, f2}
    Deletions = {f2}
    None = None
    MaxAttempts = 3
    MaxCrashes = 0
    MaxOverruns = 0
    MaxRefusals = 0
    MaxLost = 1
    MaxForeign = 0
SPECIFICATION Spec
SYMMETRY PublishingSymmetry
CHECK_DEADLOCK FALSE
INVARIANT RetryFinishesPublishing
