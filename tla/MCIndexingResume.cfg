CONSTANTS
    f1 = f1
    f2 = f2
    f3 = f3
    f4 = f4
    v1 = v1
    v2 = v2
    blank = blank
    binary = binary
    Runs = {r1, r2}
    Paths = {f1, f2, f3, f4}
    Contents = {v1, v2, blank, binary}
    Blank = {blank}
    Skipped = {binary}
    History <- TwoCommits
    Models = {m1, m2}
    None = None
    MaxCrashes = 1
    MaxLosses = 1
    MaxFailures = 1
SPECIFICATION Spec
CHECK_DEADLOCK FALSE
INVARIANT AttemptsResume
