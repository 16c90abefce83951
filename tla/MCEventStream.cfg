CONSTANTS
    r1 = r1
    r2 = r2
    Runs = {r1, r2}
    NoRun = NoRun
    Watches = {w1, w2}
    Limit = 2
    MaxSequence <- LongAndShort
    MaxVisits = 2
    MaxDrops = 1
SPECIFICATION Spec
INVARIANT TypeOK
INVARIANT NoHoles
INVARIANT NothingReplayed
INVARIANT OneStream
PROPERTY ViewSettles
CHECK_DEADLOCK FALSE
