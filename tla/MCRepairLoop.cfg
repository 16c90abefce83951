CONSTANTS
    Contents = {original, edit1, edit2}
    Original = original
    None = None
    MaxIterations = 2
    MaxToolCalls = 4
    MaxSteps = 2
    MaxCheckSteps = 1
    MaxRepairs = 1
    MaxBatch = 2
    MaxCrashes = 2
SPECIFICATION FairSpec
CHECK_DEADLOCK FALSE
INVARIANT GateIsEarned
INVARIANT CostBounded
PROPERTY WorkingChangeKept
PROPERTY RefinesReviewedRun
PROPERTY RepairEnds
