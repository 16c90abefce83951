CONSTANTS
    Workers = {w1, w2}
    Paths = {f1, f2}
    Deletions = {f2}
    None = None
    MaxAttempts = 3
    MaxCrashes = 1
    MaxOverruns = 1
    MaxRefusals = 1
    MaxLost = 1
    MaxForeign = 1
SPECIFICATION FairSpec
CHECK_DEADLOCK FALSE
INVARIANT PullIsReviewed
INVARIANT RecordedOnce
PROPERTY EventuallyPublished
PROPERTY RefinesDelivery
PROPERTY RefinesReviewedRun
