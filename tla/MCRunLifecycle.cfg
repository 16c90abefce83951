CONSTANTS
    Workers = {w1, w2}
    Nobody = Nobody
    Files = {f1}
    Contents = {original, edited}
    Original = original
    None = None
    MaxAttempts = 2
    MaxFaults = 1
SPECIFICATION FairSpec
CHECK_DEADLOCK FALSE
INVARIANT GateIsTested
INVARIANT DiffIsTruthful
INVARIANT NeverAbandoned
PROPERTY ApprovedIsFrozen
PROPERTY RefinesDelivery
PROPERTY RefinesReviewedRun
PROPERTY RunParks
