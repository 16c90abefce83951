CONSTANTS
    Workers = {w1, w2, w3}
    Jobs = {j1}
    Nobody = Nobody
    Idle = Idle
    NoLease = NoLease
    Same = Same
    MaxAttempts = 2
    Lease = 0
    RetryDelay = 1
    MaxCrashes = 1
SPECIFICATION FairSpec
INVARIANT TypeOK
INVARIANT OwnerUntilOverrun
INVARIANT AttemptsBounded
PROPERTY RefinesDelivery
PROPERTY EventuallySettled
