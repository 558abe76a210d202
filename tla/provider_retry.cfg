SPECIFICATION FairSpec
CONSTANTS
    Ms = 2
    Budget = 8
    MaxRetries = 2
    Slice = 2
    MaxDelay = 3
    Statuses = {200, 302, 429}
    RetryAfters = {0, 1, 5}
    MaxDrift = 3
INVARIANTS
    TypeOK
    RetriesAreJustified
    DeadlineIsKept
    DelayIsKept
    CancellationIsObserved
PROPERTY EveryCallReturns
CHECK_DEADLOCK FALSE
