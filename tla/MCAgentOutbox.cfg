SPECIFICATION FairSpec
CONSTANTS
    b1 = b1
    b2 = b2
    b3 = b3
    Batches = {b1, b2, b3}
    NoBatch = NoBatch
    Size <- SizesOfThree
    MaxBytes = 3
    MaxAttempts = 1
    Oversized = {b2}
    Invalid = {}
    DiskFaults = FALSE
    MayRevoke = TRUE
    MaxCrashes = 1
    PowerCuts = FALSE
    MaxLate = 0
INVARIANTS
    OnlyPruneLoses
    OutboxBounded
PROPERTY SpooledIsSettled
