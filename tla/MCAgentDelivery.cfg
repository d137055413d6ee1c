SPECIFICATION Spec
CONSTANTS
    b1 = b1
    b2 = b2
    b3 = b3
    Batches = {b1, b2}
    NoBatch = NoBatch
    Size <- SizesOfTwo
    MaxBytes = 3
    MaxAttempts = 2
    Oversized = {}
    Invalid = {}
    DiskFaults = TRUE
    MayRevoke = TRUE
    MaxCrashes = 1
    PowerCuts = TRUE
    MaxLate = 1
INVARIANTS
    StoredOnce
    NoSilentLoss
PROPERTY LedgerSpec
SYMMETRY TwoAlike
