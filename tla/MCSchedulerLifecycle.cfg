SPECIFICATION FairSpec
CONSTANTS
    MaxCrons = 4
    MaxJobs = 2
INVARIANTS
    OneSetAtATime
    LateFiringHasCause
PROPERTIES
    ReloadCompletes
    ShutdownCompletes
CHECK_DEADLOCK FALSE
