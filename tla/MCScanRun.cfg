SPECIFICATION FairSpec
CONSTANTS
    Pass1 = {"dns", "http"}
    Pass2 = {"ip"}
    Steps <- ThreeSteps
    Feeds <- ThreeFeeds
    Lookups = {"nsholder"}
    Hosts = {"h1", "h2"}
    NoHost = "-"
    Registrant = "registrant"
    StoreFaults = FALSE
    HasPublisher = TRUE
INVARIANTS
    AppendedOnce
    ReturnedIsStored
    Pass2SeesEveryHost
    SynthesisIsFinal
PROPERTIES
    ScanReturns
CHECK_DEADLOCK FALSE
