SPECIFICATION Spec
CONSTANTS
    Pass1 = {"dns", "http"}
    Pass2 = {"ip"}
    Steps <- ThreeSteps
    Feeds <- ThreeFeeds
    Lookups = {"nsholder"}
    Hosts = {"h1", "h2"}
    NoHost = "-"
    Registrant = "registrant"
    StoreFaults = FALSE
    HasPublisher = TRUE
INVARIANT TimeoutIsPartial
CHECK_DEADLOCK FALSE
