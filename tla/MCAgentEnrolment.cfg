SPECIFICATION Spec
CONSTANTS
    Machines = {"a", "b", "c"}
    Names = {"a", "b"}
    HostOf <- SharedName
    Tokens = {"t1", "t2"}
    NoToken = NoToken
    Keys = {"k1", "k2"}
    NoKey = NoKey
    Torn = Torn
    Reconfigure = TRUE
INVARIANTS
    TokenEnrolsOne
    KeyIsPrivate
    RunningKeyWorks
PROPERTY KeyLostOnlyInExchange
CHECK_DEADLOCK FALSE
