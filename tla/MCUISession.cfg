SPECIFICATION Spec
CONSTANTS
    Browsers = {b1, b2}
    Users = {b1}
    Requests = {r1, r2}
    Flows = {f1, f2}
    Sids = {s1, s2}
    None = None
    Windows = {1}
    TokenModes = {"eternal", "none", "fixed", "rotating"}
    SessionTTL = 1
    pendingFlowTTL = 1
    TokenLife = 1
    Patience = 1
    MaxClock = 2
    MaxFaults = 1
INVARIANTS
    EndedStaysEnded
    LoginIsBound
    LostSessionHasCause
PROPERTIES
    DisableCutsAccess
    HardLifetime
SYMMETRY Interchangeable
CHECK_DEADLOCK FALSE
