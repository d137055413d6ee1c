SPECIFICATION Spec
CONSTANTS
    Orgs = {"o_default", "o_acme"}
    DefaultOrg = "o_default"
    Domains = {"d1", "d2"}
    MaxJobs = 2
    Budgets <- BudgetsDef
    Adds = {"a1", "a2"}
    None = None
    Outcomes <- OutcomesDef
    NoFindings = "nothing"
    Endings = {"partial", "failed"}
    Says <- SaysDef
    Order <- OrderDef
CHECK_DEADLOCK FALSE
INVARIANTS
    HiddenScoreHasCause
    DoorAndFleetAgree
    AnswerMatchesDoor
    AggregatesAddUp
PROPERTIES
    AddAnswersAreTrue
    ScanSettles
