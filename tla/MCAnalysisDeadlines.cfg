CONSTANTS
    None = None
    Payloads <- MCPayloads
    Scenarios <- MCScenarios
    BytesLeft <- MCBytesLeft
    GrantEnd <- MCGrantEnd
    SetBudget = 5
    CombinationBudget = 4
    WorkBudget = 20
    Deadlines = TRUE
    Strategies = {"EXACT_GLOBAL", "BOUNDED_APPROXIMATE"}
    Offerings = {"apart"}
    Recorded = {}
    MaxCandidates = 0
    Ticks = 3
    MaxReasons = 4
    DayLength = 5
SPECIFICATION OracleSpec
INVARIANT GloballyOptimal
CHECK_DEADLOCK FALSE
