CONSTANTS
    None = None
    Payloads <- MCPayloads
    Scenarios <- MCScenarios
    BytesLeft <- MCBytesLeft
    GrantEnd <- MCGrantEnd
    SetBudget = 5
    CombinationBudget = 4
    WorkBudget = 20
    Deadlines = FALSE
    Strategies = {"EXACT_GLOBAL", "BOUNDED_APPROXIMATE"}
    Offerings = {"lone", "pairs", "twins", "triple", "chained", "spoilt", "nested", "namesakes"}
    Recorded = {"twins", "spoilt"}
    MaxCandidates = 4
    Ticks = 3
    MaxReasons = 4
    DayLength = 5
SPECIFICATION OracleSpec
INVARIANTS
    GloballyOptimal
    AnswerMaximal
    MaximumExact
    SearchComplete
    ResultStorable
    TotalsAgree
    GapsExact
CHECK_DEADLOCK FALSE
