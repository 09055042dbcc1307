SPECIFICATION Spec
CONSTANTS
    None = None
    p1 = p1
    p2 = p2
    Processes = {p1, p2}
    Tiers = {"sqlite", "postgresql"}
    Files = {0, 1, 2, 3}
    Runs <- MCRuns
    Offers <- MCOffers
    MaxReasons = 2
    MaxAdds = 2
    MaxGets = 1
    MaxFaults = 1
INVARIANTS RowsAtRest  NoWaitCycle SchemaWhole
PROPERTIES RegisterImplemented CallsEnd
CHECK_DEADLOCK FALSE
