CONSTANTS
    None = None
    Payloads <- MCPayloads
    Scenarios <- MCScenarios
    BytesLeft <- MCBytesLeft
    GrantEnd <- MCGrantEnd
    Regimes = {"DISABLED", "TX_END", "ACKED"}
SPECIFICATION FairSpec
INVARIANTS
    TypeOK
    BytesConserved
    CapacityNotExceeded
    OneTransmitter
    AtomicNotTorn
    SentOnlyWhenAllowed
    OccupancyAccounted
    OccupancyWithinLimits
    CompleteObjectsLeave
    AcknowledgedSettled
    LifeInOrder
PROPERTIES
    NothingLeftUnsent
    Terminates
