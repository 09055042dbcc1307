CONSTANTS
    None = None
    Payloads <- MCPayloads
    Scenarios <- MCScenarios
    BytesLeft <- MCBytesLeft
    GrantEnd <- MCGrantEnd
    Regimes = {"TX_END"}
SPECIFICATION Spec
INVARIANT ReleasesNotAnticipated
