SPECIFICATION Spec
CONSTANTS
    None = None
    Boot = boot
    Workers = {w1}
    valid = valid
    invalid = invalid
    wanted = wanted
    fixture = fixture
    station = station
    Keys = {wanted}
    Contents = {valid}
    Invalid = {}
    Presets <- MCTwoPresets
    Tiers = {TRUE}
    MaxHeads = 4
    MaxRevisions = 5
    MaxSnapshots = 0
    MaxRuns = 0
    MaxFaults = 2
CHECK_DEADLOCK FALSE
INVARIANT PresetsComplete
