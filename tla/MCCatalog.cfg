SPECIFICATION Spec
CONSTANTS
    None = None
    Boot = boot
    Workers = {w1, w2}
    valid = valid
    invalid = invalid
    wanted = wanted
    fixture = fixture
    station = station
    Keys = {wanted}
    Contents = {valid, invalid}
    Invalid = {invalid}
    Presets <- MCNoPresets
    Tiers = {TRUE}
    MaxHeads = 1
    MaxRevisions = 2
    MaxSnapshots = 1
    MaxRuns = 1
    MaxFaults = 0
SYMMETRY Symmetry
INVARIANTS CurrentIsPublished SnapshotsFrozen NumbersGapless SettledAtRest
PROPERTIES PublishedStays
CHECK_DEADLOCK FALSE
