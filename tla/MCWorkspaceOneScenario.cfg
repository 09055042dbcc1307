SPECIFICATION Spec
CONSTANTS
    None = None
    blank = blank
    preset = preset
    Blank = blank
    Preset = preset
    Contents = {blank, preset}
    MaxHistory = 2
    MaxSeq = 3
    MaxEdits = 1
    MaxTasks = 2
    MaxMounts = 2
INVARIANT OneScenario
CHECK_DEADLOCK FALSE
