SPECIFICATION Spec
CONSTANTS
    UnitsPerByte = 2
    Contacts <- MCContacts
    Plans <- MCPlans
    Window <- MCWindow
INVARIANT CapacityUsable
CHECK_DEADLOCK FALSE
