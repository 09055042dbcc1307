SPECIFICATION Spec
CONSTANTS
    UnitsPerByte = 2
    Contacts <- MCContacts
    Plans <- MCPlans
    Window <- MCWindow
INVARIANTS
    RemainingCountsTicks
    DriftBounded
    CapacityDeliverable
CHECK_DEADLOCK FALSE
