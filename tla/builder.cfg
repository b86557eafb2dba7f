CONSTANTS
    Questions = {1, 2}
    Existing = 1
    MaxActs = 3
    MaxPuts = 2
    MaxFaults = 1
    MaxTyped = 3
    MaxSends = 2
    None = None
SPECIFICATION Spec
INVARIANTS
    TypeOK
    EditsKept
    EditorFollowsSelection
    HeaderIsTrue
PROPERTIES
    TypedTextStays
    SavingEnds
CHECK_DEADLOCK FALSE
