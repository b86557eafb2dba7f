CONSTANTS
    Responses = {r1, r2}
    Slots = {s1, s2}
    Uploads = {u1, u2}
    Workers = {w1, w2}
    None = None
    QueueCap = 2
    MaxCrashes = 0
    MaxFaults = 0
    HasGroq = TRUE
    HasClaude = TRUE
SPECIFICATION Spec
SYMMETRY Symmetry
INVARIANTS
    ProcessingHasWork
    SettledVerdictStands
    NothingMixedUp
PROPERTIES
    ImplementsWorkQueue
CHECK_DEADLOCK FALSE
