CONSTANTS
    Responses = {r1}
    Slots = {s1, s2}
    Uploads = {u1, u2}
    Workers = {w1, w2}
    None = None
    QueueCap = 1
    MaxStops = 0
    MaxFaults = 0
    HasGroq = FALSE
    HasClaude = TRUE
SPECIFICATION Spec
SYMMETRY Symmetry
INVARIANTS
    FinalPathStays
CHECK_DEADLOCK FALSE
