CONSTANTS
    Responses = {r1, r2}
    Slots = {s1, s2}
    Uploads = {u1, u2}
    Workers = {w1, w2}
    None = None
    QueueCap = 2
    MaxStops = 0
    MaxFaults = 1
    HasGroq = FALSE
    HasClaude = TRUE
SPECIFICATION Spec
SYMMETRY Symmetry
PROPERTIES
    ImplementsWorkQueue
CHECK_DEADLOCK FALSE
