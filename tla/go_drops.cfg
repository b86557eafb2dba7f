CONSTANTS
    Responses = {r1, r2}
    Slots = {s1, s2}
    Uploads = {u1, u2}
    Workers = {w1}
    None = None
    QueueCap = 1
    MaxStops = 1
    MaxFaults = 0
    HasGroq = FALSE
    HasClaude = FALSE
SPECIFICATION DropSpec
PROPERTY
    RetriedOnNextStartup
CHECK_DEADLOCK FALSE
