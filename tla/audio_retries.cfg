CONSTANTS
    Responses = {r1}
    Slots = {s1}
    Uploads = {u1}
    Workers = {w1}
    None = None
    QueueCap = 1
    MaxCrashes = 0
    MaxFaults = 3
    HasGroq = TRUE
    HasClaude = TRUE
SPECIFICATION CountingSpec
INVARIANT
    AtMostThreeAttempts
CHECK_DEADLOCK FALSE
