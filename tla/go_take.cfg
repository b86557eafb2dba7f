CONSTANTS
    Responses = {r1}
    Slots = {s1}
    Uploads = {u1}
    Workers = {w1, w2}
    None = None
    QueueCap = 1
    MaxStops = 1
    MaxFaults = 1
    HasGroq = TRUE
    HasClaude = TRUE
SPECIFICATION FairSpec
INVARIANTS
    TypeOK
    MidJobHasWork
    AtMostThreeRuns
    AcceptedTakeKept
PROPERTIES
    MidJobEnds
CHECK_DEADLOCK FALSE
