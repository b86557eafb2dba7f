CONSTANTS
    Responses = {r1}
    Slots = {s1}
    Uploads = {u1}
    Workers = {w1, w2}
    None = None
    QueueCap = 1
    MaxCrashes = 1
    MaxFaults = 1
    HasGroq = TRUE
    HasClaude = TRUE
SPECIFICATION FairSpec
INVARIANTS
    TypeOK
    MidJobHasWork
    AcceptedUploadPlayable
PROPERTIES
    MidJobEnds
    ProcessingEnds
CHECK_DEADLOCK FALSE
