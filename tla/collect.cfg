CONSTANTS
    Starts = {s1, s2}
    Submits = {m1, m2}
    Total = 2
    Values = {v1}
    None = None
    MaxFaults = 1
    MaxTimers = 1
    Surveys <- TwoQuestions
    Requests = {q1, q2}
    PlanMax = 2
    MaxRequests = 3
    MaxFailures = 1
    NoRequest = NoRequest
    SurveyIds = {i1, i2}
    Verdicts = {c1, c2}
    MaxMoves = 3
    MaxJudged = 2
    MaxLost = 1
    Nowhere = Nowhere
SPECIFICATION AllSpec
INVARIANTS
    AllTypeOK
    CompletedIsWhole
    NothingAfterCompletion
    DoneIsRecorded
    SubmittingIsUnderway
    LimitHolds
    
    ShownIsStored
    LastVerdictStands
PROPERTIES
    OverturnedBlindly
SYMMETRY Symmetry
CHECK_DEADLOCK FALSE
