CONSTANTS
    None = None
    MaxLeaves = 1
    Recorders = {1, 2}
    MaxSeconds = 1
    Captures = {c1, c2, c3}
    Accuracies = {10, 50}
    TARGET_M = 20
    MaxSettings = 3
    MaxAnswers = 3
    Sizes = {1, 20}
    Slots = {s1, s2}
    MaxIssued = 2
    MaxSent = 3
    MaxTurns = 1
    Nothing = Nothing
SPECIFICATION AllSpec
INVARIANTS
    PagesTypeOK
    
    RecordingsApart
    CaptureShown
    SessionHolds
    PagesCurrent
PROPERTIES
    AllSettle
CHECK_DEADLOCK FALSE
