CONSTANTS
    Starts = {s1}
    Submits = {m1}
    Total = 1
    Values = {v1}
    None = None
    MaxFaults = 0
    MaxTimers = 1
    Surveys <- LastIsChoice
SPECIFICATION Spec
INVARIANT
    DoneMeansRecorded
CHECK_DEADLOCK FALSE
