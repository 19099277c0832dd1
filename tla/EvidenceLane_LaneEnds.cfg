SPECIFICATION Spec
CONSTANTS
    Lanes = {"plain", "memory", "xctrace"}
    CaseCount = 1
    StepCount = 1
    MaxAhead = 1
    Forking = {"plain", "memory", "xctrace"}
PROPERTY LaneEnds
