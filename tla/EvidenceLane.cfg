SPECIFICATION Spec
CONSTANTS
    Lanes = {"plain", "direct", "memory", "xctrace"}
    CaseCount = 2
    StepCount = 2
    MaxAhead = 1
    Forking = {"direct"}
INVARIANTS
    MeasuredLaneIsComplete
    AnswersAreOwn
    NothingLeftRunning
PROPERTIES
    LaneEndsUnlessHeld
