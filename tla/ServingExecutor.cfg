SPECIFICATION Spec
CONSTANTS
    Plans <- MCPlans
    Required = 1
    MaxResponse = 5
    ReadSize = 2
    MaxRequests = 3
INVARIANTS
    AcceptsTheDialect
    ValidIsEarned
    TrialReconciles
    NothingOutlivesRun
PROPERTY RunEnds
CHECK_DEADLOCK FALSE
