SPECIFICATION Spec
CONSTANTS
    Models = {1, 2, 3}
    MaxCharge = 4
    Weights <- MCWeights
    Scale = 2
    Cases <- MCCases
    Repetitions = 2
INVARIANTS
    VerdictIsExact
    NoDriverLeft
    MetricsMatchTrace
PROPERTIES
    PolicyKept
    RunEnds
CHECK_DEADLOCK FALSE
