SPECIFICATION JudgeSpec
CONSTANTS
    FixtureLanes <- MCFixtureLanes
    Parameters <- MCParameters
    CaseCounts <- MCCaseCounts
    SpoiltSets <- MCSpoiltSets
    ModelCounts <- MCModelCounts
    ClientViews <- MCClientViews
    Traces <- MCTraces
    FfiPlans <- MCFfiPlans
    ReceiptLists <- MCReceiptLists
INVARIANTS
    GatesAreExact
    PassIsEarned
    FaultIsReal
PROPERTIES
    VerdictComes
CHECK_DEADLOCK FALSE
