SPECIFICATION JudgeSpec
CONSTANTS
    FixtureLanes <- MCFixtureLanes
    Parameters <- MCParameters
    CaseCounts <- MCCaseCounts
    SpoiltSets <- MCSpoiltSets
    ModelCounts <- MCModelCounts
    ClientViews <- MCClientViews
    Traces <- MCTraces
    FfiPlans <- MCFfiPlans
    ReceiptLists <- MCReceiptLists
INVARIANT
    BrokenInvariantFails
CHECK_DEADLOCK FALSE
