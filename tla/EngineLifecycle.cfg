CONSTANT MaxAttempts <- MCMaxAttempts
SPECIFICATION Spec
INVARIANTS
    ClientTracksAdapter
    CleanAttemptLeavesNoTarget
    ForeignLeadersAreLeftovers
PROPERTY AttemptsEnd
