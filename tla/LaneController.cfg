CONSTANTS
    LaneCount = 2
    Required <- MCRequired
    Known = {fixture}
    Unknown = {bogus}
    NoFixture = noFixture
SPECIFICATION Spec
INVARIANTS
    ClaimableIsEarned
    LateSelectionFailsRun
PROPERTIES
    RunEnds
