SPECIFICATION CompilerSpec
CONSTANTS
    Callers = {"caller", "rival", "fork"}
    InIssuer <- MCIssuer
    Inputs <- MCInputs
    Accepted <- Design
    Caps <- SmallCaps
    Limits <- SmallLimits
    W_B = 3
    SHA256_STATE_CHARGE = 1
    HASH_BUFFER_CHARGE = 6
    INTERN_CHARGE = 2
    REFERENCE_CHARGE = 1
    RECORD_CHARGE = 1
    PATH_CHARGE = 2
INVARIANTS
    PermitRunsOnce
    ArenaIsExact
    PlanCountsAreReal
    PlanEnforcesObligations
    FailureIsExact
CHECK_DEADLOCK FALSE
