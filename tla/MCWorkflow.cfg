CONSTANTS
    Workflows = {w1}
    Executors = {x1, x2}
    NoExecutor = NoExecutor
    MaxSteps = 4
    Length = 3
    PlanLength <- MCPlanLength
    MinAttempts = 2
    MaxClaims = 5
SYMMETRY Symmetry
SPECIFICATION Spec
INVARIANTS
    TypeOK
    OutcomeMeaning
PROPERTIES
    OnlyLatestClaimPublishes
    FollowsLifecycle
    ImplementsSaga
CHECK_DEADLOCK FALSE
