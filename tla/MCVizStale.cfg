SPECIFICATION VizSpec
CONSTANTS
    root = root
    mid = mid
    leaf = leaf
    LeafSteps = 2
    Workflows = {root, mid, leaf}
    Executors = {x1}
    NoExecutor = NoExecutor
    MaxSteps = 2
    PlanLength <- LengthOf
    MinAttempts = 1
    MaxClaims = 0
    Callee <- CalleeOf
    NoCallee = NoCallee
    Deployments <- Ample
    MaxFaults = 1
    Subjects = {root}
    Views = {"stuck"}
    Depths = {2}
CHECK_DEADLOCK FALSE
INVARIANTS
    BudgetIsBeingSpent
