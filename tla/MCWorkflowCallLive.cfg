SPECIFICATION FairCallSpec
CONSTANTS
    root = root
    mid = mid
    leaf = leaf
    RootCalls = 2
    Workflows = {root, mid, leaf}
    Executors = {x1, x2}
    NoExecutor = NoExecutor
    MaxSteps = 2
    PlanLength <- LengthOf
    MinAttempts = 1
    MaxClaims = 0
    Callee <- CalleeOf
    NoCallee = NoCallee
    Deployments <- AmpleOnly
    MaxFaults = 1
CHECK_DEADLOCK FALSE
PROPERTIES
    TreeEnds
