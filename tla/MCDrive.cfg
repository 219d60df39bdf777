SPECIFICATION FairDriveSpec
CONSTANTS
    Workflows = {w1}
    Executors = {x1, x2}
    NoExecutor = NoExecutor
    MaxSteps = 2
    Length = 2
    PlanLength <- LengthOf
    MinAttempts = 1
    MaxClaims = 0
    Scenarios <- SomeScenarios
    MaxAttempts = 3
    MaxOrphans = 1
    MaxFaults = 2
CHECK_DEADLOCK FALSE
INVARIANTS
    CheckpointIsBacked
    OutcomeIsTrue
    CompensatedInReverse
    FailedForCause
PROPERTIES
    NoLateEffect
    ServiceIsARegister
    EventuallyEnds
