SPECIFICATION Spec
CONSTANTS
    g1 = g1
    g2 = g2
    NoGate = NoGate
    Gates <- MCGatesSet
    Worlds <- MCWorlds
    SingularUnit <- MCSingularUnit
    MicroflowsUnit <- MCMicroflowsUnit
    RunnerUnit <- MCRunnerUnit
    SingularLive <- MCSingularLive
    MicroflowsLive <- MCMicroflowsLive
    SchemasOf <- MCSchemasOf
    SharedKey = "mariadb-mdb114-a"
    HeldKey = "drift-workflows-mdb-held"
    DbLock = "drift-workflows-mdb"
    Costs = {1, 3, 4}
    MaxFaults = 1
    MaxKills = 1
INVARIANTS
    GatesTypeOK
    RunsOnItsSchema
    OutcomeIsEarned
PROPERTIES
    NamespacesAreVirgin
    GatesEnd
CHECK_DEADLOCK FALSE
