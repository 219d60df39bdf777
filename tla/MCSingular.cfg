CONSTANTS
    Keys = {k1}
    Tokens = {t1, t2, t3}
    Payloads = {p1, p2}
    MaxTime = 6
    Times <- MCTimes
    NoToken = NoToken
    NoPayload = NoPayload
SYMMETRY Symmetry
SPECIFICATION Spec
INVARIANTS
    TypeOK
    ProjectionSummarisesHistory
    Fenced
    ExclusiveUntilDeadline
    AnswersAgree
    AttemptsAreNumbered
PROPERTIES
    ImplementsRegister
CHECK_DEADLOCK FALSE
