SPECIFICATION Spec
CONSTANTS
    w1 = w1
    w2 = w2
    w3 = w3
    Ids = {w1, w2, w3}
    Matching = {w1, w2}
    Depths = {0, 1, 2}
    Views = {"inspect", "tree", "timeline", "stuck", "health", "search", "static", "unknown", "mutate"}
    Spellings = {"lower", "upper"}
    Stores <- AnyCalls
CHECK_DEADLOCK FALSE
INVARIANTS
    VizTypeOK
    WalkIsWhole
    DescendsToTheEnd
PROPERTIES
    RequestEnds
