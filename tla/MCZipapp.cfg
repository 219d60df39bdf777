SPECIFICATION Spec
CONSTANTS
    Builders = {b1, b2}
    Readers = {r1}
    Revisions = {s1, s2}
    Versions = {v1}
    Rank <- MCRank
    Shipped <- MCShipped
    Committed = Committed
    NoFile = NoFile
    Missing = Missing
    MaxEdits = 1
INVARIANTS
    ZipTypeOK
    ArtifactIsWhole
    SameInputsSameArchive
CHECK_DEADLOCK FALSE
