SPECIFICATION FairSpec
CONSTANTS
    v1 = v1
    w1 = w1
    w2 = w2
    w3 = w3
    Nobody = Nobody
    Parts <- Two
    Writes = {w1, w2, w3}
    What <- OneOfEach
    Author <- ByAuthor
    Keys = {"page"}
    Shows <- Page
    Viewers = {v1}
    Kinds <- OneKind
    TTL = 2
    MaxFaults = 2
CHECK_DEADLOCK FALSE
INVARIANTS
    StaleOnlyByOverlap
    ToldSees
PROPERTIES
    PageCatchesUp
