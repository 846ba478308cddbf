SPECIFICATION FairSpec
CONSTANTS
    a = a
    b = b
    c = c
    p = p
    q = q
    Files = {a, b, c}
    Positions = {p, q}
    Nodes <- MCNodes
    Sources <- MCSources
    Returned <- MCReturned
    Indexed <- MCIndexed
    Left <- MCLeft
    Noisy = {b}
    Workers = 2
    Raising = {c}
    Original = Original
INVARIANTS
    OwnSourcesWhenFresh
    WalkRestoredAlone
    WalkEnds
PROPERTIES
    EveryAnalysisEnds
CHECK_DEADLOCK FALSE
