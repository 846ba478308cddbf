SPECIFICATION FairSpec
CONSTANTS
    N = 4
    MaxWorkers = 2
    Chunked = {1, 2}
    StuckChunks = {1}
    None = None
CHECK_DEADLOCK FALSE
INVARIANTS
    SlotsKept
    ReportComplete
    WholeIsWhole
PROPERTIES
    OthersAnswered
