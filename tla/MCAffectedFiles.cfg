SPECIFICATION LoopFairSpec
CONSTANTS
    Files = {a, b, c}
CHECK_DEADLOCK FALSE
INVARIANTS
    NothingMissed
    NothingExtra
PROPERTIES
    LoopEnds
