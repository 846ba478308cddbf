CONSTANTS
    Procs = {p, q}
    NoProc = NoProc
    Files = {1, 2}
    Lines = {1, 2}
    Trees <- MCTrees
    Baselines <- MCBaselines
    Slow <- MCSlow
    Partials <- MCPartials
    MaxRuns = 2
SYMMETRY Symmetry
SPECIFICATION Spec
INVARIANTS
    TypeOK
    RevertedAsBefore
    VerifiedNothingNew
    RevertHasReason
\* All the runs have ended.
CHECK_DEADLOCK FALSE
