CONSTANTS
    Procs = {p, q}
    NoProc = NoProc
    Files = {1, 2}
    Lines = {1, 2}
    Trees <- MCTrees
    Baselines <- MCBaselines
    Slow <- MCSlow
    Partials <- MCPartials
    MaxRuns = 2
SPECIFICATION Spec
PROPERTIES
    AcceptedStay
CHECK_DEADLOCK FALSE
