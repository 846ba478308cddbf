CONSTANTS
    Vars = {"x", "y"}
    Ret = "return"
    Programs <- MCPrograms
    Passes = 4
SPECIFICATION TaintSpec
INVARIANTS
    ExactWhenSimple
\* The analysis ends.
CHECK_DEADLOCK FALSE
