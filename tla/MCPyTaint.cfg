CONSTANTS
    Vars = {"x", "y"}
    Ret = "return"
    Programs <- MCPrograms
    Passes = 4
SPECIFICATION TaintSpec
INVARIANTS
    FindingsHaveFlow
    ExactWhenPlain
    SettledWhenCalleesFirst
\* The analysis ends.
CHECK_DEADLOCK FALSE
