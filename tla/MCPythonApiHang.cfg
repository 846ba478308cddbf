SPECIFICATION FairSpec
CONSTANTS
    Scans = {1, 2, 3}
    Given <- MCGiven
    Names = {"input", "fetch"}
    Specs = {"builtin", "mine", "yours"}
    Functions = {"escape", "clean"}
    Cwes = {"xss", "sql"}
    Builtin <- MCBuiltin
    Sanitized <- MCSanitized
    JavaScript = {1, 3}
    Hangs = {3}
    None = None
    Whole = Whole
PROPERTIES
    HangFallsBack
CHECK_DEADLOCK FALSE
