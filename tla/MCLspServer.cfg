SPECIFICATION FairSpec
CONSTANTS
    Uris = {"a.py", "b.js"}
    Contents = {"", "v1", "bad"}
    Empty = ""
    Analysable <- MCAnalysable
    Timers = {t1, t2}
    Main = Main
    NoTimer = NoTimer
    NoUri = NoUri
    NoText = NoText
CHECK_DEADLOCK FALSE
INVARIANTS
    SinglePending
    PendingIsCurrent
    ShutdownQuiesces
    CacheMatchesAlone
PROPERTIES
    AnsweredWhenAlone
