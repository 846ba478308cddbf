SPECIFICATION Spec
CONSTANTS
    f = f
    g = g
    h = h
    raw = raw
    a = a
    b = b
    clean = clean
    tainted = tainted
    Files = {a, b}
    Functions = {f, g, h}
    Labels = {f, g, h, raw}
    Named <- MCNamed
    FileOf <- MCFileOf
    Similar <- MCSimilar
    Facts = {clean, tainted}
    Blank = Blank
    CallsOf <- MCCallsOf
    Computable <- MCComputable
    None = None
PROPERTIES
    DependentsReached
