SPECIFICATION Spec
CONSTANTS
    b = b
    c = c
    p = p
    q = q
    u = u
    w = w
    Files = {a, b, c}
    Texts = {}
    Contents = {p, u, w}
    Imports <- MCImports
    Defining = {p, u}
    Evident <- MCEvident
    Hazards = {}
    Failed = Failed
    None = None
INVARIANTS
    OwnTextCurrent
    ImportsCurrent
PROPERTIES
    ImplementsCache
