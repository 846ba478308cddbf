SPECIFICATION FairSpec
CONSTANTS
    b = b
    c = c
    p = p
    q = q
    u = u
    w = w
    Files = {a, b}
    Texts = {}
    Contents = {p, u}
    Imports <- MCImports
    Defining = {}
    Evident = {}
    Hazards = {"crash", "edit", "fail", "delete"}
    Failed = Failed
    None = None
INVARIANTS
    TypeOK
PROPERTIES
    EverythingServed
