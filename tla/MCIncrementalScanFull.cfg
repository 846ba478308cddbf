SPECIFICATION Spec
CONSTANTS
    b = b
    c = c
    p = p
    q = q
    u = u
    w = w
    Files = {a, b}
    Texts = {}
    Contents = {p, q, u}
    Imports <- MCImports
    Defining = {p}
    Evident <- MCEvident
    Hazards = {}
    Failed = Failed
    None = None
INVARIANTS
    AsFullScan
