SPECIFICATION Spec
CONSTANTS
    a = a
    b = b
    c = c
    p = p
    q = q
    Files = {a, b}
    Positions = {p, q}
    Nodes <- MCNodes
    Sources <- MCSources
    Returned <- MCReturned
    Indexed <- MCIndexed
    Left <- MCNoneLeft
    Noisy = {}
    Workers = 1
    Raising = {}
    Original = Original
INVARIANTS
    AsAlone
CHECK_DEADLOCK FALSE
