SPECIFICATION Spec
CONSTANTS
    c1 = c1
    c2 = c2
    c3 = c3
    r1 = r1
    r2 = r2
    r3 = r3
    en = en
    ex = ex
    main = main
    g = g
    x = x
    y = y
    Nodes = {c1, c2, c3, r1, r2, r3, en, ex}
    Facts = {x, y}
    Functions = {main, g}
    FunctionOf <- MCFunctionOf
    CallNodes = {c1, c2, c3}
    Callee <- MCCallee
    Entry <- MCEntry
    ExitNodes = {ex}
    ReturnNode <- MCReturnNode
    Flows <- MCFlows
    Sources <- MCSources
    MaxDepth = 2
INVARIANTS
    ReturnsToCallSite
