CONSTANTS
    vf = vf
    lf = lf
    df = df
    nf = nf
    mf = mf
    rf = rf
    p1 = p1
    p2 = p2
    None = None
    Dispatcher = Dispatcher
    Parsers <- MCParsers
    Path <- MCPath
    Calls <- TornCalls
SPECIFICATION Spec
INVARIANTS
    ErrorSurfaces
