CONSTANTS
    f1 = f1
    f2 = f2
    f3 = f3
    p1 = p1
    p2 = p2
    a1 = a1
    a2 = a2
    None = None
    ResFiles <- FaultyFiles
    Type <- MCType
    IsValues <- MCIsValues
    sends <- FaultySends
    Parsers <- MCParsers
    typedOutput <- MCTypedOutput
    CallerCancels = TRUE
SPECIFICATION FairSpec
INVARIANTS
    ErrorSurfaces
PROPERTIES
    Ends
CHECK_DEADLOCK FALSE
