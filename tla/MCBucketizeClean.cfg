CONSTANTS
    f1 = f1
    f2 = f2
    f3 = f3
    p1 = p1
    p2 = p2
    a1 = a1
    a2 = a2
    None = None
    ResFiles <- MCResFiles
    Type <- MCType
    IsValues <- MCIsValues
    sends <- CleanSends
    Parsers <- MCParsers
    typedOutput <- MCTypedOutput
    CallerCancels = FALSE
SPECIFICATION FairSpec
INVARIANTS
    TypeOK
    NothingLost
    ValuesDetermined
    AttributesInOrder
PROPERTIES
    Ends
