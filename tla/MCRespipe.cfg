CONSTANTS
    i1 = i1
    i2 = i2
    i3 = i3
    None = None
    Inputs <- MCInputs
    Count <- MCCount
    d1 = d1
    d2 = d2
    Dirs <- MCDirs
    Tree <- MCTree
    ResInputs <- MCResInputs
    BufSize = 3
SPECIFICATION RespipeSpec
INVARIANTS
    TypeOK
    NoSendOnClosed
    Emitted
    WrittenRight
PROPERTIES
    ImplementsPromise
    AllEnds
