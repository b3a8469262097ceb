CONSTANTS
    ResourcesDecls <- OfResources
    TagDecls <- OfTags
    MaxTags = 2
    MaxDepth = 3
    MaxChildren = 1
    UnboundNames = FALSE
SPECIFICATION Spec
INVARIANTS
    TypeOK
    PayloadResolves
    NeverFails
PROPERTIES
    ChildRestored
