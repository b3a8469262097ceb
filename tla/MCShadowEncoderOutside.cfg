CONSTANTS
    ResourcesDecls <- OfResources
    TagDecls <- OfTags
    MaxTags = 2
    MaxDepth = 3
    MaxChildren = 1
    UnboundNames = TRUE
SPECIFICATION Spec
INVARIANTS
    UsedOutsideRefused
