CONSTANTS
    Inputs <- AllInputs
    CallerCancels = TRUE
    Types <- MCTypes
SPECIFICATION FairSpec
INVARIANTS
    TypeOK
    SendsWhatIsThere
    ErrorSent
PROPERTIES
    Ends
