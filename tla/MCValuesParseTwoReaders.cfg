CONSTANTS
    Inputs <- BadEnumInput
    CallerCancels = FALSE
    Types <- MCTypes
SPECIFICATION Spec
INVARIANTS
    AllPassedBack
