CONSTANTS
    App = App
    None = None
    Blueprints = {b1, b2}
    Above <- AboveDef
    Classes <- AllClasses
    Settings <- AllSettings
    PrefixSets <- PlainOrTwo
    HasSessions = TRUE
    MaxDeclared = 5
SPECIFICATION Spec
INVARIANTS HooksKept Reached Guarded SessionFlushed Nearest
SYMMETRY BlueprintSymmetry
CHECK_DEADLOCK FALSE
