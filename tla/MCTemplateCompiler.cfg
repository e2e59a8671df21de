CONSTANTS
    Kinds <- AllKinds
    MaxTokens = 6
SPECIFICATION Spec
INVARIANTS Compiles Faithful Reported
CHECK_DEADLOCK FALSE
