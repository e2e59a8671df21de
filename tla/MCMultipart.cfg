CONSTANTS
    Bytes = {"CR", "LF", "-", "b", "x", "y"}
    Names = {"value", "file"}
    Forms <- AllForms
    Boundary <- ShortBoundary
    FlushFactor = 2
    InMemoryLimit = 10
    MaxChunk = 7
    Counts = {0, 2}
SPECIFICATION FairSpec
INVARIANTS Parses
PROPERTIES FeedReturns
CHECK_DEADLOCK FALSE
