CONSTANTS
    A = A
    V = V
    X = X
    Param = Param
    Segments = {A, V, X}
    Hosts = {"docs", "mirror", "other"}
    NoHost = NoHost
    Strategies <- AllStrategies
    Declared <- AllDeclared
    PrefixLists <- AllPrefixes
    Requests <- AllRequests
    MaxSize = 2
    MaxRoutes = 2
    MaxLookups = 4
SPECIFICATION Spec
INVARIANTS CacheAgrees SlashForms
CHECK_DEADLOCK FALSE
