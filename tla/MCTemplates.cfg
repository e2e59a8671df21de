CONSTANTS
    Names = {"a", "b", "c"}
    Blocks = {"title", "main"}
    None = None
    BadTags = {"tag"}
    BadCode = {"code"}
    Worlds <- AllWorlds
    Walks <- AllWalks
SPECIFICATION FairSpec
INVARIANTS Fresh Survives
PROPERTIES TakenIn
CHECK_DEADLOCK FALSE
