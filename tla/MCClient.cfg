CONSTANTS
    one = one
    two = two
    Calls = {one, two}
    None = None
    home = home
    other = other
    Hosts = {home, other}
    Numbers = {1, 2}
    Asks <- AllAsks
    Answers <- AllAnswers
    MaxRedirects = 1
    NetworkFailures = 1
    KeepAlive = TRUE
    Uses <- AllUses
SPECIFICATION FairSpec
INVARIANTS Exclusive NoSocketLost PostedOnce
PROPERTIES Settles
CHECK_DEADLOCK FALSE
