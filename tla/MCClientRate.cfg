CONSTANTS
    one = one
    two = two
    Calls = {one}
    None = None
    home = home
    other = other
    Hosts = {home, other}
    Numbers = {1, 2}
    Asks <- AllAsks
    Answers <- AllAnswers
    MaxRedirects = 1
    NetworkFailures = 1
    KeepAlive = TRUE
    Uses <- LimitedUses
SPECIFICATION Spec
INVARIANTS RateKept
CHECK_DEADLOCK FALSE
