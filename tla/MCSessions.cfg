CONSTANTS
    Requests = {r1, r2, r3}
    Workers = {w1, w2}
    None = None
    MaxDeaths = 1
SPECIFICATION Spec
INVARIANTS FileWhole Kept
SYMMETRY Symmetric
CHECK_DEADLOCK FALSE
