CONSTANTS
    N = 12
    MaxBatch = 4
    EndMark = EndMark
SPECIFICATION ReadingSpec
INVARIANTS TypeOK NoLostWakeup
PROPERTIES BackPressure Refines ReadEnds
CHECK_DEADLOCK FALSE
