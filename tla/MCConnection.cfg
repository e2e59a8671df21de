CONSTANTS
    EndMark = EndMark
    R = 3
    Settings <- AllWorlds
SPECIFICATION FairSpec
INVARIANTS
    WholeBody AnsweredOnce PausedForReason OwnComponents OneHandler
    RejectedNotServed
PROPERTIES StopSpares AllServed
CHECK_DEADLOCK FALSE
