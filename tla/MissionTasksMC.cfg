SPECIFICATION FairSpec
CONSTANTS
    Outlines <- Single
    MaxRetries = 1
    MaxIterations = 5
    Interval = 2
    TimedOut = TRUE
    MaxRestarts = 1
    NoCheckpoint = NoCheckpoint
INVARIANTS OrderKept CheckpointBehindFile NothingLeftOut
PROPERTIES TerminalStays LoopEnds
CHECK_DEADLOCK FALSE
