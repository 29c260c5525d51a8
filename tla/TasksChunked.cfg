SPECIFICATION Spec
CONSTANTS
    Outlines <- Chunked
    MaxRetries = 1
    MaxIterations = 3
    Interval = 2
    TimedOut = FALSE
    MaxRestarts = 0
    NoCheckpoint = NoCheckpoint
PROPERTY TerminalStays
CHECK_DEADLOCK FALSE
