SPECIFICATION FairControl
CONSTANTS
    NoLock = NoLock
    NoMission = NoMission
    Procs = {1, 2, 3}
    MaxLapses = 1
    MaxAlive = 1
    Commands = {"mission", "resume", "pause", "cancel", "retry"}
INVARIANT WorkHasTree
PROPERTIES RefusedOnlyByLiving TerminalIsFinal SignalHonoured CommandsEnd
CHECK_DEADLOCK FALSE
