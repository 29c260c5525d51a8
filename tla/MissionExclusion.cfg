SPECIFICATION ControlSpec
CONSTANTS
    NoLock = NoLock
    NoMission = NoMission
    Procs = {1, 2, 3}
    MaxLapses = 0
    MaxAlive = 2
    Commands = {"mission", "resume"}
INVARIANT MutualExclusion
CHECK_DEADLOCK FALSE
