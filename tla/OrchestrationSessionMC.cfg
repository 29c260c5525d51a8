SPECIFICATION Spec
CONSTANTS
    a = a
    b = b
    c = c
    x = x
    y = y
    NoAgent = NoAgent
    Tasks = {a, b, c}
    Agents = {x, y}
    MaxTaskRetries = 1
    MaxEntries = 2
    MaxCheckpoints = 2
    MaxNotices = 5
INVARIANTS SomeTaskCanRun LoadsMatchTasks RecoveryExact
SYMMETRY Same
CHECK_DEADLOCK FALSE
