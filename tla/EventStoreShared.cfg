SPECIFICATION Spec
CONSTANTS
    p1 = p1
    c1 = c1
    c2 = c2
    m1 = m1
    m2 = m2
    p2 = p2
    NoVersion = NoVersion
    NoTx = NoTx
    Procs = {p1, p2}
    Callers = {c1, c2}
    Home <- TwoHomes
    Aggregates = {m1, m2}
    Calls <- TwoCalls
    QueueCapacity = 1
    MaxOps = 4
    MaxOpens = 2
INVARIANTS UniqueRows AckedDurable AllOrNothing
PROPERTIES OptimisticLock
CHECK_DEADLOCK FALSE
