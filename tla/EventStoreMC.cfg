SPECIFICATION FairSpec
CONSTANTS
    p1 = p1
    c1 = c1
    c2 = c2
    m1 = m1
    m2 = m2
    p2 = p2
    NoVersion = NoVersion
    NoTx = NoTx
    Procs = {p1}
    Callers = {c1, c2}
    Home <- OneHome
    Aggregates = {m1, m2}
    Calls <- OneCalls
    QueueCapacity = 2
    MaxOps = 3
    MaxOpens = 2
INVARIANTS OnlyConflictsFail CallOrder
PROPERTIES ImplementsStream EveryCallReturns
CHECK_DEADLOCK FALSE
