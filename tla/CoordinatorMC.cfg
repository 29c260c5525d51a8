SPECIFICATION FairSpec
CONSTANTS
    a1 = a1
    a2 = a2
    b = b
    c = c
    FileA = FileA
    m = m
    n = n
    i1 = i1
    Paths <- Names
    Resolved <- Files
    NewFiles = {FileA}
    Boundary <- Owners
    Uses = {}
    Modules = {m, n}
    NoModule = NoModule
    Unleased = Unleased
    Permits = 2
    MaxDeferred = 2
    Issues = {i1}
    Reviewers <- Asked
    Required = 2
    MaxRounds = 5
    MaxFix = 1
    Agreed <- Lists
    Extracted <- Findings
    MaxAttempts = 1
INVARIANTS ExclusiveFiles DependenciesFirst SettledOnce NoLeaseLeft ReviewedFinalCode
PROPERTIES MissionEnds
CHECK_DEADLOCK FALSE
