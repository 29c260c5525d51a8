SPECIFICATION Spec
CONSTANTS
    a1 = a1
    a2 = a2
    b = b
    c = c
    FileA = FileA
    m = m
    n = n
    i1 = i1
    Paths <- Names
    Resolved <- Files
    NewFiles = {FileA}
    Boundary <- Owners
    Uses = {}
    Modules = {m, n}
    NoModule = NoModule
    Unleased = Unleased
    Permits = 2
    MaxDeferred = 2
    Issues = {i1}
    Reviewers <- Asked
    Required = 2
    MaxRounds = 4
    MaxFix = 1
    Agreed <- Lists
    Extracted <- Findings
    MaxAttempts = 1
INVARIANTS CleanMeansPassed
CHECK_DEADLOCK FALSE
