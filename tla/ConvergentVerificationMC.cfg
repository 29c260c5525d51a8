SPECIFICATION FairSpec
CONSTANTS
    i1 = i1
    i2 = i2
    Issues = {i1, i2}
    Hopeless = {i2}
    MaxReports = 1
    StrategyCount = 2
    StatisticalAttempts = 2
    RequiredClean = 2
    MaxRounds = 5
    FixAttempts = {1, 3}
    MaxIssuesPerBatch = 2
    AutoFix = TRUE
    OscillationThreshold = 2
    OscillationGrace = 1
    RegressionBuffer = 0
    DriftWindow = 3
    MaxRegistryEntries = 1
    PersistentThreshold = 1
    ExtensionRounds = 2
    MaxExtensions = 2
INVARIANTS ConvergedOnReviewedCode  OscillationReal
PROPERTIES VerificationEnds
