SPECIFICATION FairSpec
CONSTANTS
    m1 = m1
    m2 = m2
    m3 = m3
    g1 = g1
    g2 = g2
    d1 = d1
    None = None
    Workspaces <- All
    Visible <- Seeing
    Pool <- Registered
    FlatThreshold = 2
    DeepThreshold = 2
    MaxRounds = 2
    MinParticipants = 2
    MaxBacktracks = 2
    Statuses <- Answers
INVARIANTS ResultsCurrent TableComplete AgreementHeard
PROPERTIES ConsensusEnds
CHECK_DEADLOCK FALSE
