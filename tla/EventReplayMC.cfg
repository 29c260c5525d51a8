SPECIFICATION Spec
CONSTANTS
    m1 = m1
    progress = progress
    t1 = t1
    t2 = t2
    Aggregates = {m1}
    Types = {progress}
    SnapshotInterval = 2
    MaxSnapshots = 2
    Settings <- Both
INVARIANTS SnapshotsExact RebuildComplete CheckpointExact
PROPERTY NewestNeverRegresses
CHECK_DEADLOCK FALSE
