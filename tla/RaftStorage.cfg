SPECIFICATION MCSpec
CONSTANTS
    MaxIndex = 5
    MaxTerm = 3
    MaxBatch = 2
    MaxCrashes = 2
    Keep = 1
    PeerSnapshots = FALSE
    NoRow = NoRow
    Mode = "cluster"
    LocalIndex = 3
    LocalTerm = 1
INVARIANTS
    NoCommittedLost
    ExecutedInOrder
    NoHole
    VoteOnDisk
    FailedKeepsWrites
PROPERTIES
    ReplayOnlyUnrecorded
    PeerRecordedNeverRegresses
    ImplementsReplayLog
    LocalGetsRecorded
    NodeSettles
CHECK_DEADLOCK FALSE
