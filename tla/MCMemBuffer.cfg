SPECIFICATION Spec
CONSTANTS
    Null = Null
    Keys <- MCKeys
    Committed <- MCCommitted
    Scenes <- MCScenes
    Admit = {}
    maxInNodePrefixLen = 1
    node4cap = 2
    node16cap = 3
    node48cap = 4
    node256cap = 5
    memdbVlogHdrSize = 2
    initBlockSize = 4
    maxBlockSize = 16
    initBatchSize = 1
    maxBatchSize = 2
INVARIANTS
    IndexSound
    BufferMatches
    SnapshotStable
CHECK_DEADLOCK FALSE
