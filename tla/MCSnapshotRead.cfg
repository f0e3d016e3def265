CONSTANTS
    Null = Null
    N = 4
    r1 = r1
    r2 = r2
    Readers = {r1, r2}
    batchGetSize = 2
    scanBatchSize = 2
    cachedSizeLimit = 5
    Scenes <- MCScenes
SPECIFICATION Spec
INVARIANT ReadsTrue
PROPERTY ReadsReturn
CHECK_DEADLOCK FALSE
