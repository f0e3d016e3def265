SPECIFICATION MCSpec
CONSTANTS
    l1 = l1
    l2 = l2
    l3 = l3
    a1 = a1
    a2 = a2
    a3 = a3
    s1 = s1
    Lock = {l1, l2, l3}
    Key = {1, 3}
    Slot = {1}
    SlotOf <- MCSlotOf
    Keys <- MCKeys
    None = None
    ListCount = 2
    Expire = 2
    CheckEvery = 1
    ChanSize = 1
    MaxTS = 6
    MayClose = TRUE
    Appender = {a1, a2, a3}
    Spawned = {s1}
    Spawns <- MCSpawns
    MaxExec = 6
    MayCancel = {TRUE, FALSE}
INVARIANTS
    LatchSafe
    LoopSafe
PROPERTIES
    LockReturns
    TasksRun
CHECK_DEADLOCK FALSE
