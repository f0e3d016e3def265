SPECIFICATION Spec
CONSTANTS
    t1 = t1
    t2 = t2
    k1 = k1
    k2 = k2
    r1 = r1
    NoTxn = NoTxn
    Txn = {t1, t2}
    Key = {k1, k2}
    Reader = {r1}
    GCRange = {}
    MaxTS = 3
    Moves = {"forward"}
    Keys <- MCReadKeys
    LockOnly <- MCNoLockOnly
    Primary <- MCPrimary
INVARIANTS
    ReadsSnapshot
CHECK_DEADLOCK FALSE
