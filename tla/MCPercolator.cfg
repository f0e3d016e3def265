SPECIFICATION FairSpec
CONSTANTS
    t1 = t1
    t2 = t2
    k1 = k1
    k2 = k2
    r1 = r1
    NoTxn = NoTxn
    Txn = {t1, t2}
    Key = {k1, k2}
    Reader = {}
    GCRange = {k1, k2}
    MaxTS = 5
    Moves = {}
    Keys <- MCKeys
    LockOnly <- MCLockOnly
    Primary <- MCPrimary
INVARIANTS
    Atomic
    NoMutationLost
    ResultHonest
    StatusAgreement
    NoLostUpdate
    IndInv
PROPERTIES
    RecordsPermanent
    ImplementsAtomicCommit
    LocksResolved
CHECK_DEADLOCK FALSE
