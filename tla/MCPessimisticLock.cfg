SPECIFICATION Spec
CONSTANTS
    NKeys = 2
    MaxTS = 4
    Modes = {"plain", "value", "insert", "ifExists"}
    Server = "tikv"
    Admit = {}
INVARIANTS
    LockRecordTrue
    NoOrphanLock
    InsertedKeysAreNew
CHECK_DEADLOCK FALSE
