SPECIFICATION FairSpec
CONSTANTS
    NKeys = 3
    Prefetch = {1}
    Entries = {"a", "del", "ins", "cne", "skip"}
    MaxWrites = 2
    MaxGen = 2
    Admit = {}
INVARIANTS
    BufferRight
    OutcomeRight
PROPERTIES
    FlushReturns
CHECK_DEADLOCK FALSE
