SPECIFICATION FairSpec
CONSTANTS
    e1 = e1
    e2 = e2
    direct = direct
    fwd = fwd
    Entry = {e1, e2}
    Host = {direct, fwd}
    Direct = direct
    Targets <- MCTargets
    Async = {e2}
    High = {e2}
    ChanSize = 1
    DefLimit = 9
    Limits = {1, 9}
    MaxFails = 1
INVARIANTS
    NoDoubleClose
    Accounting
PROPERTIES
    Answered
CHECK_DEADLOCK FALSE
