CONSTANTS
    c1 = c1
    c2 = c2
    local = local
    Client = {c1, c2}
    Global = Global
    Scopes = {Global, local}
    Updater = Updater
    None = None
    Logical = 16
    minAllowed = 2
    ShrinkingPreserve = 1
    BlockThreshold = 1
    RecoverPerUnit = 1
    DelayBeforeRecovering = 3
    Scenarios <- MCScenarios
SPECIFICATION Spec
CHECK_DEADLOCK FALSE
INVARIANTS TimestampsHonest RefreshKeepsUp
PROPERTIES LastTSAdvances
