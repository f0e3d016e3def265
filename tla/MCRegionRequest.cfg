CONSTANTS
    None = None
    r1 = r1
    r2 = r2
    Request <- MCRequest
    N = 3
    Scenarios <- MCScenarios
    MaxAttempt = 2
SPECIFICATION Spec
INVARIANT FlagsHonest
PROPERTY StoresRecover RequestsServed
CHECK_DEADLOCK FALSE
