SPECIFICATION Spec
CONSTANTS
    None = None
    c1 = c1
    c2 = c2
    Client = {c1, c2}
    Scenarios <- MCScenarios
    Histories <- MCHistories
    Copies = 4
CHECK_DEADLOCK FALSE
INVARIANTS IndexesAgree LocatedContainsKey
PROPERTY RequestsSettle
