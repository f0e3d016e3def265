SPECIFICATION Spec
CONSTANTS
    k1 = k1
    k2 = k2
    r1 = r1
    r2 = r2
    Key = {k1, k2}
    Txns <- MCTxns
    Primary = k1
    Resolver = {r1, r2}
    StartTS = 1
    MaxCommitTS = 4
    MaxTS = 4
    Env = {"Crash"}
INVARIANTS
    OneDecision
    ResultHonest
    CommitTSRight
SYMMETRY ResolverSymmetry
CHECK_DEADLOCK FALSE
