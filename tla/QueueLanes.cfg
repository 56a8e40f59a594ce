CONSTANTS
    i1 = i1
    i2 = i2
    Items = {i1}
    Inputs = {h1, h2}
    Outputs = {h1}
    Workers = {w1, w2}
    Sweepers = {s1}
    Priority <- MCPriority
    RootBound = FALSE
    RepeatsCall = FALSE
    MaxGeneration = 1
    MaxAttempts = 2
    None = None
SPECIFICATION Spec
SYMMETRY Symmetry
INVARIANTS
    TypeOK
    ReadyIsReachable
    ClaimSingleWinner
    VersionCountsCommits
    HandoffComplete
PROPERTIES
    OutcomeIsFinal
    LatestAttemptCommits
