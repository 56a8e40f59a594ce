CONSTANTS
    i1 = i1
    i2 = i2
    Items = {i1}
    Inputs = {h1}
    Outputs = {h1}
    Workers = {w1, w2}
    Sweepers = {s1}
    Priority <- MCPriority
    RootBound = TRUE
    RepeatsCall = TRUE
    MaxGeneration = 2
    MaxAttempts = 2
    None = None
SPECIFICATION Spec
SYMMETRY Symmetry
INVARIANTS
    ClaimSingleWinner
PROPERTIES
    OutcomeIsFinal
    LatestAttemptCommits
