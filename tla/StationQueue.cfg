CONSTANTS
    Workers = {w1, w2}
    Resetters = {x1}
    Clients = {c1}
    Observers = {o1}
    DataVersions = {d1}
    LastStation = 2
    Validation = 1
    MaxAttempts = 2
    MaxJobs = 2
    MaxSeq = 2
    MaxFaults = 1
    None = None
SPECIFICATION FairSpec
INVARIANTS
    TypeOK
    StationsInLine
    JobTellsItsRow
    AttemptsDecide
    ActiveIsCurrent
PROPERTIES
    GenerationHolds
    OnlyFaultsStall
CHECK_DEADLOCK FALSE
