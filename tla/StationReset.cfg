CONSTANTS
    Workers = {w1, w2}
    Resetters = {x1}
    Clients = {c1}
    Observers = {}
    DataVersions = {d1}
    LastStation = 3
    Validation = 2
    MaxAttempts = 2
    MaxJobs = 2
    MaxSeq = 2
    MaxFaults = 1
    None = None
SPECIFICATION Spec
PROPERTY
    NoOldJobInNewGeneration
CHECK_DEADLOCK FALSE
