CONSTANTS
    Handlers = {h1, h2}
    Agent2Attempts = 2
    Agent3Attempts = 2
    MaxSlow = 1
    MaxDeaths = 1
    MaxFailures = 1
    MaxRebinds = 2
    None = None
SPECIFICATION FairSpec
INVARIANTS
    TypeOK
    PoolAccounted
    OneCallUntilRobbed
PROPERTIES
    EnteredIsAdmitted
    ItemSettles
CHECK_DEADLOCK FALSE
