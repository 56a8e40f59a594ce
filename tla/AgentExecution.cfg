CONSTANTS
    Exec = {e1, e2}
    Stages = {"agent1", "agent2", "agent3"}
    BatchSize = 2
    RetryLimit = 1
    MaxRuns = 2
    MaxCrashes = 1
SPECIFICATION FairSpec
INVARIANTS
    TypeOK
    ReturnedWasAccepted
    NothingLeftRunning
    OneOutputPerClaim
PROPERTIES
    AcceptanceStands
    RunEnds
CHECK_DEADLOCK FALSE
