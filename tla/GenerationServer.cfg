CONSTANTS
    Operators = {o1}
    Handlers = {h1, h2}
    Server = Server
    Releases = {r1}
    Reasons = {"operator_rollback"}
    MaxSeq = 1
    None = None
SPECIFICATION FairSpec
INVARIANTS
    TypeOK
    ReturnedUnderItsToken
PROPERTIES
    CallsReturn
