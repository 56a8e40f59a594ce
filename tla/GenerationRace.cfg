CONSTANTS
    Operators = {o1, o2}
    Handlers = {}
    Server = Server
    Releases = {r1, r2}
    Reasons = {"operator_rollback"}
    MaxSeq = 3
    None = None
SPECIFICATION Spec
SYMMETRY Symmetry
INVARIANTS
    AckedSurvives
PROPERTIES
    NoLostUpdate
