CONSTANTS
    Callers = {c1, c2}
    Tasks = {t1, t2}
    Windows = {w1, w2}
    Revisions = {r1, r2}
    MaxVersion = 6
    None = None
SPECIFICATION Spec
INVARIANTS
    TypeOK
    AnswersStand
    QueuedIsAwaited
