SPECIFICATION MCSpec
CONSTANTS
    w1 = w1
    w2 = w2
    o1 = o1
    o2 = o2
    None = None
    Workers = {w1, w2}
    Operators = {o1, o2}
    MaxAttempts = 3
INVARIANTS
    TypeOK
    ReviewableIsOnRemote
    PushedHasEvidence
    RecoveryIsOnBase
CHECK_DEADLOCK FALSE
