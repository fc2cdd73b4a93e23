SPECIFICATION Spec
CONSTANTS
    t1 = t1
    t2 = t2
    t3 = t3
    b1 = b1
    w1 = w1
    w2 = w2
    w3 = w3
    o1 = o1
    o2 = o2
    None = None
    Tasks = {t1}
    Builders = {b1}
    Workers = {w1, w2}
    Operators = {o1}
    Resources = {}
    RequiresPr = {t1}
    NeedsApproval = {t1}
    PolicyBlocked = {}
    Commands = {"unblock", "reconcile", "ceo", "cancel"}
    Signatures = {"fault", "timeout"}
    TimeoutSignatures = {"timeout"}
    LeaseTerm = 2
    RetryDelay = 1
    QuotaDelay = 1
    ParkDelay = 1
    MaxGeneration = 2
    MaxAttempts <- TwoEach
    DebugBudget <- TwoEach
    RepeatLimit <- OneEach
    BuilderOf <- OneBuilder
    WorkerBuilder <- SameBuilder
    MaxConcurrency <- OneSlot
    Deps <- Independent
    Locks <- Free
    Rank <- Order
INVARIANTS
    TypeOK
    LeaseInvariant
    SingleWriter
    ReviewableIsDelivered
    AttemptsAccounted
PROPERTIES
    LostLeaseIsDead
    ReconciliationNeverReruns
    ImplementsLeaseService
