SPECIFICATION MCSpec
CONSTANTS
    t1 = t1
    t2 = t2
    t3 = t3
    t4 = t4
    t5 = t5
    t6 = t6
    b1 = b1
    b2 = b2
    b3 = b3
    w1 = w1
    w2 = w2
    w3 = w3
    w4 = w4
    o1 = o1
    o2 = o2
    r1 = r1
    None = None
    Tasks = {t1, t2, t3, t4, t5, t6}
    Builders = {b1, b2, b3}
    Workers = {w1, w2, w3, w4}
    Operators = {o1, o2}
    Resources = {r1}
    RequiresPr = {t1}
    NeedsApproval = {t1}
    PolicyBlocked = {}
    Commands = {"unblock", "reconcile", "reconcileDelivery", "ceo", "cancel"}
    Signatures = {"fault"}
    TimeoutSignatures = {}
    LeaseTerm = 1
    RetryDelay = 1
    QuotaDelay = 1
    ParkDelay = 1
    MaxGeneration = 1
    MaxAttempts <- OneEach
    DebugBudget <- Debugged
    RepeatLimit <- OneEach
    BuilderOf <- Teams
    WorkerBuilder <- Members
    MaxConcurrency <- OneSlot
    Deps <- SecondAfterFirst
    Locks <- SharedByTwo
    Rank <- Order
INVARIANTS
    ConcurrencyBounded
    LocksExclusive
    DependenciesDelivered
PROPERTIES
    VerdictsFinal
    ClaimsMostUrgent
