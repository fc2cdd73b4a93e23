SPECIFICATION MCSpec
CONSTANTS
    a1 = a1
    a2 = a2
    a3 = a3
    c1 = c1
    c2 = c2
    p1 = p1
    p2 = p2
    q1 = q1
    q2 = q2
    o1 = o1
    main = main
    first = first
    second = second
    n1 = n1
    n2 = n2
    s1 = s1
    s2 = s2
    None = None
    Activations = {a1, a2, a3, c1, c2}
    Runners = {p1, p2}
    Operators = {o1}
    Batches = {q1, q2}
    Routes = {main, first, second}
    Nonces = {n1, n2}
    Scopes = {s1, s2}
    Refinements = {a3}
    BatchRuns <- TwoFixtures
    RouteOf <- OwnRoutes
    NonceOf <- Replayed
    ScopeOf <- SharedFixture
INVARIANTS
    TypeOK
    OneRequestPerNonce
    VerifiedIsBacked
    LifecycleStaged
    RouteIsRecorded
    ArtifactsComplete
PROPERTIES
    RouteLostToRollback
    ActivationsClose
CHECK_DEADLOCK FALSE
