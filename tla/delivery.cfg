SPECIFICATION MCSpec
CONSTANTS
    g1 = g1
    p1 = p1
    p2 = p2
    r1 = r1
    r2 = r2
    k1 = k1
    k2 = k2
    base = base
    other = other
    None = None
    Generations = {g1}
    Deliverers = {p1, p2}
    Rollbackers = {r1, r2}
    Capabilities = {k1, k2}
    Ordinary = {base, other}
    Initially = base
    Attests <- Bound
    Source <- BuiltFrom
INVARIANTS
    TypeOK
    OneWriterPerCapability
    PublicIsAccounted
PROPERTIES
    VerdictIsReal
    DeliveryConcludes
CHECK_DEADLOCK FALSE
