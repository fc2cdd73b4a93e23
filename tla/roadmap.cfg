SPECIFICATION MCSpec
CONSTANTS
    i1 = i1
    i2 = i2
    i3 = i3
    b1 = b1
    b2 = b2
    p1 = p1
    p2 = p2
    q1 = q1
    o1 = o1
    None = None
    Items = {i1, i2, i3}
    Builders = {b1, b2}
    Loops = {p1, p2}
    Pools = {q1}
    Submitters = {o1}
    ReadOnly = {i2}
    PathsMeet = {{i2, i3}, {i3}}
    LocksMeet = {{i1, i3}, {i1}, {i3}}
    MaxPending = 1
    PressureLimit = 1
    MaxTasks = 4
    MaxRuns = 1
    Rank <- Priority
    DependsOn <- SecondAfterFirst
    BuilderOf <- FirstBuilder
    Serves <- FirstLoop
    Preferred <- Registered
INVARIANTS
    TypeOK
    OneTaskPerItem
    ItemsInOrder
    QueueBounded
PROPERTIES
    ItemsMaterialise
CHECK_DEADLOCK FALSE
