CONSTANTS
    Calls = {c1, c2}
    Keys <- LockKeys
    MaxAttempts = 2
    Faults = {"timeout", "dbRejects", "replyLost", "redis", "crash"}
    None = None
    Items = {shirt, shoes}
    Orders = {o1, o2, o3}
    Requests <- OrderAndRival
    InitialStock <- HeldStock
    Prior <- HeldOrder
    shirt = shirt
    shoes = shoes
    o1 = o1
    o2 = o2
    o3 = o3
    p1 = p1
SPECIFICATION Spec
SYMMETRY Symmetry
INVARIANTS
    TypeOK
    CountersNeverNegative
    FiredHoldsLock
    AcknowledgedIsDurable
PROPERTIES
    SettledStaysSettled
