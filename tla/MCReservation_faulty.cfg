CONSTANTS
    Calls = {c1, c2}
    Keys <- LockKeys
    MaxAttempts = 3
    Faults = {"dbRejects", "replyLost", "redis", "crash"}
    None = None
    Items = {shirt, shoes}
    Orders = {o1, o2, o3}
    Requests <- HoldAndRelease
    InitialStock <- HeldStock
    Prior <- HeldOrder
    shirt = shirt
    shoes = shoes
    o1 = o1
    o2 = o2
    o3 = o3
    p1 = p1
SPECIFICATION Spec
SYMMETRY Symmetry
INVARIANTS
    OneReservationPerCall
    OneActivePerOrder
