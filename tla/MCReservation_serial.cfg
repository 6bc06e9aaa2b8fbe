CONSTANTS
    Calls = {c1, c2, c3}
    Keys <- LockKeys
    MaxAttempts = 2
    Faults = {}
    None = None
    Items = {shirt, shoes}
    Orders = {o1, o2, o3}
    Requests <- HoldAndRelease
    InitialStock <- TightStock
    Prior <- HeldOrder
    shirt = shirt
    shoes = shoes
    o1 = o1
    o2 = o2
    o3 = o3
    p1 = p1
SPECIFICATION Spec
SYMMETRY Symmetry
INVARIANTS
    RefusedLeavesNoTrace
    ReservedIsBacked
PROPERTIES
    ImplementsLedger
