CONSTANTS
    Calls = {c1, c2, c3}
    Keys <- LockKeys
    MaxAttempts = 2
    Faults = {}
    None = None
    Stores = {north, south, nowhere}
    KnownStores = {north, south}
    Requests <- CreateAndDeliver
    InitialStock <- NorthOnly
    Prior <- OnePending
    north = north
    south = south
    nowhere = nowhere
    t1 = t1
    t2 = t2
SPECIFICATION Spec
SYMMETRY Symmetry
INVARIANTS
    UnitsConserved
PROPERTIES
    ImplementsTransfers
