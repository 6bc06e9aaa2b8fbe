CONSTANTS
    Calls = {c1, c2}
    Keys <- LockKeys
    MaxAttempts = 3
    Faults = {"dbRejects", "replyLost", "redis", "crash"}
    None = None
    Stores = {north, south, nowhere}
    KnownStores = {north, south}
    Requests <- Delivery
    InitialStock <- CustomerToo
    Prior <- OnePending
    north = north
    south = south
    nowhere = nowhere
    t1 = t1
    t2 = t2
SPECIFICATION Spec
SYMMETRY Symmetry
INVARIANTS
    NothingInvented
    OneRowPerStore
