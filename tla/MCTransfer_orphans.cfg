CONSTANTS
    Calls = {c1, c2}
    Keys <- LockKeys
    MaxAttempts = 2
    Faults = {"timeout", "replyLost"}
    None = None
    Stores = {north, south, nowhere}
    KnownStores = {north, south}
    Requests <- EveryHandling
    InitialStock <- OneUnderWay
    Prior <- InTransitAndPending
    north = north
    south = south
    nowhere = nowhere
    t1 = t1
    t2 = t2
SPECIFICATION Spec
SYMMETRY Symmetry
INVARIANTS
    TypeOK
    CountersNeverNegative
    StatusIsRecorded
    AcknowledgedIsDurable
PROPERTIES
    NeverPendingAgain
