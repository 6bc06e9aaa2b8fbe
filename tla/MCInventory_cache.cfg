CONSTANTS
    Calls = {c1, c2}
    Keys = {"inventory"}
    MaxAttempts = 2
    Faults = {"timeout", "dbRejects", "redis"}
    None = None
    Readers = {r1}
    Requests <- ThreeRequests
    InitialItems <- NoneOrTwo
    OldRow = OldRow
SPECIFICATION LiveSpec
INVARIANTS
    TypeOK
    LedgerExplainsStock
    RowsSound
    OnceOrNotAtAll
PROPERTIES
    EventuallyFresh
