CONSTANTS
    Calls = {c1, c2}
    Keys = {key}
    Circuits = {operation}
    KeyOf <- OneKey
    CircuitOf <- OneCircuit
    MaxAttempts = 2
    Faults = {"timeout", "redis", "crash"}
    None = None
    Poll = 1
    Delay = 1
    Timer = 2
    Wait = 3
    Reset = 3
    Lease = 5
    Late = 1
    c1 = c1
    c2 = c2
    key = key
    operation = operation
SPECIFICATION LiveSpec
INVARIANTS
    AnsweredInTime
    HalfOpenIsDecided
PROPERTIES
    ImplementsGuardedCall
    EveryLockFreed
