SPECIFICATION Spec
CONSTANTS
    p1 = p1
    p2 = p2
    c1 = c1
    k1 = k1
    NoValue = NoValue
    Values = {v1}
    Threads <- MCThreads
    Calls <- MCCalls
    Capacity = 2
INVARIANTS
    TypeOK
    CapacityRespected
    NoLostWakeup
PROPERTIES
    ClosedOnlyDrains
    CloseReleasesCalls
    PushForReturns
    ImplementsChannel
