SPECIFICATION FairSpec
CONSTANTS
    c1 = c1
    c2 = c2
    k1 = k1
    k2 = k2
    k3 = k3
    k4 = k4
    none = none
    dead = dead
    NoConn <- none
    DeadConn <- dead
    Clients <- OneClient
    Conns <- TwoConns
    UsedMethods <- ReadAndWrite
    MaxCalls = 3
    MaxCrashes = 1
    MaxFaults = 1
INVARIANTS
    TypeOK
    LockGuardsBackend
    WriteLossReported
PROPERTIES
    OverIsOver
    KeepsPromise
    CallReturns
    HandlerDrains
