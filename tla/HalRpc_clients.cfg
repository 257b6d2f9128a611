SPECIFICATION Spec
CONSTANTS
    c1 = c1
    c2 = c2
    k1 = k1
    k2 = k2
    k3 = k3
    k4 = k4
    none = none
    dead = dead
    NoConn <- none
    DeadConn <- dead
    Clients <- TwoClients
    Conns <- TwoConns
    UsedMethods <- ReadAndWrite
    MaxCalls = 2
    MaxCrashes = 0
    MaxFaults = 1
SYMMETRY Symmetry
INVARIANTS
    AtMostOnce
    ReplyMatches
    AnsweredWasServed
    IInv
