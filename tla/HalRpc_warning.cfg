SPECIFICATION Spec
CONSTANTS
    c1 = c1
    c2 = c2
    k1 = k1
    k2 = k2
    k3 = k3
    k4 = k4
    none = none
    dead = dead
    NoConn <- none
    DeadConn <- dead
    Clients <- OneClient
    Conns <- ThreeConns
    UsedMethods <- ReadAndWrite
    MaxCalls = 1
    MaxCrashes = 1
    MaxFaults = 0
SYMMETRY Symmetry
INVARIANTS
    WriteLossWarned
