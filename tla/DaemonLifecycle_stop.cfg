SPECIFICATION FairSpec
CONSTANTS
    d1 = d1
    d2 = d2
    d3 = d3
    nothing = nothing
    Daemons <- TwoDaemons
    NoFile <- nothing
    OneAtATime = TRUE
    MaxClients = 1
CHECK_DEADLOCK FALSE
PROPERTIES
    StopEndsServing
