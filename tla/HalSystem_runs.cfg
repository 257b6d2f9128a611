SPECIFICATION HalSpec
CONSTANTS
    fez = fez
    kyiv = kyiv
    none = none
    default = default
    ann = ann
    bob = bob
    Token <- Tokens
    Sep <- Underscore
    Device <- TwoDevices
    NoDevice <- none
    Default <- default
    Identifier <- Names
    Raw <- TwoJobs
    NoRaw <- none
    ProviderStatus <- Statuses
    Ttl <- ShortLives
    MaxFetch = 0
    MaxTime = 0
    Users <- TwoUsers
    Choice <- Choices
    Polling <- Polls
    MaxCrashes = 1
    MaxFaults = 0
    MaxDrifts = 0
CHECK_DEADLOCK FALSE
INVARIANTS
    HalTypeOK
    OneJobPerRun
    ResultIsOwn
    KeptWhileUp
PROPERTIES
    OneAfterTheOther
