SPECIFICATION HalFairSpec
CONSTANTS
    fez = fez
    kyiv = kyiv
    none = none
    default = default
    ann = ann
    bob = bob
    Token <- Tokens
    Sep <- Underscore
    Device <- TwoDevices
    NoDevice <- none
    Default <- default
    Identifier <- Names
    Raw <- TwoJobs
    NoRaw <- none
    ProviderStatus <- Statuses
    Ttl <- ShortLives
    MaxFetch = 0
    MaxTime = 1
    Users <- OneUser
    Choice <- Choices
    Polling <- Polls
    MaxCrashes = 1
    MaxFaults = 1
    MaxDrifts = 1
CHECK_DEADLOCK FALSE
PROPERTIES
    ScriptEnds
    LockFreed
