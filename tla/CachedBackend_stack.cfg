SPECIFICATION SwitchSpec
CONSTANTS
    fez = fez
    kyiv = kyiv
    none = none
    default = default
    Token <- Tokens
    Sep <- Underscore
    Device <- TwoDevices
    NoDevice <- none
    Default <- default
    Identifier <- Names
    Raw <- OneJob
    NoRaw <- none
    ProviderStatus <- Statuses
    Ttl <- TimesToLive
    MaxFetch = 1
    MaxTime = 2
INVARIANTS
    CachedTypeOK
    BackendTypeOK
    IdsGuardJobs
    AgeBounded
PROPERTIES
    SessionIsKept
    FinalIsFinal
    DisconnectForgets
    OldDeviceFades
