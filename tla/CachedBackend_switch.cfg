SPECIFICATION SwitchSpec
CONSTANTS
    fez = fez
    kyiv = kyiv
    none = none
    default = default
    Token <- Tokens
    Sep <- Underscore
    Device <- TwoDevices
    NoDevice <- none
    Default <- default
    Identifier <- Names
    Raw <- NoJobs
    NoRaw <- none
    ProviderStatus <- Statuses
    Ttl <- TimesToLive
    MaxFetch = 1
    MaxTime = 5
PROPERTIES
    ServesSessionDevice
