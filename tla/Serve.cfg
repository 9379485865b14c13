SPECIFICATION MCSpec
CONSTANTS
    Manifests <- MCManifests
    Missing = Missing
    Never = Never
    Defined = {"URL"}
    MaxMtime = 2
    Period = 4
    MaxTtl = 9
    MaxFailures = 3
    MaxStart = 2
    BurstWindow = 2
    BurstThreshold = 3
    BurstCooldown = 4
    BurstTracked = 5
CHECK_DEADLOCK FALSE
INVARIANTS
    TokenDeathTold
    ExpiryNotOverstated
    BurstAlerted
    StaleShown
PROPERTIES
    TokenComesBack
