SPECIFICATION FairSpec
CONSTANTS
    Mods = {m1, m2}
    Proxies = {m1}
    Tools = {"t"}
    None = None
    GateTimeout = 1
    GateBudget = 1
    ConnectTimeout = 1
    BaseDelay = 1
    MaxDelay = 3
    MaxFailures = 1
CHECK_DEADLOCK FALSE
INVARIANTS
    TypeOK
    RunningServes
    FileTellsModules
    PromiseKept
    AllShutDown
    GateBounded
PROPERTIES
    FailedModulesHeal
