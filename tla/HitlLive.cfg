SPECIFICATION FairSpec
CONSTANTS
    Calls = {c1, c2}
    Ops = {o1, o2}
    None = None
    KeyOf <- OneKey
    Mode = "observe"
    Routes = {"sign", "signDeny", "cliApprove"}
    RequestTimeout = 1
    PreapprovalTTL = 1
    MaxLifetime = 1
    ClockSkew = 0
    ExpiryGrace = 1
    MaxRestarts = 0
    DbMayFail = FALSE
    StoreMayReplay = FALSE
PROPERTIES
    EveryRequestEnds
