SPECIFICATION PromptSpec
CONSTANTS
    Calls = {c1}
    Ops = {o1}
    None = None
    KeyOf <- OneKey
    Mode = "off"
    Routes = {"deny"}
    RequestTimeout = 1
    PreapprovalTTL = 1
    MaxLifetime = 1
    ClockSkew = 0
    ExpiryGrace = 1
    MaxRestarts = 0
    DbMayFail = FALSE
    StoreMayReplay = FALSE
INVARIANT
    ClosedOnce
