SPECIFICATION Spec
CONSTANTS
    Calls = {c1, c2, c3}
    Ops = {o1, o2}
    None = None
    KeyOf <- OneKey
    Mode = "off"
    Routes = {"bot", "courier", "deny"}
    RequestTimeout = 1
    PreapprovalTTL = 1
    MaxLifetime = 1
    ClockSkew = 0
    ExpiryGrace = 1
    MaxRestarts = 1
    DbMayFail = FALSE
    StoreMayReplay = FALSE
CONSTRAINT Crowds
SYMMETRY Symmetric
INVARIANTS
    TypeOK
    DecidedOnce
    DeniedNeverRuns
    UseIsRecorded
    OneCallPerRequest
