SPECIFICATION Spec
CONSTANTS
    Calls = {c1, c2, c3}
    Ops = {o1}
    None = None
    KeyOf <- OneKey
    Mode = "enforce"
    Routes = {"sign", "signDeny"}
    RequestTimeout = 2
    PreapprovalTTL = 1
    MaxLifetime = 2
    ClockSkew = 1
    ExpiryGrace = 2
    MaxRestarts = 1
    DbMayFail = FALSE
    StoreMayReplay = TRUE
SYMMETRY Symmetric
INVARIANTS
    SignedOncePerProcess
PROPERTIES
    ImplementsOneTimeApproval
