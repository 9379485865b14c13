SPECIFICATION Spec
CONSTANTS
    Calls = {c1, c2}
    Ops = {o1,o2}
    None = None
    KeyOf <- OneKey
    Mode = "enforce"
    Routes = {"sign", "signDeny", "cliReject"}
    RequestTimeout = 1
    PreapprovalTTL = 1
    MaxLifetime = 3
    ClockSkew = 0
    ExpiryGrace = 3
    MaxRestarts = 1
    DbMayFail = TRUE
    StoreMayReplay = FALSE
SYMMETRY Symmetric
INVARIANTS
    DeniedNeverRuns
    NeverExpiredWhileRedeemable
PROPERTIES
    RowsSettle
