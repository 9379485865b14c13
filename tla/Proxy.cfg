SPECIFICATION FairSpec
CONSTANTS
    Calls = {c1, c2, c3}
    AtStartup = AtStartup
    None = None
    Tools = {"read", "write"}
    Allowed = {"read"}
CHECK_DEADLOCK FALSE
INVARIANTS
    TypeOK
    NoOrphan
PROPERTIES
    WorkingClientStays
    StrictStaysStrict
    EveryCallReturns
