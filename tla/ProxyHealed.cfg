SPECIFICATION Spec
CONSTANTS
    Calls = {c1, c2}
    AtStartup = AtStartup
    None = None
    Tools = {"read", "write"}
    Allowed = {"read"}
CHECK_DEADLOCK FALSE
INVARIANTS
    PeerHealed
