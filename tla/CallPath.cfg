SPECIFICATION MCSpec
CONSTANTS
    c1 = c1
    c2 = c2
    p1 = p1
    p2 = p2
    p3 = p3
    a1 = a1
    a2 = a2
    r1 = r1
    t1 = t1
    Calls = {c1, c2}
    Procs = {p1, p2, p3}
    Agents = {a1, a2}
    None = None
    AgentOf <- MCAgentOf
    ToolOf <- MCToolOf
    Buckets = {"global", "pattern"}
    Patterns <- MCPatterns
    Covers <- MCCovers
    Limit <- MCLimit
    Window <- MCWindow
    MaxDelay = 1
    MaxClock = 2
    Runs = {r1}
    Tasks = {t1}
    RunOf <- MCRunOf
    TaskOf <- MCTaskOf
    Refresh = 2
    MemoMax = 1
    MaxRestarts = 1
CHECK_DEADLOCK FALSE
INVARIANTS
    TypeOK
    WindowBound
    NothingUnmetered
    OwnLiveSession
    MemoIsWritten
    PoolOpenedOnce
