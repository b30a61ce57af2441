SPECIFICATION FairSpec
CONSTANTS
    a1 = a1
    a2 = a2
    b1 = b1
    c1 = c1
    p = p
    q = q
    j1 = j1
    j2 = j2
    None = None
    Process = {p, q}
    Run <- Runs
    Job = {j1, j2}
    Host <- HostOf
    Task <- TaskOf
    TTL = 5
    Beat = 1
    Late = 1
    Misses = 1
    MayCrash = {q}
    Owned = {j1}
INVARIANTS TypeOK AtMostOneRun LockOutlivesRun
PROPERTIES JobKeepsRunning
CHECK_DEADLOCK FALSE
