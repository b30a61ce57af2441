SPECIFICATION FairSpec
CONSTANTS
    Request = {r1}
    Staff = {s1, s2}
    Worker = {s2}
    Days <- OneDay
    Entitled = 1
    Steps = 2
    WfSteps = 2
    Routes <- ProgressRoutes
    Alone = {}
    MayCrash = {"reject", "cron", "wfApprove"}
    RowLimit = 3
    None = None
INVARIANTS WorkflowNotAhead PendingIsActionable
PROPERTIES EveryRequestDecided
CHECK_DEADLOCK FALSE
