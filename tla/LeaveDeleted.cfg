SPECIFICATION Spec
CONSTANTS
    Request = {r1}
    Staff = {s1}
    Worker = {w}
    Days <- OneDay
    Entitled = 1
    Steps = 1
    WfSteps = 1
    Routes = {"submit", "delete", "cron"}
    Alone = {"delete", "cron"}
    MayCrash = {}
    RowLimit = 1
    None = None
INVARIANTS DeletedNotApproved
CHECK_DEADLOCK FALSE
