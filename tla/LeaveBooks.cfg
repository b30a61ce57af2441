SPECIFICATION Spec
CONSTANTS
    Request = {r1, r2}
    Staff = {s1, s2}
    Worker = {s2}
    Days <- OneDay
    Entitled = 2
    Steps = 1
    WfSteps = 1
    Routes <- BookRoutes
    Alone = {"cancel", "cron"}
    MayCrash = {"approve"}
    RowLimit = 2
    None = None
INVARIANTS TypeOK Covered NotOverdrawn
PROPERTIES DecidedStays
SYMMETRY Interchangeable
CHECK_DEADLOCK FALSE
