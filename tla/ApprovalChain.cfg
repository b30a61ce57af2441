CONSTANTS
    s1 = s1
    s2 = s2
    w1 = w1
    Staff = {s1, s2}
    Clerk = {s2}
    Worker = {w1}
    Last = 2
    Automatic = {1, 2}
    IsLoan = TRUE
SPECIFICATION FairSpec
INVARIANTS TypeOK NoStepSkipped WholeChain
PROPERTIES NothingWaitsForEver
CHECK_DEADLOCK FALSE
