SPECIFICATION Spec
CONSTANTS
    kx = kx
    kv = kv
    km = km
    ka = ka
    past = today
    Client = {c1, c2}
    Entry = {e1, e2}
    Key = {kx, ka}
    Account = {a1, a2}
    Rounding = a9999
    Period = {today}
    Today = today
    None = None
    KindOf <- MCKindOf
    PostingDate <- MCPostingDate
    AccidentDesk = {c1}
    CrashAt <- BetweenStatements
INVARIANTS TypeOK BalancesMatch
PROPERTIES DiscardedLeaveBooks DocumentsBookedOnce
