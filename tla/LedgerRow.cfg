SPECIFICATION FairSpec
CONSTANTS
    kx = kx
    kv = kv
    km = km
    ka = ka
    past = past
    Client = {c1, c2}
    Entry = {e1}
    Key = {kx, kv, km, ka}
    Account = {a1}
    Rounding = a9999
    Period = {past, today}
    Today = today
    None = None
    KindOf <- MCKindOf
    PostingDate <- MCPostingDate
    AccidentDesk = {c1}
    CrashAt <- BetweenStatements
INVARIANTS DeferredUntilDecided
PROPERTIES RequestsFinish ClosedPeriodDrains
