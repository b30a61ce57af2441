SPECIFICATION Spec
CONSTANTS
    kx = kx
    kv = kv
    km = km
    ka = ka
    past = past
    Client = {c1, c2}
    Entry = {e1}
    Key = {kx}
    Account = {a1}
    Rounding = a9999
    Period = {past, today}
    Today = today
    None = None
    KindOf <- MCKindOf
    PostingDate <- MCPostingDate
    AccidentDesk = {}
    CrashAt = {}

PROPERTIES NoMovementInClosedPeriod
