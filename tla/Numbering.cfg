CONSTANTS
    Counter = {branch, base, spare}
    Client = {c1, c2, c3}
    Legacy = {l1}
    Admin = {a1}
    Number <- MCNumber
    Home <- MCHome
    Joined = {c1, c3}
    Base = base
    Top = 2
    Text <- MCText
    Old <- MCOld
    Parsed <- MCParsed
    Manual <- MCManual
    Forced = {}
    Resettable = {spare}
    Lockable = {branch, base}
    None = None
    c1 = c1
    c2 = c2
    c3 = c3
    l1 = l1
    a1 = a1
    branch = branch
    base = base
    spare = spare
SPECIFICATION FairSpec
INVARIANTS TypeOK Gapless LockedIsQuiet
PROPERTIES NeverCollides VoidIsFinal RequestEnds
CHECK_DEADLOCK FALSE
