CONSTANTS
    Counter = {branch, base}
    Client = {c1, c2}
    Legacy = {l1}
    Admin = {a1}
    Number <- MCNumber
    Home <- BranchHome
    Joined = {c1}
    Base = base
    Top = 2
    Text <- MCText
    Old <- BranchOld
    Parsed <- MCParsed
    Manual = {}
    Forced = {}
    Resettable = {}
    Lockable = {}
    None = None
    c1 = c1
    c2 = c2
    c3 = c3
    l1 = l1
    a1 = a1
    branch = branch
    base = base
    spare = spare
SPECIFICATION FairSpec
PROPERTIES RetryGetsThrough
CHECK_DEADLOCK FALSE
