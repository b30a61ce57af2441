CONSTANTS
    Maker = {m1, m2}
    Keeper = {k1, k2}
    Run = {r1, r2}
    Period = {jan, feb}
    Item = {commission, deduction, bonus}
    KindOf <- MCKindOf
    Month <- MCMonth
    Ready = {commission, bonus}
    Apart = {"approve", "delete"}
    None = None
    jan = jan
    feb = feb
    commission = commission
    deduction = deduction
    bonus = bonus
    m1 = m1
    m2 = m2
    k1 = k1
    k2 = k2
    r1 = r1
    r2 = r2
SPECIFICATION Spec
INVARIANTS TypeOK OneLiveRun PaidOnce Traceable LedgerFollowsRuns CountedIsNotDue SalariesPaidOnce
SYMMETRY Interchangeable
CHECK_DEADLOCK FALSE
