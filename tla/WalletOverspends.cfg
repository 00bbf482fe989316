SPECIFICATION Spec
CONSTANTS
    c1 = c1 c2 = c2 c3 = c3 d1 = d1
    Call = {c1, c2, c3}
    Reader = {d1}
    Amount <- Amounts3
    Real = {c3}
    PerTxn = 3
    Daily = 5
    Approval = 3
    LastDay = 3
    Env = {}
INVARIANTS
    WithinDaily
CHECK_DEADLOCK FALSE
