SPECIFICATION Spec
CONSTANTS
    r1 = r1 r2 = r2 r3 = r3 k1 = k1 k2 = k2
    None = None
    Req = {r1, r2}
    Keys = {k1, k2}
    Key <- PairKey
    Amount <- PairAmount
    Sent <- PairSent
    Charged <- PairCharged
    Kind <- PayoutAndMock
    Limit = 3
    MaxChecks = 2
    Env = {"worker_error"}
INVARIANTS
    BudgetNeverNegative
CHECK_DEADLOCK FALSE
