SPECIFICATION FairRunSpec
CONSTANTS
    c1 = c1 c2 = c2 d1 = d1
    Call = {c1, c2}
    Reader = {d1}
    Amount <- Amounts2
    Real = {c2}
    PerTxn = 3
    Daily = 4
    Approval = 3
    LastDay = 2
    Earlier = {2}
    Env = {"midnight", "operator"}
    Driver = "planner"
    Catalog <- Catalog2
    MaxItems = 2
    Bad = Bad
    Limit = 5
    Charged <- Charged2
    MaxCalls = 1
    Trouble = {"slow", "proxy_error"}
INVARIANTS
    RunTypeOK
    NeverOvercounted
    WithinDaily
    CompleteMeansPaid
    ReportedIsSpent
    NetworkFaultsAreErrors
PROPERTIES
    ExactOnceOpen
    NothingPaidAfterRefusal
    ThrottleLifts
    RunEnds
CHECK_DEADLOCK FALSE
