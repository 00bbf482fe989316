SPECIFICATION Spec
CONSTANTS
    r1 = r1 r2 = r2 r3 = r3 k1 = k1 k2 = k2
    None = None
    Req = {r1, r2, r3}
    Keys = {k1, k2}
    Key <- RetryKey
    Amount <- DearPayout
    Sent <- DearPayoutSent
    Charged <- RetryOtherPrice
    Kind <- RetryBesidePayout
    Limit = 3
    MaxChecks = 1
    Env = {"duplicates", "handler_error", "restart"}
INVARIANTS
    BudgetAccountsForEveryCall
    MandateCoversMoney
    MoneyIsOwed
    OpenPayoutsAreHeld
    ResolvedOnce
CHECK_DEADLOCK FALSE
