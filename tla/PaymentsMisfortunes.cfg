SPECIFICATION Spec
CONSTANTS
    r1 = r1 r2 = r2 r3 = r3 k1 = k1 k2 = k2
    None = None
    Req = {r1, r2}
    Keys = {k1, k2}
    Key <- PairKey
    Amount <- PairAmount
    Sent <- PairSent
    Charged <- PairCharged
    Kind <- UnconfirmedAndUnknown
    Limit = 2
    MaxChecks = 2
    Env = {"lost_reply", "rzp_error", "handler_error", "restart", "worker_error", "expiry", "toggle", "unroutable", "reuse"}
INVARIANTS
    WithinLimit
CHECK_DEADLOCK FALSE
