SPECIFICATION Spec
CONSTANTS
    r1 = r1 r2 = r2 r3 = r3 k1 = k1 k2 = k2
    None = None
    Req = {r1, r2}
    Keys = {k1}
    Key <- TwiceKey
    Amount <- TwiceAmount
    Sent <- TwiceSent
    Charged <- TwiceCharged
    Kind <- TwiceMock
    Limit = 3
    MaxChecks = 2
    Env = {"duplicates"}
INVARIANTS
    OneChargePerKey
CHECK_DEADLOCK FALSE
