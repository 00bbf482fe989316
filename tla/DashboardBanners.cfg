SPECIFICATION FairWatchSpec
CONSTANTS
    r1 = r1 r2 = r2 k1 = k1 k2 = k2
    None = None
    Req = {r1, r2}
    Keys = {k1, k2}
    Key <- PairKey
    Amount <- PairAmount
    Sent <- PairAmount
    Charged <- PairCharged
    Kind <- TwoPayouts
    Limit = 2
    MaxChecks = 1
    Env = {}
PROPERTIES
    BannerClears
    HandOffIsFinal
CHECK_DEADLOCK FALSE
