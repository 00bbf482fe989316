SPECIFICATION Spec
CONSTANTS
    s1 = s1 s2 = s2 hotel = hotel crm = crm m1 = m1 m2 = m2
    None = None
    Step = {s1, s2}
    Merchant = {crm}
    PaidTo <- OneShop
    WithPolicy = {}
    Refundable = {}
    Msg = {m1}
    Fault <- OneFault
    Threshold = 2
    DeliveryLimit = 2
    Env = {"error","outage"}
INVARIANTS DegradedStartsClean
CHECK_DEADLOCK FALSE
