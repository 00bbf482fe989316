SPECIFICATION Spec
CONSTANTS
    s1 = s1 s2 = s2 hotel = hotel crm = crm m1 = m1 m2 = m2
    None = None
    Step = {s1, s2}
    Merchant = {hotel, crm}
    PaidTo <- TwoShops
    WithPolicy = {hotel, crm}
    Refundable = {crm}
    Msg = {m1}
    Fault <- OneFault
    Threshold = 2
    DeliveryLimit = 1
    Env = {"late", "error", "outage", "lost_reply", "neighbours"}
INVARIANTS
    TypeOK
    ResultsAreTrue
    PolicyRespected
    PlanIsKept
CHECK_DEADLOCK FALSE
