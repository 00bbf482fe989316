SPECIFICATION FairSpec
CONSTANTS
    s1 = s1 s2 = s2 hotel = hotel crm = crm m1 = m1 m2 = m2
    None = None
    Step = {s1, s2}
    Merchant = {crm}
    PaidTo <- OneShop
    WithPolicy = {}
    Refundable = {}
    Msg = {m1, m2}
    Fault <- Faults
    Threshold = 1
    DeliveryLimit = 1
    Env = {"crash"}
INVARIANTS
    RefundedOnce
    CompleteMeansJudged
PROPERTIES
    JudgedStaysJudged
    ImplementsPlan
    RequestHandled
CHECK_DEADLOCK FALSE
