SPECIFICATION FairSpec
CONSTANTS
    r1 = r1 r2 = r2 r3 = r3 k1 = k1 k2 = k2
    None = None
    Req = {r1, r2, r3}
    Keys = {k1, k2}
    Key <- RetryKey
    Amount <- RetryAmount
    Sent <- RetrySent
    Charged <- RetryCharged
    Kind <- RetryBesidePayout
    Limit = 2
    MaxChecks = 2
    Env = {"expiry", "lost_reply"}
INVARIANTS
    TypeOK
    OneChargePerKey
    SameAnswerPerKey
    LedgerExplainsBudget
    RequestedAfterStep
PROPERTIES
    OpenPayoutDecided
    RejectionCompensated
    ImplementsMandate
CHECK_DEADLOCK FALSE
