SPECIFICATION Spec
CONSTANTS
    None = None
    x1 = x1
    Exchanges = {e1, e2}
    Credentials = {x1}
    BucketsOf <- TwoBuckets
    Store = "postgres"
    Limit = 1
    Expiry = 2
    MaxTime = 2
CHECK_DEADLOCK FALSE
INVARIANTS WithinLimit LateGetNoToken
PROPERTY EveryExchangeEnds
