SPECIFICATION Spec
CONSTANTS
    None = None
    x1 = x1
    Exchanges = {e1, e2, e3}
    Credentials = {x1}
    BucketsOf <- OneBucket
    Store = "sqlite"
    Limit = 1
    Expiry = 2
    MaxTime = 1
CHECK_DEADLOCK FALSE
INVARIANT WithinLimit
