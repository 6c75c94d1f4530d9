SPECIFICATION Spec
CONSTANTS
    k1 = k1
    k2 = k2
    None = None
    Tenants = {t1}
    Clients = {c1}
    Credentials = {x1, x2, x3}
    Keys = {k1, k2}
    Calls = {a1, a2}
    Lifetime = 1
    MaxTime = 1
    MaxEvents = 5
SYMMETRY AccessSymmetry
CHECK_DEADLOCK FALSE
CONSTRAINT SecondKeyMints
INVARIANTS LinesHaveOneHead OffersAreAccepted
