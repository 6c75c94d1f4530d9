\* The process dies between the release and the claim of its readback.
SPECIFICATION FairSpec
CONSTANTS
    None = None
    Actors = {a1, a2}
    ModuleSets = {m1}
    Previews = {p1}
    PublishKeys = {k1}
    ReconcileKeys = {}
    MaxReleases = 1
    HistoryWindow = 2
    Ttl = 1
    ReadbackOutcomes = {"verified"}
    ManagedBoots = {1, 2}
    ClockMayStepBack = FALSE
    MaxClock = 1
    MaxBoot = 2
CHECK_DEADLOCK FALSE
PROPERTY PendingIsReadBack
