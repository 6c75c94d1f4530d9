\* A started operation goes on and the process is restarted: three managed boots, a clock
\* that goes on, and a last boot that is an assembly over the store as a crash left it.
SPECIFICATION FairSpec
CONSTANTS
    None = None
    Actors = {a1, a2}
    ModuleSets = {m1}
    Previews = {p1}
    PublishKeys = {k1, k2}
    ReconcileKeys = {q1, q2}
    MaxReleases = 1
    HistoryWindow = 2
    Ttl = 1
    ReadbackOutcomes = {"verified", "unknown"}
    ManagedBoots = {1, 2, 3}
    ClockMayStepBack = FALSE
    MaxClock = 1
    MaxBoot = 4
CHECK_DEADLOCK FALSE
PROPERTY ClaimsAreFinalized
