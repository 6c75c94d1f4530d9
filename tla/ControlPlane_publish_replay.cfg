\* A completed publish is repeated after its release was superseded.
SPECIFICATION Spec
CONSTANTS
    None = None
    Actors = {a1, a2}
    ModuleSets = {m1}
    Previews = {p1, p2}
    PublishKeys = {k1, k2}
    ReconcileKeys = {}
    MaxReleases = 2
    HistoryWindow = 2
    Ttl = 1
    ReadbackOutcomes = {"verified"}
    ManagedBoots = {1}
    ClockMayStepBack = FALSE
    MaxClock = 0
    MaxBoot = 1
SYMMETRY PlaneSymmetry
CHECK_DEADLOCK FALSE
INVARIANT CompletedPublishReplays
