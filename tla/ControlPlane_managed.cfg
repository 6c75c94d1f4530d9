\* The managed runtime: three releases, so that a rollback happens, a crash and every readback.
SPECIFICATION Spec
CONSTANTS
    None = None
    Actors = {a1, a2}
    ModuleSets = {m1, m2}
    Previews = {p1, p2, p3}
    PublishKeys = {k1, k2, k3}
    ReconcileKeys = {q1}
    MaxReleases = 3
    HistoryWindow = 3
    Ttl = 1
    ReadbackOutcomes = {"verified", "mismatch"}
    ManagedBoots = {1, 2}
    ClockMayStepBack = FALSE
    MaxClock = 0
    MaxBoot = 2
SYMMETRY PlaneSymmetry
CHECK_DEADLOCK FALSE
INVARIANTS GateServesVerified GateAgrees NoInternalFatal IdleIsSettled
PROPERTY ImplementsLine
