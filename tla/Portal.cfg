\* A case from the inquiry to the order, notices of a node that moves on, an
\* organization with its tenant, its members, what it is granted, a query for
\* schedules, the move to PostgreSQL, and the shared state there.
SPECIFICATION PortalSpec
CONSTANTS
    NoDocument = NoDocument
    Documents = {d1}
    Exports = {e1, e2}
    ReviewTtl = 1
    MaxCase = 4
    MaxRelease = 1
    MaxQuote = 2
    MaxTemplate = 1
    MaxDocument = 4
    MaxOffer = 2
    MaxRestarts = 1
    LastDay = 1
    None = None
    olga = olga
    carl = carl
    customs = customs
    w1 = w1
    Users = {olga, carl}
    Owner = olga
    Nodes = {customs}
    SharedNodes = {}
    DocumentNodes = {customs}
    Routings <- MCRoutings
    ResolutionLimit = 0
    MaxVersion = 2
    Workers = {w1}
    AttemptLimit = 1
    MaxCrashes = 0
    Calls = {c1, c2}
    CreateKey = k0
    Suspensions = {s1, s2}
    Activations = {a1}
    o1 = o1
    Persons = {o1, o2}
    Founder = o1
    i1 = i1
    Invitations = {i1, i2}
    t1 = t1
    Tools = {t1, t2}
    MaxRequest = 7
    MaxRounds = 2
    LastDeparture = 5
    WindowDays = 2
    m1 = m1
    m2 = m2
    Migrators = {m1, m2}
    MovedTenants = {f1}
    MovedClients = {f2}
    MovedCredentials = {f3}
    LastSecond = 1
    MaxChanges = 2
    MaxRuns = 2
    Replicas = {p1, p2}
    ChangeKeys = {y1, y2}
    MaxWorkers = 2
SYMMETRY ExportSymmetry
CHECK_DEADLOCK FALSE
CONSTRAINTS NodesOnly CaseOrDocument MigrateInTurn
INVARIANTS HalfDoneCanResume EachChangeOnce OnePdfPerRevision AcceptedIsConfirmed SuccessIsWhole MigrationKeepsAll
PROPERTIES OwnerRemains AdmittedHaveRight ApprovedAsReviewed OrdersAreCurrent NothingStaleIsSent
