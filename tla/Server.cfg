\* The parts of the MCP server, each on an instance of its own.
SPECIFICATION ServerSpec
CONSTANTS
    None = None
    MaxTime = 2
    Openers = {x1, x2}
    Users = {user}
    Identities = {y1, y2}
    TokenEnds = {2}
    MaxSessions = 1
    IdleTtl = 1
    MaxLifetime = 1
    MaxTokenLifetime = 2
    Calls = {x1, x2, z}
    Keys = {key}
    Payloads = {y1, y2}
    KeyTtl = 2
    CallTimeout = 1
    MaxStops = 1
    Bodies <- MCBodies
    MaxRevision = 3
    ProviderCalls = {x1, x2}
    MaxDeaths = 1
    Actors = {x1, x2}
    RateRequests = {y1, y2}
    PreviewTtl = 1
    MaxPreviews = 3
    MaxCrashes = 1
    Initializers = {x1, x2, z}
    NoFile = None
    MaxAttempts = 3
SYMMETRY ServerSymmetry
CHECK_DEADLOCK FALSE
CONSTRAINT OneGivenUp
INVARIANTS RegistryIsExact InitializerSettles
INVARIANTS OneSavePerReservation AnswersAreTrue
INVARIANTS InFlightKeepsProvider RestIsSettled RatesRunOnWhatIsServed
PROPERTY NeverRollsBack
