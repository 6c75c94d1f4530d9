\* The limits of attempts and of resolutions are the same, as in the code.
SPECIFICATION FairMailSpec
CONSTANTS
    None = None
    olga = olga
    carl = carl
    customs = customs
    w1 = w1
    w2 = w2
    Users = {olga}
    Owner = olga
    Nodes = {customs}
    SharedNodes = {}
    DocumentNodes = {}
    Routings <- MCInside
    ResolutionLimit = 2
    MaxVersion = 1
    Workers = {w1, w2}
    AttemptLimit = 2
    MaxCrashes = 1
CHECK_DEADLOCK FALSE
ACTION_CONSTRAINT SecondBehindExhausted
INVARIANTS NoUnaskedResend RecordedIsTheNewest
PROPERTIES PendingIsHandled
