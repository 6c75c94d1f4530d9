SPECIFICATION Spec
CONSTANTS
    None = None
    olga = olga
    carl = carl
    booking = booking
    customs = customs
    Users <- MCUsers
    Owner = olga
    Nodes <- MCNodes
    SharedNodes = {booking}
    DocumentNodes = {customs}
    Routings <- MCRoutings
    ResolutionLimit = 1
    MaxVersion = 6
CHECK_DEADLOCK FALSE
CONSTRAINT Early
INVARIANTS ScopeDecidesNodes NoticesOfNow
PROPERTY ClosedStaysClosed
