SPECIFICATION Spec
CONSTANTS
    Users = {u1, u2}
    NoUser = NoUser
    Browsers = {b1}
    Requests = {r1, r2}
    MaxTokens = 3
    MaxEvents = 1
SYMMETRY Symmetric
INVARIANTS ChainHasOneHead NoFalseAlarm
PROPERTIES ClosedStaysClosed CloseIsComplete
CHECK_DEADLOCK FALSE
