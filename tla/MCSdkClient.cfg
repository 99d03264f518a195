SPECIFICATION Spec
CONSTANTS
    Threads = {t1, t2, t3}
    Handles = {h1, h2, h3}
    NoHandle = NoHandle
    MaxIdle = 1
    Objects = {c1, c2}
    NoObject = NoObject
    Requests <- PlainRequest
    Configs <- OneConfig
    RacingClose = TRUE
    MaxCalls = 2
SYMMETRY Symmetry
INVARIANTS
    LateRequestsRefused
    ClosedClientHoldsNothing
