SPECIFICATION Spec
CONSTANTS
    Threads = {t1, t2}
    Handles = {h1, h2}
    NoHandle = NoHandle
    MaxIdle = 1
    Objects = {c1, c2}
    NoObject = NoObject
    Requests <- AnyRequest
    Configs <- AnyConfig
    RacingClose = FALSE
    MaxCalls = 1
SYMMETRY Symmetry
INVARIANTS
    ClosedTransportSeenByRacersOnly
    RefusedBeforeSending
