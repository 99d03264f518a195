SPECIFICATION FairSpec
CONSTANTS
    Threads = {t1, t2}
    Handles = {h1, h2}
    NoHandle = NoHandle
    MaxIdle = 1
    Objects = {c1, c2}
    NoObject = NoObject
    Requests <- PlainRequest
    Configs <- OneConfig
    RacingClose = TRUE
    MaxCalls = 2
PROPERTIES
    ClosingCompletes
