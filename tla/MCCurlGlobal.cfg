SPECIFICATION FairProcessSpec
CONSTANTS
    Threads = {t1, t2, t3}
    NoClient = NoClient
    Clients = {c1, c2, c3}
    Static = {c1, c2}
    Cleanup = Cleanup
    MaxFailures = 2
INVARIANTS
    InitialisedOnce
    CleanupComesLast
PROPERTIES
    ConstructorsReturn
