SPECIFICATION FairSpec
CONSTANTS
    Threads = {t1, t2}
    Handles = {h1, h2, h3}
    NoHandle = NoHandle
    NoThread = NoThread
    NoFrame = NoFrame
    DeadFrame = DeadFrame
    MaxIdle = 1
    MaxCalls = 3
INVARIANTS
    HandleExclusive
    LiveAccounted
    PoolBounded
    HandlesBounded
    OptionsOwned
PROPERTIES
    ImplementsPool
    EveryCallReturns
    ClosedDrains
