SPECIFICATION Spec
CONSTANTS
    Workers = {w1, w2}
    Publishers = {p1, p2}
    MaxChunks = 3
    MaxRuns = 1
    BlockOverride = 2
    StaleRecheck = FALSE
    NoThread = NoThread
INVARIANTS NoTornCopy CtxLive NoLostWakeup
PROPERTIES ImplementsLoop
