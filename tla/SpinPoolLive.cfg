SPECIFICATION FairSpec
CONSTANTS
    Workers = {w1}
    Publishers = {p1, p2}
    MaxChunks = 2
    MaxRuns = 2
    BlockOverride = 0
    StaleRecheck = TRUE
    NoThread = NoThread
PROPERTY RunReturns
