SPECIFICATION MCSpec
CONSTANTS
    small = small
    large = large
    r1 = r1
    r2 = r2
    r3 = r3
    Requests = {r1, r2, r3}
    Models = {small, large}
    Bytes <- MCBytes
    MaxModels = 2
    Budget = 3
    Permits = 1
    Kinds = {"audio", "vision"}
    NoRequest = NoRequest
    Jobs = {j1, j2, j3}
    BATCH = 2
    WORDS = 4
    Turns = {t1, t2, t3}
    RESETS = 1
    NoTurn = NoTurn
    Servers = {s1, s2, s3, s4}
    NoServer = NoServer
    Callers = {c1, c2}
    TICK = 2
    CORES = 3
    ENDTIME = 4
    b1 = b1
    b2 = b2
    b3 = b3
    b4 = b4
    Buffers = {b1, b2, b3, b4}
    SizeOfBuf <- MCSizes
    CAPACITY = 3
    MAXTIME = 3
    NoBuffer = NoBuffer
    WGSIZE = 4
    PASSES = 2
    LANES = 4
    ROWS = 2
    MT = 2
    WG = 8
    LAYERS = 2
    WINDOW = 2
    PATTERN = 2
    KVCTX = 3
    PREFILL = 2
    CHUNK = 4
    FEEDS = 5
    Loaders = {p1}
    SHARDS = 2
    WORKERS = 1
    RETRIES = 1
    OUTAGES = 1
    KILLS = 1
    CLEANUPS = 1
    NoGetter = NoGetter
    UPDATES = 2
    MatmulCalls <- MCCalls
    Binaries <- MCBinaries
    EngineModels <- MCEngineModels
    RESERVE = 2
INVARIANTS
    CacheSound OneCopy
    SpeaksTheReply HistoryOfWholeTurns OneServer SampledInTime
    PoolSound ReductionsExact
    KernelsAccumulate PlansWriteEachCellOnce TensorsLineUp WeightsAreTheCheckpoint EngineIsAsAsked
    GraphsCompute ModelsAreKnown ModelIsWhole UpdateIsWhole
    EnginesComputeTheDecoder
PROPERTIES EveryoneIsAnswered ExecutedInOrder QueueDrains EngineKeepsPromise
