SPECIFICATION FairSpec
CONSTANTS
    Utterances = 3
    EnterFrames = 2
    HangFrames = 1
    MinFrames = 4
    MaxFrames = 6
    FeedEvery = 2
    Tolerance = 2
    MayBeQuiet = TRUE
    MayTimeOut = TRUE
INVARIANTS SnapshotsAccounted PunctualIsOwn
PROPERTIES SettleAnswered
