SPECIFICATION Spec
CONSTANTS
    Callers = {c1, c2}
    Tokens = {a, b}
    MaxPrompt = 3
    MaxNew = 2
    Window = 5
    Slides = FALSE
    CanTruncate = TRUE
    Kinds = {"stream", "call", "raw", "embed", "reset"}
    FailingKinds = {"stream", "raw"}
    MayPanic = TRUE
    NoCaller = NoCaller
SYMMETRY Symmetry
INVARIANTS CacheIsRecorded ReuseIsSafe
