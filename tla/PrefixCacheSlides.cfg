SPECIFICATION Spec
CONSTANTS
    Callers = {c1, c2}
    Tokens = {a, b}
    MaxPrompt = 3
    MaxNew = 2
    Window = 3
    Slides = TRUE
    CanTruncate = TRUE
    Kinds = {"stream", "raw", "embed", "reset"}
    FailingKinds = {}
    MayPanic = FALSE
    NoCaller = NoCaller
SYMMETRY Symmetry
INVARIANTS ReuseIsInvisible
