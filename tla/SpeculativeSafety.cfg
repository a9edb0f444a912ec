SPECIFICATION Spec
CONSTANTS
    a = a
    b = b
    Eos = Eos
    Tokens = {a, b, Eos}
    Stops <- MCStops
    MaxPrompt = 1
    MaxNew = 5
    K = 3
INVARIANTS CachesMatch InOwnContext ReplyWellCut
