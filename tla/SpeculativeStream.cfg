SPECIFICATION Spec
CONSTANTS
    a = a
    b = b
    Eos = Eos
    Tokens = {a, b, Eos}
    Stops <- MCStops
    MaxPrompt = 1
    MaxNew = 4
    K = 2
INVARIANTS SentIsReply
