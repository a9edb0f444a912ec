SPECIFICATION Spec
CONSTANTS
    small = small
    large = large
    Requests = {r1, r2, r3}
    Models = {small, large}
    Bytes <- MCBytes
    MaxModels = 2
    Budget = 3
    Permits = 1
    Kinds = {"vision", "speculative"}
    NoRequest = NoRequest
INVARIANTS InferencesBounded
