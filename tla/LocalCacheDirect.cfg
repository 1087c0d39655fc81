SPECIFICATION Spec
CONSTANTS
    a = a
    b = b
    c = c
    d = d
    null = null
    NoKey = NoKey
    Scopes = {s1}
    Prepared = {}
    Params <- DirectParams
    InternKey <- DirectInternKey
    Arities = {2}
    MaxLocalIdx = 3
    Capacity = 3
    MaxGeneration = 1
INVARIANT DirectAnswerMatchesCall
