SPECIFICATION Spec
CONSTANTS
    a = a
    b = b
    c = c
    d = d
    null = null
    NoKey = NoKey
    Scopes = {s1, s2}
    Prepared = {s1, s2}
    Params <- MCParams
    InternKey <- MCInternKey
    Arities = {2}
    MaxLocalIdx = 2
    Capacity = 2
    MaxGeneration = 2
INVARIANTS CacheInv AnswerMatchesCall AnswerIsFresh
