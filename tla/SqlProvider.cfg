SPECIFICATION Spec
CONSTANTS
    Tasks = {t1, t2}
    Queries = {star, named}
    Starred = {star}
    Plans <- MCPlans
    PoolSize = 1
    SessionSize = 1
    NamesCap = 1
    MaxGeneration = 2
    MaxVersion = 1
INVARIANTS RowsLabelledInGeneration SessionOnEveryQuery PoolsInv NoCancelledAnswer
SYMMETRY TasksAlike
