SPECIFICATION Spec
CONSTANTS
    Loaders = {l1}
    Readers = {r1}
    geo = geo
    dflt = dflt
    Names <- MCNames
    Default = dflt
    NoName = NoName
    Plans <- AllPlans
    MaxGeneration = 3
INVARIANTS CurrentGenerationLinearizable
PROPERTIES DefaultOnlyGetsYounger LoadEstablishesConfiguration
