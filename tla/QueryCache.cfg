SPECIFICATION QuerySpec
CONSTANTS
    Loaders = {l1}
    Readers = {}
    Callers = {c1, c2}
    Queries = {q1}
    geo = geo
    dflt = dflt
    Names <- MCNames
    Default = dflt
    NoName = NoName
    Plans <- MCPlans
    Configs <- MCConfigs
    MaxGeneration = 2
SYMMETRY CallerSymmetry
INVARIANTS QueryTypeOK CacheHonest ConfigurationSettles
PROPERTY CacheTransparent
