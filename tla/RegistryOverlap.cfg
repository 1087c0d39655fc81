SPECIFICATION Spec
CONSTANTS
    Loaders = {l1, l2}
    Readers = {r1}
    geo = geo
    dflt = dflt
    Names <- MCNames
    Default = dflt
    NoName = NoName
    Plans <- ReloadPlans
    MaxGeneration = 2
INVARIANT GenerationIsCurrent
