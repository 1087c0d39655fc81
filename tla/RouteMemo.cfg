SPECIFICATION RouteSpec
CONSTANTS
    Loaders = {l1, l2}
    Readers = {}
    Routers = {t1, t2}
    geo = geo
    dflt = dflt
    geoSql = geoSql
    plainSql = plainSql
    Names <- MCNames
    Default = dflt
    NoName = NoName
    Plans <- MCPlans
    Sqls <- MCSqls
    FirstSegment <- MCFirstSegment
    MemoCap = 1
    MaxGeneration = 2
SYMMETRY ActorSymmetry
INVARIANTS TypeOK GenerationIdentifiesHandle ReloadsAccounted
    MemoFresh RouteLinearizable MemoWithinCap
