SPECIFICATION FunctionsSpec
CONSTANTS
    Letters = {"a", "b", "v", "geo", "t", "from"}
    Digits = {"1", "2", "3", "4", "5"}
    Wide = {"wide"}
    MaxU64 = 20
    Nanos = 2
    Addresses <- MCAddresses
    Builtin <- MCBuiltin
    NetConfs <- MCNetConfs
    NoConf = NoConf
    Invalid = Invalid
    Unbuilt = Unbuilt
    MaxI64 = 7
    Bits = 3
    Garbage = Garbage
    Fragments <- MCFragments
    MaxFragments = 5
    Params <- MCParams
    Providers <- MCProviders
    MaxSeconds = 12
INVARIANTS PlaceholdersBindTheirNames RoutedTextKeepsItsTable LabelsServeABucket ValuesKeepTheirMeaning RangesMatchBlocks OneAnswerPerHost BuiltinStayInside
CHECK_DEADLOCK FALSE
