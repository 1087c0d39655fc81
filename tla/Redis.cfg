SPECIFICATION Spec
CONSTANTS
    k = k
    a = a
    passwords = passwords
    members = members
    names = names
    page = page
    live = live
    u1 = u1
    u2 = u2
    Callers = {c1}
    Loaders = {l1, l2}
    Words = {k, a}
    NoWord = NoWord
    Questions <- Asked
    Changing <- OneItem
    Services = {passwords, members, names, page, live}
    NoService = NoService
    Confs <- AllConfs
    Urls = {u1, u2}
    NoUrl = NoUrl
    MaxGeneration = 2
    MaxVersion = 1
SYMMETRY Symmetry
INVARIANTS AnswerOfThisGeneration DisabledBypassesCache AnswerFitsQuestion ServicesInv
PROPERTY PoolIsStable
