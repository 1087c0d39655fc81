SPECIFICATION Spec
CONSTANTS
    users = users
    nets = nets
    Writers = {w1}
    Threads = {x1}
    Tables <- TwoTables
    Parts = 2
    MaxVersion = 2
    MaxGeneration = 2
INVARIANT FailedLoadKeepsData
