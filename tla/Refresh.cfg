SPECIFICATION FairSpec
CONSTANTS
    users = users
    idle = idle
    Tables <- MCTables
    Specs <- MCSpecs
    Capacity = 2
    MaxVersion = 3
INVARIANT RefreshInv
PROPERTIES StoreNeverGoesBack StoreFollowsSource HostFollowsSource ShutdownCloses
CHECK_DEADLOCK FALSE
