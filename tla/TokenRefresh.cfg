SPECIFICATION FairSpec
CONSTANTS
    Tasks = {"one","two","other"}
    Processes = {"p", "q"}
    Host <- MCHost
    Workspaces = {"dev", "prod"}
    Attempts = 2
    MaxLogins = 2
    MaxBegun = 2
    Free = Free
    Nowhere = Nowhere
INVARIANTS
    ReuseNeedsALoss
PROPERTIES
    ReturnsNewest
    StoreFollowsLogin
    EveryTaskEnds
CHECK_DEADLOCK FALSE
