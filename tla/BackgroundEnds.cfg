SPECIFICATION FairSpec
CONSTANTS
    Ops = {one, other}
    Kinds = {"gc"}
    DaemonKinds = {"piped", "closed"}
    MayBeLost = TRUE
    OrderlyStarts = TRUE
    Chatty = FALSE
    StreamCap = 0
    MaxLives = 1
PROPERTIES
    DeadlineHolds
    Reclaimed
CHECK_DEADLOCK FALSE
