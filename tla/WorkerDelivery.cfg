SPECIFICATION FairSpec
CONSTANTS
    Ops <- MCOps
    Effect <- MCEffect
    MaxFence = 1
PROPERTIES
    SavedResultSettles
