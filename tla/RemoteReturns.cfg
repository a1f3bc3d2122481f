SPECIFICATION FairSpec
CONSTANTS
    Runs = {ann}
    Links = {k1, k2}
    None = none
    Windows = {w1, w2}
    Squeezed = squeezed
    Chunks = 0
    MaxFrames = 2
    MaxSpawned = 1
INVARIANTS
    WindowSettles
PROPERTIES
    ComesBack
CHECK_DEADLOCK FALSE
