SPECIFICATION Spec
CONSTANTS
    Runs = {ann, bob}
    Links = {k1, k2}
    None = none
    Windows = {w1}
    Squeezed = squeezed
    Chunks = 2
    MaxFrames = 2
    MaxSpawned = 2
INVARIANTS
    SocketIsServed
    OneStartPerRun
    EndsAreTold
PROPERTIES
    NoGap
    NoTakeBack
    EndIsTrue
SYMMETRY Sym
CHECK_DEADLOCK FALSE
