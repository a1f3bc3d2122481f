SPECIFICATION Spec
CONSTANTS
    Ops = {one, other}
    Kinds = {"tail", "cancel", "remove"}
    DaemonKinds = {"piped"}
    MayBeLost = TRUE
    OrderlyStarts = TRUE
    Chatty = TRUE
    StreamCap = 2
    MaxLives = 1
SYMMETRY Alike
INVARIANTS
    TerminalIsFinal
    RemovalLeavesNoCommand
    OutputComplete
CHECK_DEADLOCK FALSE
