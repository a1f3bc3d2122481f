SPECIFICATION Spec
CONSTANTS
    Agents = {"detached", "inline", "call", "child"}
    Resumed = {"inline"}
    MaxGroups = 1
    Kind <- MCKind
    Owner <- MCOwner
    Isolated = {"detached"}
    Limits = {1}
    ForegroundLimits = {1, 2}
    MaxRuns <- MCMaxRuns
CONSTRAINT
    CallOrChild
INVARIANTS
    SlotsAreHeld
    NobodyIsStranded
    GatesOpen
    ResultsAreHeld
CHECK_DEADLOCK FALSE
