SPECIFICATION Spec
CONSTANTS
    Ops <- MCOps
    Effect <- MCEffect
    MaxFence = 2
INVARIANTS
    MutationRunsOnce
    RunsOncePerFence
PROPERTIES
    SavedUntilSettled
    LedgerSpec
