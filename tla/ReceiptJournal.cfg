SPECIFICATION Spec
CONSTANTS
    Ops = {"edit", "write"}
    Effect <- MCEffect
    Fences <- MCFences
    Results = {"r1", "r2"}
    NoResult = "none"
    MaxCursor = 1
    MaxRecords = 2
    CompactEvery = 2
    Faults = {"append", "unlink", "result"}
INVARIANTS
    Durable
    ResultKept
    Reopens
PROPERTIES
    LedgerSpec
