SPECIFICATION Spec
CONSTANTS
    Conversations = {"long", "short"}
    None = none
    MaxEntries <- MCMaxEntries
    Refusable <- MCRefusable
    BatchSize = 1
    MaxFlushes = 1
INVARIANTS
    PendingIsOnDisk
    AckedIsMirrored
    OwnEntriesOnly
    ParentsFirst
CHECK_DEADLOCK FALSE
