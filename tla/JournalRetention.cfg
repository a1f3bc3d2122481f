SPECIFICATION FairSpec
CONSTANTS
    Journals = {"a", "b"}
    Cleanups = {"one"}
    MaxAge = 1
    SavedAge = 2
PROPERTIES
    UnsentOutlivesCleanup
    AbandonedIsRemoved
