SPECIFICATION FairSpec
CONSTANTS
    Tasks = {t1, t2}
    Pruners = {maintain, command}
    maintain = maintain
INVARIANT
    HalfOnlyIfStray
PROPERTIES
    LostOnlyToARace
    CommitsKept
    IdleIsForgotten
