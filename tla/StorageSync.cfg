SPECIFICATION FairSpec
CONSTANTS
    a = a
    b = b
    Colls = {a, b}
    Starts <- Meetings
    Flushes = {1, 2}
    MaxEdits = 2
    MaxFails = 2
    MaxMounts = 2
CONSTRAINT UpToARace
INVARIANTS TypeOK NothingForgotten PendingHasTimer NoTimerAfterTeardown
PROPERTIES CopiesMoveForward EditsArrive
CHECK_DEADLOCK FALSE
