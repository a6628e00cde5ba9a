\* Two steps and three moves, so a drive could go on after a stop, against a
\* process death.
SPECIFICATION FairSpec
CONSTANTS
    Drives = {d1, d2}
    Clients = {c1}
    Steps = {s1, s2}
    NoDrive = NoDrive
    NoStep = NoStep
    Stores <- OwnStores
    StoreOf <- OwnStoresOf
    Ops = {"cancel"}
    Faults = {}
    MaxMoves = 3
    MaxCalls = 1
    MaxCrashes = 1
INVARIANTS
    StepsPerformedOnce
    NoRepeatAfterRestart
    StopIsHonoured
PROPERTY RunEnds
\* A run that has ended takes no further step.
CHECK_DEADLOCK FALSE
