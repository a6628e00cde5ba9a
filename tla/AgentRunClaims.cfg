\* Each drive over its own store, against pauses, resumes and cancels.
SPECIFICATION Spec
CONSTANTS
    Drives = {d1, d2}
    Clients = {c1}
    Steps = {s1}
    NoDrive = NoDrive
    NoStep = NoStep
    Stores <- OwnStores
    StoreOf <- OwnStoresOf
    Ops = {"pause", "resume", "cancel"}
    Faults = {"prepare"}
    MaxMoves = 2
    MaxCalls = 1
    MaxCrashes = 0
SYMMETRY Symmetry
INVARIANTS
    TypeOK
    OneDriverUnlessClaimsCross
    QueuedIsUntouched
PROPERTY ImplementsContract
\* A run that has ended takes no further step.
CHECK_DEADLOCK FALSE
