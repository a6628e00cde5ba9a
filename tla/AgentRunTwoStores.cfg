\* Each drive over its own store, as getAgentRunService builds them.
SPECIFICATION Spec
CONSTANTS
    Drives = {d1, d2}
    Clients = {c1}
    Steps = {s1}
    NoDrive = NoDrive
    NoStep = NoStep
    Stores <- OwnStores
    StoreOf <- OwnStoresOf
    Ops = {}
    Faults = {}
    MaxMoves = 0
    MaxCalls = 2
    MaxCrashes = 0
INVARIANT OneDriver
\* A run that has ended takes no further step.
CHECK_DEADLOCK FALSE
