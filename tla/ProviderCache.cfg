SPECIFICATION FairSpec
CONSTANTS
    Callers = {c1, c2}
    SharedKeys = {editor}
    ProfiledKeys = {agent}
    Joined = {agent}
    Timeouts = {short, long}
    Engines = {"tunnelled", "file"}
    Providers = {p1, p2}
    Forwards = {f1, f2}
    NoKey = NoKey
    NoProvider = NoProvider
    NoForward = NoForward
    Faults = {"forward", "drop", "create", "connect"}
    MaxRequests = 3
INVARIANTS
    NothingOrphaned
    NoForwardStranded
    PoolHoldsLiveForwards
PROPERTIES
    SweepSparesTheBusy
    EveryProviderCloses
CHECK_DEADLOCK FALSE
