\* Two sessions that press Begin at once.
SPECIFICATION Spec
CONSTANTS
    Users = {u1, u2}
    Requests = {r1, r2}
    Expiry = Expiry
    p1 = p1
    p2 = p2
    Providers <- OneProvider
    Conns <- OnePool
    NoUser = NoUser
    NoConn = NoConn
    Ops = {"begin", "commit"}
    Faults = {}
    MaxTx = 2
INVARIANT EscapeHatch
CHECK_DEADLOCK FALSE
