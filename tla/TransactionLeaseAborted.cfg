\* One session that goes on to commit after a statement failed.
SPECIFICATION Spec
CONSTANTS
    Users = {u1}
    Requests = {r1}
    Expiry = Expiry
    p1 = p1
    p2 = p2
    Providers <- OneProvider
    Conns <- OnePool
    NoUser = NoUser
    NoConn = NoConn
    Ops = {"begin", "query", "commit"}
    Faults = {"query"}
    MaxTx = 1
INVARIANT CommittedMeansCommitted
CHECK_DEADLOCK FALSE
