\* Two sessions whose requests overlap, over two providers of one connection,
\* against the timer, the lease and every failure.
SPECIFICATION Spec
CONSTANTS
    Users = {u1, u2}
    Requests = {r1, r2}
    Expiry = Expiry
    p1 = p1
    p2 = p2
    Providers <- TwoProviders
    Conns <- UnevenPools
    NoUser = NoUser
    NoConn = NoConn
    Ops = {"begin", "commit", "rollback", "query", "status"}
    Faults = {"begin", "end", "query", "disconnect"}
    MaxTx = 2
SYMMETRY SessionSymmetry
INVARIANTS
    OnlyTheOpener
    CommittedUnlessAborted
    NoLeakedLocks
    TimersAreOfThisTransaction
    EscapeHatchUnlessRaced
