\* Two sessions whose requests overlap: what is refused or awaited ends.  A
\* rollback takes the same steps as a commit, which stands for both.
SPECIFICATION FairSpec
CONSTANTS
    Users = {u1, u2}
    Requests = {r1, r2}
    Expiry = Expiry
    p1 = p1
    p2 = p2
    Providers <- OneProvider
    Conns <- OnePool
    NoUser = NoUser
    NoConn = NoConn
    Ops = {"begin", "commit", "query", "status"}
    Faults = {"begin", "end", "query", "disconnect"}
    MaxTx = 2
PROPERTIES
    RefusalLifts
    DisconnectEnds
