\* Two accounts, two requests at a time, three commits.
SPECIFICATION Spec
CONSTANTS
    Emails = {a, b}
    Requests = {r1, r2}
    KeyIds = {k1, k2}
    MaxPasskeys = 1
    EnvAdmin = a
    Patches <- MCPatches
    NoRow = NoRow
    NoKey = NoKey
    Free = Free
    MaxCommits = 3
SYMMETRY Symmetry
INVARIANTS
    TypeOK
    OnlyAMisjudgedDeleteTakesTheLastAdmin
    EndedStaysEnded
    ClearedKeysStayGone
    WithinThePasskeyLimit
PROPERTIES
    NoChangeIsLost
    SignInIsForTheAccountAsItIs
\* The bound on commits stops the requests.
CHECK_DEADLOCK FALSE
