SPECIFICATION Spec
CONSTANTS
    Runs = {r1, r2}
    Calls = {c1, c2}
    MaxConcurrent = 1
    MaxStatements = 2
    Cap = 2
    TTL = 1
    MaxTime = 1
    MaxDrives = 3
    MaxRestarts = 1
    MaxBegun = 3
SYMMETRY Symmetry
INVARIANTS TypeOK ActiveIsTheCount WithinConcurrency CeilingKept NothingOutlives
PROPERTIES EvidenceKept
CHECK_DEADLOCK FALSE
