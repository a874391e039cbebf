SPECIFICATION SafeSpec
CONSTANTS
    o1 = o1
    Jobs = {j1, j2}
    Attempts = 2
    MaxStalls = 1
    MaxFaults = 2
    Orgs = {o1, o2}
    Entities = {e1, e2}
    Logs = {e2}
    Recent = 1
    Home <- MCHome
    MaxChunks = 2
    MaxVersion = 2
    Nobody = Nobody
    BatchSize = 1
SYMMETRY JobSymmetry
CONSTRAINT LogsWhenQuiet
INVARIANTS
    Isolation
    QuietIndex
    Delivered
PROPERTIES
    StaysFindable
    UnreadStays
CHECK_DEADLOCK FALSE
