SPECIFICATION Spec
CONSTANTS
    o1 = o1
    Jobs = {j1, j2}
    Attempts = 2
    MaxStalls = 1
    MaxFaults = 1
    Orgs = {o1}
    Entities = {e1, e2}
    Logs = {e2}
    Recent = 1
    Home <- MCHome
    MaxChunks = 1
    MaxVersion = 1
    Nobody = Nobody
    BatchSize = 1
PROPERTIES
    KeepsPromise
CHECK_DEADLOCK FALSE
