SPECIFICATION CacheSpec
CONSTANTS
    Ids = {p1, p2}
    Queries = {q1}
    Names = {n1}
    Requests = {r1, r2}
    MaxContent = 1
    MaxTasks = 1
    Faults = TRUE
    None = None
    Orgs = {o1, o2}
    People = {u1, u2}
    OrgRequests = {h1, h2}
    MaxWrites = 2
    Nothing = Nothing
INVARIANTS
    CalmCacheIsFresh
    OrderlyReadsAreFresh
PROPERTIES
    CacheCatchesUp
CHECK_DEADLOCK FALSE
