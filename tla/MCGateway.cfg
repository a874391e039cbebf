SPECIFICATION GatewaySpec
CONSTANTS
    Clients = {c1}
    Hits = {h1, h2}
    Window = 2
    MaxRequests = 2
    Secrets = {s1, s2, s3}
    Operations = {o1, o2}
    NoSecret = NoSecret
INVARIANTS
    WindowBound
    EnabledIsProven
PROPERTIES
    BlockEnds
