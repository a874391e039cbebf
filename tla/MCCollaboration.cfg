SPECIFICATION Spec
CONSTANTS
    Keys = {k1, k2}
    Uploads = {f1, f2}
    Disks = {d1, d2}
    NoKey = NoKey
    TeamIds = {t1, t2}
    Names = {n1, n2}
    People = {p1, p2}
    TeamRequests = {q1, q2}
    Nothing = Nothing
    Users = {u1, u2}
    Moderators = {u2}
    CommentIds = {c1}
    Texts = {x1, x2}
    CommentRequests = {r1, r2}
    Sockets = {s1}
    Servers = {v1, v2}
    Nobody = Nobody
    Bodies = {b1, b2}
    Writers = {w1, w2}
    MaxLegacy = 1
    MaxLogs = 4
    Fetch = 3
SYMMETRY Symmetry
INVARIANTS
    FilesMatchRows
    TeamsAsAsked
    EventsAreTrue
    QuietEvents
    UntouchedVerifies
    TamperingIsFound
