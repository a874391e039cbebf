SPECIFICATION Spec
CONSTANTS
    Users = {u1, u2}
    Googles = {g1, g2}
    Requests = {r1, r2}
    Ids = {m1}
    Events = {e1, e2}
    None = None
SYMMETRY Symmetry
INVARIANTS
    AccountsApart
    MeetHasEvent
    QuietInStep
