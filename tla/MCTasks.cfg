SPECIFICATION Spec
CONSTANTS
    Users = {u1, u2}
    Tasks = {t1}
    Requests = {r1, r2}
    Asked = {"DONE", "CANCELLED"}
    MaxId = 3
    None = None
SYMMETRY Symmetry
INVARIANTS
    PrimaryIsAssignee
    SoloAlertedOnce
PROPERTIES
    SoloStatus
CHECK_DEADLOCK FALSE
