SPECIFICATION Spec
CONSTANTS
    Users = {u1}
    Ids = {s1, s2, s3}
    Requests = {r1, r2}
    Jobs = {j1}
    BatchSize = 2
    MaxEpoch = 1
    None = None
SYMMETRY Symmetry
INVARIANTS
    RotatedOnce
