SPECIFICATION RevocationSpec
CONSTANTS
    Tokens = {t1, t2}
    Instances = {i1, i2}
    Calls = {r1, r2}
    Bits = {1, 2}
    Indexes <- MCIndexes
    Lifetime = 2
    DefaultTtl = 3
    Absent = Absent
SYMMETRY Symmetry
INVARIANTS
    RevokedIsRefused
    OnlyRevokedAreRefused
