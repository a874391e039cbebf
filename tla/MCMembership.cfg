SPECIFICATION Spec
CONSTANTS
    Users = {u1, u2}
    Orgs = {o1, o2}
    Invs = {i1, i2}
    Requests = {r1, r2}
    AssignableRoles = {"MEMBER"}
    MaxToken = 2
    None = None
SYMMETRY Symmetry
INVARIANTS
    SingleOrganization
    OwnerPinned
    MembersWereInvited
    DeletedIsEmpty
PROPERTIES
    JoiningAccepts
CHECK_DEADLOCK FALSE
