SPECIFICATION Spec
CONSTANTS
    Calls = {read, write1, write2, write3, write4, forbidden}
    Mutations = {write1, write2, write3, write4, forbidden}
    Refused = {forbidden}
    MaxSteps = 4
    MaxToolCalls = 6
    MaxMutations = 3
    MaxBatch = 3
INVARIANTS
    BoundedWork
    AtMostOnce
    MutationBudget
PROPERTIES
    Terminates
