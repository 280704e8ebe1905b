SPECIFICATION Spec
CONSTANTS
    Requests = {r1, r2, r3}
    Users = {u1, u2}
    Plans = {s1}
    NumItems = 1
    Keys <- SubmissionKeys
    Parents <- SubmissionParents
    ParentsOf <- SubmissionParentsOf
SYMMETRY Symmetry
INVARIANTS
    TypeOK
    StoredWhole
    ReferentialIntegrity
    ExactSurvivors
    IInv
PROPERTIES
    NeverVanishes
    ImplementsKeyedStore
CHECK_DEADLOCK FALSE
