SPECIFICATION Spec
CONSTANTS
    Requests = {r1, r2}
    Users = {u1}
    Plans = {s1}
    NumItems = 1
    Keys <- SubmissionKeys
    Parents <- SubmissionParents
    ParentsOf <- SubmissionParentsOf
INVARIANTS
    AtMostOneRecord
CHECK_DEADLOCK FALSE
