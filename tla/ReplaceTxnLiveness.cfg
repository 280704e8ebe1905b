SPECIFICATION FairSpec
CONSTANTS
    Requests = {r1, r2, r3}
    Users = {u1}
    Plans = {s1}
    NumItems = 0
    Keys <- SubmissionKeys
    Parents <- SubmissionParents
    ParentsOf <- SubmissionParentsOf
PROPERTIES
    EveryTransactionEnds
CHECK_DEADLOCK FALSE
