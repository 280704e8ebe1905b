SPECIFICATION Spec
CONSTANTS
    u1 = u1
    u2 = u2
    p1 = p1
    p2 = p2
    t1 = t1
    new = new
    NoPrincipal = NoPrincipal
    Absent = Absent
    Deleted = Deleted
    Users = {u1, u2}
    Plans = {p1}
    Templates = {t1}
    Names = {t1, new}
    Requests = {r1, r2, r3}
    MaxTime = 0
    MaxEdits = 0
    ShiftsOf <- MCShiftsOf
    Windows <- OpenWindows
    Calls <- StaffCalls
SYMMETRY Symmetry
INVARIANTS
    TypeOK
    StoredFitsTemplate
    RosteredHaveSubmitted
    RosterWasOffered
    RosterIsWhatWasAccepted
    ReadsBackWhatWasAccepted
PROPERTIES
    ReadsOneSubmission
    ImplementsSubmissionStore
    ImplementsResultStore
CHECK_DEADLOCK FALSE
