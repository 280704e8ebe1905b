SPECIFICATION Spec
CONSTANTS
    u1 = u1
    u2 = u2
    p1 = p1
    p2 = p2
    t1 = t1
    new = new
    NoPrincipal = NoPrincipal
    Absent = Absent
    Deleted = Deleted
    Users = {u1}
    Plans = {p1, p2}
    Templates = {t1}
    Names = {t1, new}
    Requests = {r1, r2}
    MaxTime = 2
    MaxEdits = 2
    ShiftsOf <- MCShiftsOf
    Windows <- TimesWindows
    Calls <- TimesCalls
SYMMETRY Symmetry
INVARIANTS
    PlansWellTimed
    NoLostEdit
PROPERTIES
    NoneStoredEarly
CHECK_DEADLOCK FALSE
