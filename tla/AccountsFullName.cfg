SPECIFICATION Spec
CONSTANTS
    admin = admin
    ann = ann
    a1 = a1
    e1 = e1
    e2 = e2
    s1 = s1
    s2 = s2
    w1 = w1
    w2 = w2
    NoRow = NoRow
    NoCode = NoCode
    Names = {admin, ann}
    Emails = {a1, e1, e2}
    FullNames = {s1, s2}
    Passwords = {w1, w2}
    Admin = admin
    FirstAdmin <- MCFirstAdmin
    Requests = {r1, r2, r3}
    Calls <- NameCalls
SYMMETRY Symmetry
PROPERTIES
    EditsAreStored
CHECK_DEADLOCK FALSE
