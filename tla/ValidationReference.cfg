SPECIFICATION Spec
CONSTANTS
    NoPrincipal = NoPrincipal
    MaxTime = 4
    MaxShifts = 3
    MaxItems = 2
    People = {u1, u2, u3}
    Days = {1, 2}
    Need = 2
    Hours = 7
    Half = 2
    Weekdays = {1, 2}
INVARIANTS
    TimesDecidedExactly
    AcceptedResultIsARoster
    SeedsAreValid
CHECK_DEADLOCK FALSE
