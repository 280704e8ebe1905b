SPECIFICATION Spec
CONSTANTS
    NoPrincipal = NoPrincipal
    Hours = 1
    Half = 1
    Weekdays = {1, 2}
    Users = {u1, u2}
    Templates <- TemplatesTwo
    Plans <- PlansCrossed
INVARIANTS
    SubmissionsGoToThePlan
CHECK_DEADLOCK FALSE
