SPECIFICATION Spec
CONSTANTS
    NoPrincipal = NoPrincipal
    Undefined = Undefined
    s1 = s1
    s2 = s2
    a1 = a1
    a2 = a2
    Users = {s1, s2, a1, a2}
    FairnessWeight = 1
    Unit = 144
    Inputs <- AllInputs
INVARIANTS
    TypeOK
    GenesWellFormed
    BestIsWhatWasMeasured
    GeneratedIsARoster
PROPERTIES
    ElitesLostOnlyAsParents
CHECK_DEADLOCK FALSE
