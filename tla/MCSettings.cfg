SPECIFICATION Spec
CONSTANTS
    p1 = p1
    p2 = p2
    None = None
    Profiles = {p1, p2}
    Temps = {4000, 5000, 6000}
    DefaultTemp = 5000
    TempOf <- MCTempOf
    MaxOps = 4
INVARIANTS
    TypeOK
    Coherent
    AskedFor
    Reopened
    NothingHeld
CHECK_DEADLOCK FALSE
