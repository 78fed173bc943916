SPECIFICATION Spec
CONSTANTS
    Taxpayer = {t1, t2}
    Request = {r1, r2, r3}
    None = None
    MaxPairs = 2
    MaxClock = 1
    MaxCerts = 1
    MaxFailures = 1
INVARIANTS
    TypeOK
    OwnUnlessCrossed
    KeysCleaned
SYMMETRY Symmetry
CHECK_DEADLOCK FALSE
