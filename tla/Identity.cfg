SPECIFICATION Spec
CONSTANTS
    Email = {e1}
    Ip = {i1, i2}
    Agent = {a1, a2}
    NoClient = NoClient
    Request = {r1, r2, r3}
    MaxUsers = 1
    MaxSessions = 4
    MaxFailures = 1
INVARIANTS
    TypeOK
    AccountsWhole
    SessionsInTurn
PROPERTIES
    LockedIn
SYMMETRY Symmetry
CHECK_DEADLOCK FALSE
