SPECIFICATION HandlersSpec
CONSTANTS
    Player = {1, 2, 3}
    Challenge = {c1}
    Proposal = {o1, o2}
    None = None
    MaxRankDiff = 1
    Admin = {"cancha", "walkover", "disputa", "cancelar"}
    Queue = "flaky"
    MaxAwards = 2
    Handler = {h1}
    MaxCrashes = 0
PROPERTIES
    ImplementsLifecycle
CHECK_DEADLOCK FALSE
