SPECIFICATION HandlersSpec
CONSTANTS
    Player = {1, 2}
    Challenge = {c1}
    Proposal = {o1}
    None = None
    MaxRankDiff = 10
    Admin = {"disputa"}
    Queue = "on"
    MaxAwards = 1
    Handler = {h1, h2}
    MaxCrashes = 0
VIEW WithoutHistory
PROPERTIES
    NothingStartsOver
CHECK_DEADLOCK FALSE
