SPECIFICATION Spec
CONSTANTS
    Player = {1, 2}
    Handler = {h1, h2}
    RankDiff = {0, 1}
    MaxOperations = 3
INVARIANTS
    TypeOK
    NoPointFromNowhere
    ExactInTurn
    RanksAgree
CHECK_DEADLOCK FALSE
