SPECIFICATION Spec
CONSTANTS
    Player = {1, 2, 3}
    Challenge = {c1}
    Proposal = {o1, o2}
    None = None
    MaxRankDiff = 10
    Admin = {"cancha", "walkover", "disputa", "cancelar"}
    Queue = "flaky"
    MaxAwards = 3
INVARIANTS
    RowsInOrder
    DisputeTracksReport
    ClosedWasAwarded
    SelectionSettled
PROPERTIES
    DecisionsStand
CHECK_DEADLOCK FALSE
