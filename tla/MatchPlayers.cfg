SPECIFICATION FairSpec
CONSTANTS
    Player = {1, 2, 3}
    Challenge = {c1, c2}
    Proposal = {o1, o2}
    None = None
    MaxRankDiff = 1
    Admin = {}
    Queue = "on"
    MaxAwards = 1
INVARIANTS
    TypeOK
    ReportAgreesWithMatch
    AwardedOnceWhenClosed
    PointsExplained
    WaitingHasJob
    LimitsCountRows
PROPERTIES
    FinishedMatchStays
    WaitingEnds
CHECK_DEADLOCK FALSE
