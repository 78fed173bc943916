SPECIFICATION FairHandlersSpec
CONSTANTS
    Player = {1, 2}
    Challenge = {c1}
    Proposal = {o1, o2}
    None = None
    MaxRankDiff = 10
    Admin = {}
    Queue = "on"
    MaxAwards = 1
    Handler = {h1}
    MaxCrashes = 1
INVARIANTS
    CrashLeavesNoDebt
PROPERTIES
    QueuedWaitEnds
CHECK_DEADLOCK FALSE
