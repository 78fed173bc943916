SPECIFICATION TalkSpec
CONSTANTS
    Player = {1, 2, 3}
    Challenge = {c1}
    Proposal = {o1}
    None = None
    MaxRankDiff = 1
    Admin = {"disputa"}
    Queue = "on"
    MaxAwards = 1
    Sender = {1}
    Route = {r1, r2}
    MaxOffers = 1
    MaxFailures = 1
INVARIANTS
    TalkTypeOK
    StateIsBacked
    ListGoodForOne
    ConversationFollows
SYMMETRY Symmetry
CHECK_DEADLOCK FALSE
