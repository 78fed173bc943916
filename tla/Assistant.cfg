SPECIFICATION Spec
CONSTANTS
    p1 = p1
    p2 = p2
    p3 = p3
    ana = ana
    anahi = anahi
    luz = luz
    w1 = w1
    w2 = w2
    Player = {p1, p2, p3}
    Writer = {p1, p2}
    Name = {ana, anahi, luz}
    Words = {w1, w2}
    Obvious = {w2}
    Message <- MCMessage
    Within <- MCWithin
    DisplayName <- MCDisplayName
    Request = {r1, r2}
    None = None
    MaxAliases = 1
    MaxMessages = 4
INVARIANTS
    OverLimitByRaceOnly
    IntentMeetsIdle
CHECK_DEADLOCK FALSE
