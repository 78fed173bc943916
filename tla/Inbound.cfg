SPECIFICATION FairSpec
CONSTANTS
    m1 = m1
    m2 = m2
    m3 = m3
    status = status
    ana = ana
    beto = beto
    Message = {m1, m2, m3, status}
    Phone = {ana, beto}
    Sender <- TwoFromAna
    Ignored = {status}
    Request = {r1, r2}
    MaxEvents = 2
    MaxRequests = 2
    MaxFailures = 2
INVARIANTS
    TypeOK
    RoutedAtMostOnce
    WelcomedAtMostOnce
    RoutedIsKnown
PROPERTIES
    ReceivedIsRouted
CHECK_DEADLOCK FALSE
