CONSTANTS
    c1 = c1
    c2 = c2
    w1 = w1
    w2 = w2
    r1 = r1
    r2 = r2
    s1 = s1
    s2 = s2
    Requests = {w1, r1}
    Connections = {c1, c2}
    ConnOf <- RequestsConnOf
    Mode <- RequestsMode
    Stores <- RequestsStores
    MaxClosures = 2
SPECIFICATION FairSpec
CHECK_DEADLOCK FALSE
INVARIANTS CanceledIsRolledBack ClosedHoldsNoAdmission
PROPERTIES ImplementsOrder EveryAdmissionReleased
