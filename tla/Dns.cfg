CONSTANTS
    r1 = r1
    r2 = r2
    r3 = r3
    p1 = p1
    p2 = p2
    t = t
    bad = bad
    w1 = w1
    w2 = w2
    Requests = {r1, r2, r3}
    Partitions = {p1, p2}
    Targets = {t, bad}
    Reserved = {bad}
    Workers = {w1, w2}
    TTL = 1
    MaxTime = 3
SPECIFICATION FairSpec
CHECK_DEADLOCK FALSE
INVARIANTS AnsweredExactly OneCommandPerKey ShutdownStrandsNobody
PROPERTIES HitIsFresh EveryLookupAnswered
