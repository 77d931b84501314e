CONSTANTS
    d1 = d1
    d2 = d2
    d3 = d3
    q = q
    f1 = f1
    f2 = f2
    Deltas = {d1, d2}
    Jobs = {q, f1, f2}
    Kind <- MCKind
    EarlyLimit = 2
SPECIFICATION FairSpec
CHECK_DEADLOCK FALSE
PROPERTY EverythingSettles
INVARIANTS FlushCovers CloseCovers
