CONSTANTS
    o1 = o1
    o2 = o2
    o3 = o3
    c1 = c1
    c2 = c2
    b1 = b1
    None = None
    Work <- EachMixOnce
    Ops = {o1, o2, o3}
    Clients = {c1, c2}
    Buckets = {b1}
SPECIFICATION FairSpec
CHECK_DEADLOCK FALSE
INVARIANTS TicketsInOrder QuotaHasOneOwner 
PROPERTY EndsUnlessOvertaken
