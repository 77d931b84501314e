CONSTANTS
    p1 = p1
    p2 = p2
    Producers = {p1, p2}
    Owner = Owner
    MaxSends = 2
    Budget <- SmallBudget
    MaxBatch = 2
    MaxSwaps = 2
SPECIFICATION FairSpec
INVARIANTS ReadyExact NoLostWake DeliveryExact
PROPERTY AcceptedLeaves
CHECK_DEADLOCK FALSE
