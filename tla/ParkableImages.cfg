CONSTANTS
    i1 = i1
    i2 = i2
    c1 = c1
    Images = {i1, i2}
    Clients = {c1}
    MaxReaders = 2
    Capacity = 1
SPECIFICATION Spec
SYMMETRY Symmetry
INVARIANTS ParkingExact ReadersKeepBytes WaitIsJustified NoLostSchedule
