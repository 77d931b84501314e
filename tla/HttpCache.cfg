CONSTANTS
    Writers = {w1, w2, w3}
    Lookups = {r1}
    Removers = {x1}
    NoBody = NoBody
    MaxRepublish = 1
    MaxCrashes = 1
SPECIFICATION Spec
INVARIANTS HitsAreWhole PublishedBodyExists
SYMMETRY Symmetry
CHECK_DEADLOCK FALSE
