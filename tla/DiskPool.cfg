CONSTANTS
    h1 = h1
    h2 = h2
    h3 = h3
    h4 = h4
    Handles = {h1, h2, h3, h4}
    NoOne = NoOne
    MaxCapacity = 6
    Sizes = {0, 1, 2, 3}
SPECIFICATION Spec
SYMMETRY HandleSymmetry
INVARIANTS ExtentsDisjoint DataIntact FreeListExact NothingLeaks
PROPERTY GrowsOnlyWhenNeeded
CHECK_DEADLOCK FALSE
