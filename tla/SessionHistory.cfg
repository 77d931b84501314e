CONSTANTS
    top = top
    frame = frame
    inner = inner
    Contexts = {top, frame, inner}
    Root = top
    ParentOf <- Nested
    MaxFresh = 6
    MaxSteps = 3
    MaxPlans = 1
    MaxOpaque = 2
SPECIFICATION HistorySpec
INVARIANT FramesFollowDocuments
PROPERTY CommitsAsAdmitted
CHECK_DEADLOCK FALSE
