\* Files f1 with layers 0 and 1, f2 with layer 2; the first two are asked for.
CONSTANTS
    Files = {"f1", "f2"}
    Layers <- MCLayers
    Unreadable = {}
    Workers = {"w1"}
    EventLoop = "loop"
    Ranges <- MCRanges
    All <- MCAll
    MaxRequests = 1
SPECIFICATION Spec
INVARIANT CompleteHasEveryLayer
CHECK_DEADLOCK FALSE
