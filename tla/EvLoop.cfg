CONSTANTS
    pumpTicker = pumpTicker
    linkUdp = linkUdp
    Glues <- MCGlues
    Kind <- MCKind
    InitFailures = FALSE
    MaxPosts = 1
SPECIFICATION Spec
INVARIANT LoopNoUseAfterFree
CHECK_DEADLOCK FALSE
