CONSTANTS
    MaxSends = 6
    CryptoThreads = 2
SPECIFICATION Spec
INVARIANT TypeOK
INVARIANT FramesSentOnce
PROPERTY EveryFrameSettles
CHECK_DEADLOCK FALSE
