CONSTANTS
    Roles = {"outbound", "accepted"}
    SyncFailures = FALSE
    QueueCap = 2
    MaxWrites = 3
    MaxPosts = 2
    CloseInCallback = TRUE
SPECIFICATION Spec
INVARIANT NoUseAfterFree
CHECK_DEADLOCK FALSE
