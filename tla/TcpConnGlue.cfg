CONSTANTS
    Roles = {"outbound", "accepted"}
    SyncFailures = FALSE
    QueueCap = 2
    MaxWrites = 3
    MaxPosts = 2
    CloseInCallback = FALSE
SPECIFICATION Spec
INVARIANT TypeOK
INVARIANT NoUseAfterFree
PROPERTY CloseCompletes
PROPERTY ConnSpec
CHECK_DEADLOCK FALSE
