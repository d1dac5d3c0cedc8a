CONSTANTS
    MaxKeys = 3
    MaxRestarts = 2
    UsingSNSeed = FALSE
    SeedFileOK = TRUE
    Inbound = 1
    Junk = Junk
    None = None
SPECIFICATION Spec
INVARIANT KeysAsPersisted
CHECK_DEADLOCK FALSE
