CONSTANTS
    MaxSigns = 1
    MaxDiskJobs = 1
    None = None
    RouterIDs <- MCRouterIDs
    ConfigFiles <- MCBlacklistFiles
SPECIFICATION Spec
INVARIANT ValidConfigLoads
CHECK_DEADLOCK FALSE
