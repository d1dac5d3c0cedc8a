CONSTANTS
    MaxSigns = 3
    MaxDiskJobs = 2
    None = None
    RouterIDs <- MCRouterIDs
    ConfigFiles <- MCLifecycleFiles
SPECIFICATION Spec
INVARIANT TypeOK
INVARIANT RunningConfigWithinSpec
PROPERTY LatestRCPersisted
CHECK_DEADLOCK FALSE
