CONSTANTS
    MaxSigns = 2
    MaxDiskJobs = 2
    None = None
    RouterIDs <- MCRouterIDs
    ConfigFiles <- MCClientFiles
SPECIFICATION Spec
INVARIANT FileValid
CHECK_DEADLOCK FALSE
