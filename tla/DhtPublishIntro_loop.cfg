CONSTANTS
    N = 5
    MinKnown = 4
    MaxPartial = 2
    CanExpire = FALSE
    SelfInNodeDB = FALSE
    Publishes <- MCPublishes
SPECIFICATION Spec
PROPERTY PropagationTerminates
CHECK_DEADLOCK FALSE
