CONSTANTS
    N = 5
    MinKnown = 3
    MaxPartial = 1
    CanExpire = TRUE
    SelfInNodeDB = TRUE
    Publishes <- MCReforwardPublishes
SPECIFICATION Spec
INVARIANT TypeOK
INVARIANT StoredAtClosest
PROPERTY PropagationTerminates
PROPERTY EveryPublishAnswered
CHECK_DEADLOCK FALSE
