SPECIFICATION Spec
\* Nothing follows a rejected definition or a failed assertion.
CHECK_DEADLOCK FALSE
CONSTANTS
    null = null
    none = none
    v1 = v1
    v2 = v2
    Null = null
    NoValue = none
    Candidates <- MCCandidates
    DataIds = {1, 2}
    CapabilityIds = {0, 1}
    FacadeIds = {0}
    Values = {v1, v2}
INVARIANTS
    NeverAborts
    QueuedOnItsRoute
    MapsAgree
    SnapshotsMatchAccessors
PROPERTY
    ImplementsTypedStore
