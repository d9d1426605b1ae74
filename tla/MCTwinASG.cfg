SPECIFICATION Spec
CONSTANTS
    s1 = s1
    s2 = s2
    o1 = o1
    o2 = o2
    Instance <- Instances
    HomeOf <- Homes
    InitAlive <- Running
    MaxSize = 2
    ApiFailures = TRUE
    MaxCalls = 2
    MaxChanges = 2
INVARIANTS
    TypeOK
PROPERTIES
    ContractHolds
    CallsReturn
    ReplacementIsNew
CHECK_DEADLOCK FALSE
