CONSTANTS
    Run = {n1, n2}
    FullPolicy = {"Block"}
    Capacity = 1
    MaxDecisions = 1
SPECIFICATION FairSpec
PROPERTIES
    ShutdownCompletes
    BackpressureEnds
    StoredGetsCheckpointed
CHECK_DEADLOCK FALSE
