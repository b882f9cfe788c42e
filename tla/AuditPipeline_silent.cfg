CONSTANTS
    Run = {n1, n2}
    FullPolicy = {"Block"}
    Capacity = 1
    MaxDecisions = 2
SPECIFICATION Spec
INVARIANT NoSilentLoss
CHECK_DEADLOCK FALSE
