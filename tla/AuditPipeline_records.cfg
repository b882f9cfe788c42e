CONSTANTS
    Run = {n1, n2}
    FullPolicy = {"Block", "Shed"}
    Capacity = 1
    MaxDecisions = 2
SPECIFICATION Spec
SYMMETRY Symmetric
INVARIANTS
    RelayedAccounted
    ExposureBound
    PerRunOrder
    CountersBracketLog
    ExitIsFlushed
CHECK_DEADLOCK FALSE
