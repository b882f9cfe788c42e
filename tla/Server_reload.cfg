\* Every startup of the configurations considered, and hot reload with both triggers.
CONSTANTS
    Features = {"policy-cel", "policy-rego", "redis"}
    Layers <- AllLayers
    ChannelSize = 1
    MaxVersions = 3
SPECIFICATION FairSpec
INVARIANTS
    StartupGate
    QuietIsCurrent
PROPERTIES
    
    EditTakesEffect
CHECK_DEADLOCK FALSE
