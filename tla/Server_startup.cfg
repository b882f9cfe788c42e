\* A session ledger whose Redis URL does not parse.
CONSTANTS
    Features = {"policy-cel", "policy-rego", "redis"}
    Layers <- LedgerLayers
    ChannelSize = 1
    MaxVersions = 1
SPECIFICATION Spec
INVARIANT BadConfigAbortsFirst
CHECK_DEADLOCK FALSE
